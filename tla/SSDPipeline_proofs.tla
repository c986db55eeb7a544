-------------------------- MODULE SSDPipeline_proofs ---------------------------
(***************************************************************************)
(* Proofs about SSDPipeline for any number of rows, ways and batches: no   *)
(* update of a row is lost, whichever way prefetches, evictions, training  *)
(* and flushes overlap on the four streams.                                *)
(*                                                                         *)
(* The argument has two halves.  Order says which work is done before      *)
(* which, from the places the streams wait for.  Device says where the     *)
(* latest value of each row is, in terms of the work that is pending.      *)
(***************************************************************************)
EXTENDS SSDPipeline, FiniteSetTheorems, SequenceTheorems, TLAPS

Gap == IF pipeline THEN 2 ELSE 1   \* a prefetch is fewer batches ahead of the training

-----------------------------------------------------------------------------
(* The work of a batch: its prefetch, on three streams, and its training.  *)
-----------------------------------------------------------------------------
SideWorks  == {"populate", "compact", "select", "lookup", "get", "fill"}
EvictWorks == {"evict", "spill", "enqueue"}
MainWorks  == {"forward", "unlock", "backward"}
Works      == SideWorks \cup {"copy"} \cup EvictWorks \cup MainWorks \cup {"sp_evict"}

Pieces == [work : Works \cup {"flush"}, i : Nat, k : Nat, after : SUBSET (Streams \X Nat)]

On(w) == IF w \in SideWorks THEN side
         ELSE IF w = "copy" THEN "copy"
         ELSE IF w \in EvictWorks \cup {"sp_evict"} THEN "evict"
         ELSE "main"

(* The pieces of work still queued, by their place in their stream, which  *)
(* does not change when work before them ends.                             *)
Queue(s)       == (ran[s] + 1)..End(s)
Piece(s, q)    == todo[s][q - ran[s]]
Is(s, q, w, i) == Piece(s, q).work = w /\ Piece(s, q).i = i

\* The batch whose w the host queues next, and the work a batch has.
Turn(w) == IF w = "forward" THEN nextF
           ELSE IF w \in {"unlock", "backward", "sp_evict"} THEN nextB
           ELSE nextP

Exists(w, i) ==
    /\ w \in {"lookup", "enqueue", "unlock"} => pipeline
    /\ w = "lookup" => i > 1
    /\ w \in {"evict", "sp_evict"} => batch[i] # {}

Queued(w, i)  == \E q \in Queue(On(w)) : Is(On(w), q, w, i)
Pending(w, i) == i >= Turn(w) \/ Queued(w, i)

(* Work v of batch j is done before work w of batch i. *)
Rank(w) == CASE w = "populate" -> 1 [] w = "compact" -> 2 [] w = "select" -> 3
             [] w = "lookup" -> 4 [] w = "get" -> 5 [] w = "fill" -> 6
             [] w = "evict" -> 1 [] w = "spill" -> 2 [] w = "enqueue" -> 3
             [] w = "forward" -> 1 [] w = "unlock" -> 2 [] w = "backward" -> 3
             [] OTHER -> 0

InTurn(v, w) == {v, w} \subseteq SideWorks \/ {v, w} \subseteq EvictWorks \/ {v, w} \subseteq MainWorks

First(v, j, w, i) ==
    \/ InTurn(v, w) /\ (j < i \/ (j = i /\ Rank(v) < Rank(w)))
    \/ v = w /\ j < i
    \/ v \in EvictWorks /\ w = "sp_evict" /\ j < i + Gap
    \/ v = "backward" /\ w = "populate" /\ j + Gap <= i
    \/ v = "fill" /\ w = (IF pipeline THEN "unlock" ELSE "backward") /\ j < i + Gap
    \/ v = "fill" /\ w = "forward" /\ j = i
    \/ v = "evict" /\ w = "compact" /\ j < i /\ j % 2 = i % 2
    \/ v = "enqueue" /\ w = "lookup" /\ j < i
    \/ v = "sp_evict" /\ w = "get" /\ j + Gap <= i
    \/ /\ <<v, w>> \in {<<"compact", "copy">>, <<"copy", "lookup">>, <<"copy", "get">>, <<"get", "evict">>,
                        <<"fill", "spill">>, <<"lookup", "enqueue">>, <<"backward", "sp_evict">>}
       /\ j = i

-----------------------------------------------------------------------------
(* The streams and the host.                                               *)
-----------------------------------------------------------------------------
StreamsOK == todo \in [Streams -> Seq(Pieces)] /\ ran \in [Streams -> Nat]

HostOK ==
    /\ pipeline \in BOOLEAN /\ side \in {"main", "prefetch"} /\ (side = "prefetch" => pipeline)
    /\ nextP \in Nat /\ nextF \in Nat /\ nextB \in Nat /\ lastFlush \in Int
    /\ 1 <= nextB /\ nextB <= nextF /\ nextF <= nextB + 1 /\ nextF <= nextP
    /\ nextP <= nextB + Gap /\ nextP <= MaxBatches + 1
    /\ pipeline /\ 1 < nextB /\ nextB <= MaxBatches => nextB < nextP
    /\ host \in {"train", "flush", "flushed"} /\ lastFlush < nextF
    /\ pads = IF pipeline /\ nextP > 1 THEN <<nextP - 1>> ELSE <<>>
    /\ moves = IF pipeline /\ nextP = nextB + 2 THEN <<nextB + 1>> ELSE <<>>
    /\ gate \in Nat /\ ready \in [Batches -> Nat] /\ event \in [Events -> Streams \X Nat]
    /\ batch \in [Batches -> SUBSET Idx]
    /\ \A i \in Batches : IF i >= nextP THEN batch[i] = {} ELSE pipeline => batch[i] # {}

(* What is queued where, and what of it matters. *)
ContentOf(s, p) ==
    IF p.work = "flush"
    THEN s = "main" /\ p.after = {} /\ host = "flush"
    ELSE /\ p.i \in Batches /\ s = On(p.work) /\ p.i < Turn(p.work) /\ Exists(p.work, p.i)
         /\ p.work = "lookup" => p.k = p.i - 1
         /\ p.work = "unlock" => p.k = IF p.i = MaxBatches THEN 0 ELSE p.i + 1
         /\ p.work = "backward" => p.after = {}

Contents == \A s \in Streams : \A q \in Queue(s) : ContentOf(s, Piece(s, q))

Unique == \A w \in Works, i \in Batches : \A q, r \in Queue(On(w)) :
              Is(On(w), q, w, i) /\ Is(On(w), r, w, i) => q = r

FlushLast == \A r \in Queue("main") : Piece("main", r).work = "flush" => r = End("main")

UnlockBefore ==
    \A r \in Queue("main") : Piece("main", r).work = "backward" /\ pipeline /\ r - 1 \in Queue("main") =>
        Is("main", r - 1, "unlock", Piece("main", r).i)

(* The places the host waits for cover the work they stand for. *)
Covers(p, s, q) == p[1] = s /\ p[2] >= q

Waits ==
    /\ side = "prefetch" =>
          \A r \in Queue("main") : Piece("main", r).work = "backward" => r <= gate
    /\ \A q \in Queue("evict") :
          LET p == Piece("evict", q)
          IN  /\ p.work = "evict" => Covers(event[EvictEvent(p.i)], "evict", q)
              /\ p.work = "enqueue" => Covers(event["sp_idxq_insert"], "evict", q)
              /\ p.work = "sp_evict" => Covers(event["sp_evict"], "evict", q)
    /\ \A q \in Queue(side) : Piece(side, q).work = "fill" => q <= ready[Piece(side, q).i]

(* Work that is first is ahead in the same stream, or waited for, and done *)
(* when the other is.                                                      *)
Before(s, q, t, r) ==
    IF s = t THEN q < r ELSE \E p \in Piece(t, r).after : Covers(p, s, q)

Ordered(v, j, w, i) ==
    /\ j >= Turn(v) => i >= Turn(w)
    /\ Queued(v, j) /\ Exists(w, i) => Pending(w, i)
    /\ \A q \in Queue(On(v)), r \in Queue(On(w)) :
           Is(On(v), q, v, j) /\ Is(On(w), r, w, i) => Before(On(v), q, On(w), r)

AllOrdered == \A v, w \in Works, j, i \in Batches : First(v, j, w, i) => Ordered(v, j, w, i)

Order == /\ StreamsOK /\ HostOK /\ Contents /\ Unique /\ FlushLast /\ UnlockBefore /\ Waits
         /\ AllOrdered

-----------------------------------------------------------------------------
(* What is pending of a batch, and of the batches before and after it.     *)
-----------------------------------------------------------------------------
ChainOf(i) ==
    /\ Pending("populate", i) => Pending("compact", i)
    /\ Pending("compact", i) => Pending("select", i) /\ Pending("copy", i)
    /\ Pending("select", i) \/ Pending("copy", i) => Pending("get", i)
    /\ Pending("get", i) => Pending("fill", i)
    /\ Pending("fill", i) => Pending("spill", i) /\ Pending("forward", i)
    /\ Pending("forward", i) => Pending("backward", i)
    /\ pipeline => /\ Pending("forward", i) => Pending("unlock", i)
                   /\ Pending("unlock", i) => Pending("backward", i)
                   /\ Pending("spill", i) => Pending("enqueue", i)
    /\ pipeline /\ i > 1 => /\ Pending("select", i) \/ Pending("copy", i) => Pending("lookup", i)
                            /\ Pending("lookup", i) => Pending("get", i) /\ Pending("enqueue", i)
    /\ batch[i] # {} => /\ Pending("get", i) => Pending("evict", i)
                        /\ Pending("evict", i) \/ Pending("spill", i) => Pending("sp_evict", i)
                        /\ Pending("backward", i) => Pending("sp_evict", i)

\* Work that waits for, or is queued after, the same work of earlier batches.
InStep == {"populate", "compact", "select", "get", "fill", "copy", "spill", "forward", "backward"}

ApartOf(j, i) ==
    /\ \A w \in InStep : Pending(w, j) => Pending(w, i)
    /\ pipeline => \A w \in {"lookup", "enqueue", "unlock"} : Pending(w, j) => Pending(w, i)
    /\ Pending("fill", j) => Pending("populate", i)
    /\ pipeline => /\ Pending("enqueue", j) => Pending("lookup", i)
                   /\ Pending("backward", j) => Pending("unlock", i)
    /\ pipeline /\ i = j + 1 /\ Pending("fill", i) => Pending("unlock", j)
    /\ j + Gap <= i => /\ Pending("backward", j) => Pending("populate", i)
                       /\ Pending("sp_evict", j) => Pending("get", i)
    /\ j % 2 = i % 2 /\ Pending("evict", j) => Pending("compact", i)
    /\ pipeline /\ i = j + 1 /\ batch[j] # {} /\ Pending("evict", i) => Pending("sp_evict", j)
    /\ j # 1 /\ Pending("evict", j) /\ ~ Pending("populate", j) => Pending("get", i)

Chains == /\ \A i \in Batches : ChainOf(i)
          /\ \A j, i \in Batches : j < i => ApartOf(j, i)

-----------------------------------------------------------------------------
(* The device: where each row's latest value is.                           *)
-----------------------------------------------------------------------------
Caches    == [tag : [Ways -> Idx \cup {NoIdx}], time : [Ways -> Nat], lock : [Ways -> Nat]]

IsTrained(i) == ~ Pending("backward", i)
Unlocked(i)  == pipeline /\ ~ Pending("unlock", i)
Live(i)      == ~ Pending("populate", i) /\ Pending("backward", i)
Filling(i)   == ~ Pending("populate", i) /\ Pending("fill", i)

\* How often x was trained.
Latest(x) == Cardinality({i \in Batches : IsTrained(i) /\ x \in batch[i]})

\* Whether no two ways hold the same row.
UniqueTags(c) == \A v, w \in Ways : c.tag[v] = c.tag[w] /\ c.tag[v] # NoIdx => v = w

\* The rows batch i gets from the store or from the pad of the batch before.
NoWays(i) == {x \in batch[i] : loc[i][x] = NoWay}
Missed(i) == IF Pending("fill", i) THEN DOMAIN slot[i] \cup NoWays(i) ELSE conflict[i]

\* The rows of the pad of batch i that the next batch took over.
TakenOver(i) == IF i + 1 \in Batches THEN found[i + 1] ELSE {}

Arrays == /\ DOMAIN loc = Batches /\ DOMAIN slot = Batches /\ DOMAIN out = Batches
          /\ DOMAIN fetch = Batches /\ DOMAIN conflict = Batches /\ DOMAIN spill = Batches
          /\ DOMAIN found = Batches /\ DOMAIN ptr = Batches /\ DOMAIN buffer = 0..1

Rows == /\ cache \in Caches /\ UniqueTags(cache)
        /\ l1 \in [Ways -> Int] /\ store \in [Idx -> Int] /\ pad \in [Batches -> [Idx -> Int]]

(* The ways a batch was given, and what its rows evicted.                  *)
SlotsOf(i) ==
    /\ DOMAIN slot[i] \subseteq batch[i] /\ \A x \in DOMAIN slot[i] : slot[i][x] \in Ways
    /\ DOMAIN out[i] \subseteq Idx \ batch[i] /\ \A y \in DOMAIN out[i] : out[i][y] \in Ways
    /\ Pending("populate", i) => DOMAIN slot[i] = {} /\ DOMAIN out[i] = {}
    /\ i = 1 => DOMAIN out[i] = {} /\ (Pending("populate", i) => Cached(cache) = {})
    /\ i + 1 \in Batches /\ Pending("backward", i) => DOMAIN out[i + 1] \cap batch[i] = {}

RecordsOf(i) ==
    /\ DOMAIN loc[i] = IF Live(i) THEN batch[i] ELSE {}
    /\ \A x \in DOMAIN loc[i] : loc[i][x] \in Ways \cup {NoWay}
    /\ DOMAIN ptr[i] = IF Live(i) /\ ~ Pending("fill", i) THEN batch[i] ELSE {}
    /\ conflict[i] \subseteq batch[i]
    /\ ~ pipeline \/ i = 1 \/ Pending("lookup", i) => found[i] = {}

(* Until it is filled, a batch's locations are those it was given.         *)
FillingOf(i) ==
    Filling(i) =>
        /\ \A x \in batch[i] : loc[i][x] = Location(cache, x)
        /\ \A x \in DOMAIN slot[i] : cache.tag[slot[i][x]] = x
        /\ ~ Pending("copy", i) => fetch[i] = Missed(i) \ found[i]

(* A batch's rows stay where they are until it is trained, but those that  *)
(* the next batch gave a way, which had none.                              *)
LocatedOf(i) ==
    Live(i) => \A x \in batch[i] :
        /\ loc[i][x] # NoWay => cache.tag[loc[i][x]] = x
        /\ i + 1 \in Batches /\ x \in DOMAIN slot[i + 1] /\ ~ Unlocked(i) => loc[i][x] = NoWay
        /\ loc[i][x] = NoWay /\ x \in Cached(cache) =>
              i + 1 \in Batches /\ x \in DOMAIN slot[i + 1] /\ ~ Unlocked(i)

(* The rows without a way, and who has them.                               *)
ConflictOf(i) ==
    /\ Live(i) /\ ~ Pending("fill", i) => \A x \in batch[i] :
           /\ loc[i][x] = NoWay => x \in conflict[i]
           /\ x \in conflict[i] /\ loc[i][x] # NoWay => Unlocked(i) /\ x \in TakenOver(i)
    /\ pipeline /\ i + 1 \in Batches /\ ~ Pending("lookup", i + 1) =>
           found[i + 1] = conflict[i] \cap batch[i + 1]
    /\ ~ Pending("spill", i) => spill[i] = conflict[i] \ TakenOver(i)

\* The map of a batch's pad is in the queue.
InQueue(i) == pipeline /\ ~ Pending("enqueue", i) /\ (i + 1 \in Batches => Pending("lookup", i + 1))

IndexQueue == /\ \A i \in Batches : InQueue(i) => idxq = <<conflict[i]>>
              /\ (\A i \in Batches : ~ InQueue(i)) => idxq = <<>>

PointersOf(i) ==
    Live(i) /\ ~ Pending("fill", i) => \A x \in batch[i] :
        ptr[i][x] = IF loc[i][x] # NoWay THEN [at |-> "l1", n |-> loc[i][x]]
                    ELSE [at |-> "pad", n |-> IF Unlocked(i) /\ x \in TakenOver(i) THEN i + 1 ELSE i]

(* Who uses a way; the ways of batches not trained are locked.             *)
Users(w) == {i \in Batches : Pending("unlock", i) /\ \E x \in DOMAIN loc[i] : loc[i][x] = w}

Locks == \A w \in Ways : cache.lock[w] = IF pipeline THEN Cardinality(Users(w)) ELSE 0

Times == \A i \in Batches, w \in Ways : Pending("populate", i) => cache.time[w] < i

(* The latest value of a row: in its way once that is filled, in the way   *)
(* or the buffer it was evicted from or to, in a scratch pad, else in the  *)
(* store.                                                                  *)
BeingFilled(w) == \E i \in Batches : Filling(i) /\ \E x \in DOMAIN slot[i] : slot[i][x] = w
InWay(x, w)  == cache.tag[w] = x /\ ~ BeingFilled(w)
InPad(x, i)  == /\ ~ Pending("populate", i) /\ x \in Missed(i) /\ x \notin TakenOver(i)
                /\ ~ Pending("get", i) \/ x \in found[i]
                /\ Pending("sp_evict", i)
Leaving(y, i) == Pending("evict", i) /\ y \in DOMAIN out[i]

InStore(x) == /\ \A w \in Ways : ~ InWay(x, w)
              /\ \A i \in Batches : ~ InPad(x, i) /\ ~ Leaving(x, i)

BufferOf(i) ==
    Pending("evict", i) /\ ~ Pending("compact", i) =>
        /\ DOMAIN buffer[i % 2] = DOMAIN out[i]
        /\ ~ Pending("select", i) => \A y \in DOMAIN out[i] : buffer[i % 2][y] = Latest(y)

WayValues   == \A w \in Ways, x \in Idx : InWay(x, w) => l1[w] = Latest(x)
PadValues   == \A i \in Batches, x \in Idx : InPad(x, i) => pad[i][x] = Latest(x)
\* A batch reads the rows of its pad until it is unlocked.
OldPads     == \A i \in Batches, x \in Idx :
                   Live(i) /\ ~ Unlocked(i) /\ x \in TakenOver(i) /\ x \in conflict[i]
                   => pad[i][x] = Latest(x)
LeftValues  == \A i \in Batches, y \in Idx :
                   Leaving(y, i) /\ Pending("select", i) => l1[out[i][y]] = Latest(y)
StoreValues == \A x \in Idx : InStore(x) => store[x] = Latest(x)

(* What flush has read, and what it leaves.                                *)
FlushReads == host = "flush" /\ todo["main"] = <<>>

FlushOf(x) == \/ flushed[x] = Latest(x)
              \/ nextP = nextB + 2 /\ x \in DOMAIN slot[nextP - 1] /\ x \in Cached(cache)

(* While flush waits, its read is the last work of main; then every fill   *)
(* is done but that of a batch prefetched ahead of the one in training.    *)
FlushQueue ==
    host = "flush" => /\ todo["main"] # <<>> => Piece("main", End("main")).work = "flush"
                      /\ nextF = 1 => nextP = 1

FillingAhead == \A i \in Batches : i < nextP /\ Pending("fill", i) => i = nextP - 1 /\ nextP = nextB + 2

Flushing ==
    /\ FlushQueue
    /\ DOMAIN flushed \subseteq Idx /\ \A x \in DOMAIN flushed : flushed[x] \in Int
    /\ FlushReads => /\ \A x \in DOMAIN flushed : FlushOf(x)
                     /\ nextP = nextB => Cached(cache) \subseteq DOMAIN flushed

Flushed ==
    ~ FlushMidStep =>
        /\ host = "flush" \/ lastFlush = step => nextF = nextB
        /\ host = "flushed" => lastFlush = step
        /\ lastFlush = step /\ nextP = nextB => Idle /\ \A x \in Idx : store[x] = Latest(x)

Slots     == \A i \in Batches : SlotsOf(i)
Records   == \A i \in Batches : RecordsOf(i)
Fillings  == \A i \in Batches : FillingOf(i)
Located   == \A i \in Batches : LocatedOf(i)
Conflicts == \A i \in Batches : ConflictOf(i)
Pointers  == \A i \in Batches : PointersOf(i)
Buffers   == \A i \in Batches : BufferOf(i)

Layout == Arrays /\ Rows /\ Slots /\ Records /\ Fillings /\ Located /\ Conflicts /\ Pointers
Values == WayValues /\ PadValues /\ OldPads /\ LeftValues /\ StoreValues /\ Buffers

Device == Layout /\ IndexQueue /\ Locks /\ Times /\ Values /\ Flushing /\ Flushed

-----------------------------------------------------------------------------
(* A stream ends a piece of work. *)
Ready(s) == todo[s] # <<>> /\ \A p \in Head(todo[s]).after : ran[p[1]] >= p[2]

LEMMA QueueFacts ==
    ASSUME StreamsOK, NEW s \in Streams
    PROVE  /\ ran[s] \in Nat /\ End(s) \in Nat
           /\ \A q \in Queue(s) : /\ Piece(s, q) \in Pieces /\ q \in Nat
                                  /\ ran[s] + 1 <= q /\ q <= End(s)
           /\ todo[s] # <<>> => ran[s] + 1 \in Queue(s) /\ Piece(s, ran[s] + 1) = Head(todo[s])
           /\ todo[s] = <<>> => Queue(s) = {}
           /\ todo[s] # <<>> /\ ran[s] + 1 = End(s) => Tail(todo[s]) = <<>>
<1>1. ran[s] \in Nat /\ todo[s] \in Seq(Pieces) /\ Len(todo[s]) \in Nat
  BY DEF StreamsOK
<1>2. ASSUME NEW q \in Queue(s)
      PROVE  Piece(s, q) \in Pieces /\ q \in Nat /\ ran[s] + 1 <= q /\ q <= End(s)
  <2>1. q \in Nat /\ q - ran[s] \in 1..Len(todo[s]) /\ ran[s] + 1 <= q /\ q <= End(s)
    BY <1>1, <1>2 DEF Queue, End
  <2>. QED BY <1>1, <2>1 DEF Piece
<1>3. ASSUME todo[s] # <<>>
      PROVE  ran[s] + 1 \in Queue(s) /\ Piece(s, ran[s] + 1) = Head(todo[s])
  BY <1>1, <1>3 DEF Queue, End, Piece
<1>4. todo[s] = <<>> => Queue(s) = {}
  BY <1>1 DEF Queue, End
<1>5. ASSUME todo[s] # <<>>, ran[s] + 1 = End(s) PROVE Tail(todo[s]) = <<>>
  <2>1. \A a, n \in Nat : a + 1 = a + n => n = 1
    OBVIOUS
  <2>2. Len(todo[s]) = 1
    BY <1>1, <1>5, <2>1 DEF End
  <2>3. Len(Tail(todo[s])) = 0 /\ Tail(todo[s]) \in Seq(Pieces)
    BY <1>1, <1>5, <2>2, HeadTailProperties
  <2>. QED BY <2>3, EmptySeq
<1>. QED BY <1>1, <1>2, <1>3, <1>4, <1>5 DEF End

LEMMA Shrink ==
    ASSUME StreamsOK, NEW s \in Streams, todo[s] # <<>>, Finish(s)
    PROVE  /\ StreamsOK'
           /\ ran[s] + 1 \in Queue(s) /\ Piece(s, ran[s] + 1) = Head(todo[s])
           /\ Head(todo[s]) \in Pieces
           /\ \A t \in Streams : /\ Queue(t)' = IF t = s THEN Queue(t) \ {ran[t] + 1} ELSE Queue(t)
                                 /\ \A q \in Queue(t)' : Piece(t, q)' = Piece(t, q)
                                 /\ End(t)' = End(t)
                                 /\ ran'[t] = IF t = s THEN ran[t] + 1 ELSE ran[t]
<1>1. /\ \A t \in Streams : ran[t] \in Nat /\ todo[t] \in Seq(Pieces) /\ Len(todo[t]) \in Nat
      /\ Tail(todo[s]) \in Seq(Pieces) /\ Len(Tail(todo[s])) = Len(todo[s]) - 1
      /\ Head(todo[s]) = todo[s][1] /\ Len(todo[s]) > 0
      /\ \A n \in 1..(Len(todo[s]) - 1) : Tail(todo[s])[n] = todo[s][n + 1]
  BY DEF StreamsOK
<1>2. /\ \A t \in Streams : t # s => todo'[t] = todo[t] /\ ran'[t] = ran[t]
      /\ todo'[s] = Tail(todo[s]) /\ ran'[s] = ran[s] + 1
  BY DEF Finish, StreamsOK
<1>3. StreamsOK'
  BY <1>1 DEF Finish, StreamsOK
<1>5. ASSUME NEW t \in Streams, t # s
      PROVE  /\ Queue(t)' = Queue(t) /\ End(t)' = End(t)
             /\ \A q \in Queue(t)' : Piece(t, q)' = Piece(t, q)
  BY <1>2, <1>5 DEF Queue, End, Piece
<1>6. End(s)' = End(s) /\ Queue(s)' = Queue(s) \ {ran[s] + 1}
  <2>1. End(s)' = End(s)
    BY <1>1, <1>2 DEF End
  <2>2. ran[s] \in Nat /\ End(s) \in Nat /\ Queue(s)' = (ran[s] + 2)..End(s)
    BY <1>1, <1>2, <2>1 DEF Queue, End
  <2>3. \A a, b \in Nat : (a + 2)..b = ((a + 1)..b) \ {a + 1}
    OBVIOUS
  <2>. QED BY <2>1, <2>2, <2>3 DEF Queue
<1>7. ASSUME NEW q \in Queue(s)' PROVE Piece(s, q)' = Piece(s, q)
  <2>1. q - (ran[s] + 1) \in 1..(Len(todo[s]) - 1) /\ q - (ran[s] + 1) + 1 = q - ran[s]
    <3>1. q \in (ran[s] + 1 + 1)..(ran[s] + 1 + (Len(todo[s]) - 1))
      BY <1>1, <1>2 DEF Queue, End
    <3>2. ran[s] \in Nat /\ Len(todo[s]) \in Nat
      BY <1>1
    <3>3. \A a, n \in Nat : \A c \in (a + 1 + 1)..(a + 1 + (n - 1)) :
             c - (a + 1) \in 1..(n - 1) /\ c - (a + 1) + 1 = c - a
      OBVIOUS
    <3>. QED BY Zenon, <3>1, <3>2, <3>3
  <2>2. Tail(todo[s])[q - (ran[s] + 1)] = todo[s][q - ran[s]]
    BY <1>1, <2>1
  <2>. QED BY <1>1, <1>2, <2>1, <2>2 DEF Piece
<1>8. ran[s] + 1 \in Queue(s) /\ Piece(s, ran[s] + 1) = Head(todo[s])
  BY <1>1 DEF Queue, End, Piece
<1>9. Head(todo[s]) \in Pieces
  BY <1>1
<1>. QED BY <1>1, <1>2, <1>3, <1>5, <1>6, <1>7, <1>8, <1>9

(* The host queues W[t] on each stream t. *)
LEMMA Extend ==
    ASSUME StreamsOK, NEW W \in [Streams -> Seq(Pieces)],
           todo' = [t \in Streams |-> todo[t] \o W[t]], ran' = ran
    PROVE  /\ StreamsOK'
           /\ \A t \in Streams :
                 /\ Queue(t) \subseteq Queue(t)'
                 /\ \A q \in Queue(t) : Piece(t, q)' = Piece(t, q)
                 /\ End(t)' = End(t) + Len(W[t]) /\ Len(W[t]) \in Nat
                 /\ \A n \in 1..Len(W[t]), q \in Nat :
                       q = End(t) + n => q \in Queue(t)' /\ Piece(t, q)' = W[t][n]
                 /\ \A q \in Queue(t)' : q \in Queue(t) \/ \E n \in 1..Len(W[t]) : q = End(t) + n
<1>3. StreamsOK'
  <2>1. \A t \in Streams : todo[t] \o W[t] \in Seq(Pieces)
    BY DEF StreamsOK
  <2>. QED BY <2>1 DEF StreamsOK
<1>4. SUFFICES ASSUME NEW s \in Streams
      PROVE  /\ Queue(s) \subseteq Queue(s)'
             /\ \A q \in Queue(s) : Piece(s, q)' = Piece(s, q)
             /\ End(s)' = End(s) + Len(W[s]) /\ Len(W[s]) \in Nat
             /\ \A n \in 1..Len(W[s]), q \in Nat :
                   q = End(s) + n => q \in Queue(s)' /\ Piece(s, q)' = W[s][n]
             /\ \A q \in Queue(s)' : q \in Queue(s) \/ \E n \in 1..Len(W[s]) : q = End(s) + n
  BY <1>3
<1>5. PICK u, v : u = todo[s] /\ v = W[s] /\ u \in Seq(Pieces) /\ v \in Seq(Pieces)
  BY DEF StreamsOK
<1>1. /\ ran[s] \in Nat /\ Len(u) \in Nat /\ Len(v) \in Nat /\ Len(u \o v) = Len(u) + Len(v)
      /\ \A n \in 1..Len(u) : (u \o v)[n] = u[n]
      /\ \A n \in 1..Len(v) : (u \o v)[Len(u) + n] = v[n]
  BY <1>5 DEF StreamsOK
<1>2. todo'[s] = u \o v /\ ran'[s] = ran[s] /\ todo[s] = u /\ W[s] = v
  BY <1>5
<1>6. /\ End(s)' = End(s) + Len(v) /\ End(s) = ran[s] + Len(u) /\ End(s) \in Nat
      /\ Queue(s) = (ran[s] + 1)..(ran[s] + Len(u))
      /\ Queue(s)' = (ran[s] + 1)..(ran[s] + Len(u) + Len(v))
  BY <1>1, <1>2 DEF Queue, End
<1>0. PICK a \in Nat, b \in Nat, c \in Nat, e \in Nat :
          a = ran[s] /\ b = Len(u) /\ c = Len(v) /\ e = End(s) /\ e = a + b
  BY Zenon, <1>1, <1>6
<1>12. a \in Nat /\ b \in Nat /\ c \in Nat /\ e \in Nat /\ e = a + b
  BY Zenon, <1>0
<1>11. Queue(s) = (a + 1)..(a + b) /\ Queue(s)' = (a + 1)..(a + b + c)
  BY Zenon, <1>0, <1>6
<1>7. ASSUME NEW q \in Queue(s) PROVE Piece(s, q)' = Piece(s, q)
  <2>1. q - a \in 1..b
    BY <1>11
  <2>2. q - ran[s] \in 1..Len(u)
    BY Zenon, <1>0, <2>1
  <2>. QED BY <1>1, <1>2, <2>2 DEF Piece
<1>8. ASSUME NEW n \in 1..Len(v), NEW q \in Nat, q = End(s) + n
      PROVE  q \in Queue(s)' /\ Piece(s, q)' = v[n]
  <2>0. n \in 1..c /\ q = e + n
    BY Zenon, <1>0, <1>8
  <2>1. q - ran[s] = Len(u) + n
    <3>1. q - a = b + n
      BY <1>12, <2>0
    <3>. QED BY Zenon, <1>0, <3>1
  <2>2. q \in Queue(s)'
    BY <1>11, <1>12, <2>0
  <2>3. Piece(s, q)' = (u \o v)[Len(u) + n]
    BY Zenon, <1>2, <2>1 DEF Piece
  <2>. QED BY <1>1, <2>2, <2>3
<1>9. ASSUME NEW q \in Queue(s)', q \notin Queue(s) PROVE \E n \in 1..Len(v) : q = End(s) + n
  <2>4. q \in (a + 1)..(a + b + c) /\ q \notin (a + 1)..(a + b)
    BY Zenon, <1>9, <1>11
  <2>5. q \in Int /\ q > e /\ q <= e + c
    BY <1>12, <2>4
  <2>6. \A z \in Int, d, n \in Nat : z > d /\ z <= d + n => z - d \in 1..n /\ z = d + (z - d)
    OBVIOUS
  <2>7. q - e \in 1..c /\ q = e + (q - e)
    BY Zenon, <1>0, <2>5, <2>6
  <2>. QED BY Zenon, <1>0, <2>7
<1>10. Queue(s) \subseteq Queue(s)'
  BY <1>11
<1>. QED BY Zenon, <1>1, <1>2, <1>6, <1>7, <1>8, <1>9, <1>10

(* What the head of a stream waits for is done. *)
LEMMA HeadIsFirst ==
    ASSUME StreamsOK, NEW t \in Streams, Ready(t), NEW s \in Streams, NEW q \in Queue(s)
    PROVE  ~ Before(s, q, t, ran[t] + 1)
<1>1. /\ ran[s] \in Nat /\ q \in Nat /\ ran[s] + 1 <= q
      /\ Piece(t, ran[t] + 1) = Head(todo[t]) /\ Head(todo[t]) \in Pieces
  BY QueueFacts DEF Ready
<1>2. CASE s = t
  BY <1>1, <1>2 DEF Before
<1>3. CASE s # t
  <2>1. SUFFICES ASSUME NEW p \in Head(todo[t]).after, p[1] = s, p[2] >= q PROVE FALSE
    BY <1>1, <1>3 DEF Before, Covers
  <2>2. p[2] \in Nat /\ ran[s] >= p[2]
    BY <1>1, <2>1 DEF Ready, Pieces
  <2>. QED BY <1>1, <2>1, <2>2
<1>. QED BY <1>2, <1>3

-----------------------------------------------------------------------------
LEMMA WorkFacts ==
    ASSUME HostOK, NEW w \in Works
    PROVE  On(w) \in Streams /\ Turn(w) \in Nat /\ w # "flush"
<1>1. On(w) \in Streams
  BY DEF On, Streams, HostOK
<1>2. Turn(w) \in Nat
  BY DEF Turn, HostOK
<1>3. w # "flush"
  BY DEF Works, SideWorks, EvictWorks, MainWorks
<1>. QED BY <1>1, <1>2, <1>3

(* What is at the head of a stream: what is first of it is done. *)
LEMMA HeadFacts ==
    ASSUME Order, NEW s \in Streams, Ready(s), NEW h, h = Head(todo[s])
    PROVE  /\ h \in Pieces /\ ContentOf(s, h) /\ ran[s] + 1 \in Queue(s)
           /\ Piece(s, ran[s] + 1) = h
           /\ h.work # "flush" =>
                 /\ h.work \in Works /\ h.i \in Batches /\ On(h.work) = s
                 /\ h.i < Turn(h.work) /\ Exists(h.work, h.i) /\ Pending(h.work, h.i)
                 /\ \A v \in Works, j \in Batches : First(v, j, h.work, h.i) => ~ Pending(v, j)
<1>1. StreamsOK /\ todo[s] # <<>>
  BY DEF Order, Ready
<1>2. ran[s] + 1 \in Queue(s) /\ Piece(s, ran[s] + 1) = h /\ h \in Pieces
  BY <1>1, QueueFacts
<1>3. ContentOf(s, h)
  BY <1>2 DEF Order, Contents
<1>4. SUFFICES ASSUME h.work # "flush"
      PROVE  /\ h.work \in Works /\ h.i \in Batches /\ On(h.work) = s
             /\ h.i < Turn(h.work) /\ Exists(h.work, h.i) /\ Pending(h.work, h.i)
             /\ \A v \in Works, j \in Batches : First(v, j, h.work, h.i) => ~ Pending(v, j)
  BY <1>2, <1>3
<1>5. h.work \in Works
  BY <1>2, <1>4 DEF Pieces
<1>6. h.i \in Batches /\ On(h.work) = s /\ h.i < Turn(h.work) /\ Exists(h.work, h.i)
  BY <1>3, <1>4 DEF ContentOf
<1>7. Is(s, ran[s] + 1, h.work, h.i)
  BY <1>2 DEF Is
<1>8. Pending(h.work, h.i)
  BY <1>2, <1>6, <1>7 DEF Pending, Queued
<1>9. ASSUME NEW v \in Works, NEW j \in Batches, First(v, j, h.work, h.i) PROVE ~ Pending(v, j)
  <2>1. Ordered(v, j, h.work, h.i)
    BY <1>5, <1>6, <1>9 DEF Order, AllOrdered
  <2>2. ~ (j >= Turn(v))
    BY <1>6, <2>1 DEF Ordered, Order, HostOK, Turn, Batches
  <2>3. ASSUME NEW q \in Queue(On(v)), Is(On(v), q, v, j) PROVE FALSE
    <3>1. Before(On(v), q, s, ran[s] + 1)
      BY <1>2, <1>6, <1>7, <2>1, <2>3 DEF Ordered
    <3>2. On(v) \in Streams
      BY DEF On, Streams, Order, HostOK
    <3>. QED BY <1>1, <2>3, <3>1, <3>2, HeadIsFirst
  <2>. QED BY <2>2, <2>3 DEF Pending, Queued
<1>. QED BY <1>5, <1>6, <1>8, <1>9

(* When a stream ends its piece of work, that piece is pending no more. *)
LEMMA DonePending ==
    ASSUME Order, NEW s \in Streams, Ready(s), Done(s), UNCHANGED batch, NEW h, h = Head(todo[s])
    PROVE  \A v \in Works, j \in Batches :
               Pending(v, j)' <=> Pending(v, j) /\ ~ (h.work = v /\ h.i = j)
<1>1. Finish(s) /\ todo[s] # <<>> /\ StreamsOK /\ HostOK /\ Contents /\ Unique
  BY DEF Order, Ready, Done
<1>2. SUFFICES ASSUME NEW v \in Works, NEW j \in Batches
      PROVE  Pending(v, j)' <=> Pending(v, j) /\ ~ (h.work = v /\ h.i = j)
  OBVIOUS
<1>3. On(v)' = On(v) /\ Turn(v)' = Turn(v)
  BY DEF On, Turn, Done, trainer
<1>4. PICK t \in Streams : t = On(v)
  BY <1>1, WorkFacts
<1>5. /\ Queue(t)' = (IF t = s THEN Queue(t) \ {ran[t] + 1} ELSE Queue(t))
      /\ \A q \in Queue(t)' : Piece(t, q)' = Piece(t, q)
      /\ Piece(s, ran[s] + 1) = h
  BY <1>1, Shrink
<1>6. \A q \in Queue(t)' : Is(t, q, v, j)' <=> Is(t, q, v, j)
  BY <1>5 DEF Is
<1>7. Queued(v, j)' <=> \E q \in Queue(t)' : Is(t, q, v, j)
  BY <1>3, <1>4, <1>6 DEF Queued
<1>8. CASE h.work = v /\ h.i = j
  <2>1. s = t /\ ~ (j >= Turn(v))
    <3>1. h.work # "flush"
      BY <1>1, <1>8, WorkFacts
    <3>2. On(h.work) = s /\ h.i < Turn(h.work)
      BY <3>1, HeadFacts
    <3>. QED BY <1>1, <1>4, <1>8, <3>2, WorkFacts DEF Batches
  <2>2. ran[s] + 1 \in Queue(s) /\ Is(s, ran[s] + 1, v, j)
    BY <1>1, <1>5, <1>8, QueueFacts DEF Is
  <2>3. ASSUME NEW q \in Queue(t)', Is(t, q, v, j) PROVE FALSE
    BY <1>1, <1>4, <1>5, <2>1, <2>2, <2>3 DEF Unique
  <2>. QED BY <1>3, <1>7, <1>8, <2>1, <2>3 DEF Pending
<1>9. CASE ~ (h.work = v /\ h.i = j)
  <2>1. ASSUME NEW q \in Queue(t), Is(t, q, v, j) PROVE q \in Queue(t)'
    BY <1>5, <1>9, <2>1 DEF Is
  <2>2. Queue(t)' \subseteq Queue(t)
    BY <1>5
  <2>3. Queued(v, j)' <=> Queued(v, j)
    BY <1>4, <1>7, <2>1, <2>2 DEF Queued
  <2>. QED BY <1>3, <1>9, <2>3 DEF Pending
<1>. QED BY <1>8, <1>9

(* A stream that ends a piece of work keeps the order of the others. *)
LEMMA DoneOrder ==
    ASSUME Order, NEW s \in Streams, Ready(s), Done(s), UNCHANGED batch
    PROVE  Order'
<1>1. Finish(s) /\ todo[s] # <<>> /\ StreamsOK /\ HostOK
  BY DEF Order, Ready, Done
<1>2. UNCHANGED <<trainer, gate, ready, event>>
  BY DEF Done
<1>3. \A t \in Streams : /\ Queue(t)' \subseteq Queue(t) /\ End(t)' = End(t)
                         /\ \A q \in Queue(t)' : Piece(t, q)' = Piece(t, q)
  BY <1>1, Shrink
<1>4. \A t \in Streams : \A q \in Queue(t)' : \A w, i : Is(t, q, w, i)' <=> Is(t, q, w, i)
  BY <1>3 DEF Is
<1>5. /\ \A w : On(w)' = On(w) /\ Turn(w)' = Turn(w)
      /\ \A w, i : Exists(w, i)' <=> Exists(w, i)
      /\ Gap' = Gap
  BY <1>2 DEF On, Turn, Exists, trainer, Gap
<1>6. \A v, w : \A j, i : First(v, j, w, i)' <=> First(v, j, w, i)
  BY <1>2, <1>5 DEF First, trainer
<1>7. StreamsOK' /\ HostOK'
  BY <1>1, <1>2, <1>5, Shrink DEF HostOK, trainer
<1>8. Contents'
  <2> SUFFICES ASSUME NEW t \in Streams, NEW q \in Queue(t)' PROVE ContentOf(t, Piece(t, q))'
    BY DEF Contents
  <2>1. ContentOf(t, Piece(t, q)) /\ Piece(t, q)' = Piece(t, q)
    BY <1>3 DEF Order, Contents
  <2>. QED BY <1>2, <1>5, <2>1 DEF ContentOf, trainer
<1>9. Unique'
  <2> SUFFICES ASSUME NEW w \in Works, NEW i \in Batches, NEW q \in Queue(On(w))', NEW r \in Queue(On(w))',
                      Is(On(w), q, w, i)', Is(On(w), r, w, i)'
               PROVE  q = r
    BY <1>5 DEF Unique
  <2>1. PICK t \in Streams : t = On(w)
    BY <1>1, WorkFacts
  <2>2. On(w)' = t
    BY <1>5, <2>1
  <2>3. q \in Queue(t)' /\ r \in Queue(t)' /\ Is(t, q, w, i)' /\ Is(t, r, w, i)'
    BY <2>1, <2>2
  <2>4. q \in Queue(t) /\ r \in Queue(t) /\ Is(t, q, w, i) /\ Is(t, r, w, i)
    BY <1>3, <1>4, <2>3
  <2>. QED BY <2>1, <2>4 DEF Order, Unique
<1>10. "main" \in Streams /\ "evict" \in Streams /\ side \in Streams
  BY <1>1 DEF Streams, HostOK
<1>11. FlushLast'
  BY <1>3, <1>10 DEF Order, FlushLast
<1>12. UnlockBefore'
  <2> SUFFICES ASSUME NEW r \in Queue("main")', Piece("main", r)'.work = "backward", pipeline',
                      r - 1 \in Queue("main")'
               PROVE  Is("main", r - 1, "unlock", Piece("main", r).i)'
    BY DEF UnlockBefore
  <2>1. r \in Queue("main") /\ Piece("main", r)' = Piece("main", r) /\ r - 1 \in Queue("main")
    BY <1>3, <1>10
  <2>2. Is("main", r - 1, "unlock", Piece("main", r).i) /\ pipeline
    BY <1>2, <2>1 DEF Order, UnlockBefore, trainer
  <2>3. Piece("main", r - 1)' = Piece("main", r - 1)
    BY <1>3, <1>10
  <2>. QED BY <2>1, <2>2, <2>3 DEF Is
<1>13. Waits'
  <2>1. side' = "prefetch" => \A r \in Queue("main")' : Piece("main", r)'.work = "backward" => r <= gate'
    BY <1>2, <1>3, <1>10 DEF Order, Waits, trainer
  <2>2. ASSUME NEW q \in Queue("evict")', NEW p, p = Piece("evict", q)
        PROVE  /\ p.work = "evict" => Covers(event[EvictEvent(p.i)], "evict", q)
               /\ p.work = "enqueue" => Covers(event["sp_idxq_insert"], "evict", q)
               /\ p.work = "sp_evict" => Covers(event["sp_evict"], "evict", q)
    BY <1>3, <1>10, <2>2 DEF Order, Waits
  <2>3. \A q \in Queue(side)' : Piece(side, q).work = "fill" => q <= ready[Piece(side, q).i]
    <3>1. \A q \in Queue(side) : Piece(side, q).work = "fill" => q <= ready[Piece(side, q).i]
      BY DEF Order, Waits
    <3>2. PICK t \in Streams : t = side
      BY <1>10
    <3>3. side' = t
      BY <1>2, <3>2 DEF trainer
    <3>4. Queue(t)' \subseteq Queue(t)
      BY <1>3
    <3>. QED BY <3>1, <3>2, <3>3, <3>4
  <2>4. \A q \in Queue("evict")' :
          /\ Piece("evict", q)'.work = "evict" =>
                Covers(event'[EvictEvent(Piece("evict", q)'.i)], "evict", q)
          /\ Piece("evict", q)'.work = "enqueue" => Covers(event'["sp_idxq_insert"], "evict", q)
          /\ Piece("evict", q)'.work = "sp_evict" => Covers(event'["sp_evict"], "evict", q)
    BY <1>2, <1>3, <1>10, <2>2
  <2>5. side' = side /\ ready' = ready
    BY <1>2 DEF trainer
  <2>6. \A q \in Queue(side)' : Piece(side, q)'.work = "fill" => q <= ready'[Piece(side, q)'.i]
    BY <1>3, <1>10, <2>3, <2>5
  <2>. QED BY <2>1, <2>4, <2>6 DEF Waits, Covers, EvictEvent
<1>14. AllOrdered'
  <2> SUFFICES ASSUME NEW v \in Works, NEW w \in Works, NEW j \in Batches, NEW i \in Batches,
                      First(v, j, w, i)
               PROVE  Ordered(v, j, w, i)'
    BY <1>6 DEF AllOrdered
  <2>1. Ordered(v, j, w, i) /\ On(v) \in Streams /\ On(w) \in Streams
    BY <1>1, WorkFacts DEF Order, AllOrdered
  <2>2. ASSUME Queued(v, j)', Exists(w, i) PROVE Pending(w, i)'
    <3>1. Pending(v, j)
      BY <2>2, DonePending DEF Pending
    <3>2. Queued(v, j)
      BY <1>3, <1>4, <1>5, <2>1, <2>2 DEF Queued
    <3>3. Pending(w, i)
      BY <2>1, <2>2, <3>2 DEF Ordered
    <3>4. PICK h : h = Head(todo[s])
      OBVIOUS
    <3>5. ~ (h.work = w /\ h.i = i)
      BY <1>1, <3>1, <3>4, HeadFacts, WorkFacts
    <3>. QED BY <3>3, <3>4, <3>5, DonePending
  <2>3. ASSUME NEW q \in Queue(On(v))', NEW r \in Queue(On(w))',
               Is(On(v), q, v, j)', Is(On(w), r, w, i)'
        PROVE  Before(On(v), q, On(w), r)'
    <3>1. PICK u \in Streams, t \in Streams : u = On(v) /\ t = On(w)
      BY <2>1
    <3>2. On(v)' = u /\ On(w)' = t
      BY <1>5, <3>1
    <3>3. q \in Queue(u)' /\ r \in Queue(t)' /\ Is(u, q, v, j)' /\ Is(t, r, w, i)'
      BY <2>3, <3>1, <3>2
    <3>4. q \in Queue(u) /\ r \in Queue(t) /\ Is(u, q, v, j) /\ Is(t, r, w, i)
      BY <1>3, <1>4, <3>3
    <3>5. Before(u, q, t, r) /\ Piece(t, r)' = Piece(t, r)
      BY <1>3, <2>1, <3>1, <3>3, <3>4 DEF Ordered
    <3>6. Before(u, q, t, r)'
      BY <3>5 DEF Before
    <3>. QED BY <3>1, <3>2, <3>6
  <2>. QED BY <1>5, <2>1, <2>2, <2>3 DEF Ordered
<1>. QED BY <1>7, <1>8, <1>9, <1>11, <1>12, <1>13, <1>14 DEF Order

-----------------------------------------------------------------------------
(* The host queues W[t] on each stream t: piece n of what it queues.       *)
Gives(W, w, i, n) == n \in 1..Len(W[On(w)]) /\ W[On(w)][n].work = w /\ W[On(w)][n].i = i

\* What the host must see to for the work to stay in order.
Orderly(W) ==
    /\ \A w \in Works : Turn(w) <= Turn(w)'
    /\ \A t \in Streams : \A n \in 1..Len(W[t]) : ContentOf(t, W[t][n])'
    /\ \A t \in Streams : \A q \in Queue(t) : ContentOf(t, Piece(t, q))'
    /\ \A v, w \in Works, j, i \in Batches : First(v, j, w, i) /\ j >= Turn(v)' => i >= Turn(w)'
    /\ \A w \in Works, i \in Batches :
          /\ i < Turn(w) => (Exists(w, i)' <=> Exists(w, i))
          /\ Turn(w) <= i /\ i < Turn(w)' /\ Exists(w, i)' => \E n \in Nat : Gives(W, w, i, n)
          /\ \A n : Gives(W, w, i, n) => Turn(w) <= i /\ i < Turn(w)'
          /\ \A m, n : Gives(W, w, i, m) /\ Gives(W, w, i, n) => m = n

\* New work comes after what is first of it.
AfterFirst(W) ==
    \A v, w \in Works, j, i \in Batches, n \in Nat : First(v, j, w, i) /\ Gives(W, w, i, n) =>
        /\ \A m \in Nat : Gives(W, v, j, m) =>
               IF On(v) = On(w) THEN m < n
               ELSE \E p \in W[On(w)][n].after : Covers(p, On(v), End(On(v)) + m)
        /\ \A q \in Queue(On(v)) : Is(On(v), q, v, j) /\ On(v) # On(w) =>
               \E p \in W[On(w)][n].after : Covers(p, On(v), q)

LEMMA Grows ==
    ASSUME Order, NEW W \in [Streams -> Seq(Pieces)],
           todo' = [t \in Streams |-> todo[t] \o W[t]], ran' = ran,
           UNCHANGED <<pipeline, side>>, HostOK', Orderly(W),
           AfterFirst(W)
    PROVE  /\ StreamsOK' /\ Contents' /\ Unique' /\ AllOrdered'
           /\ \A w \in Works, i \in Batches :
                 Pending(w, i)' <=> Pending(w, i) /\ ~ (Turn(w) <= i /\ i < Turn(w)' /\ ~ Exists(w, i)')
<1>1. StreamsOK /\ HostOK
  BY DEF Order
<1>2. \A t \in Streams :
         /\ Queue(t) \subseteq Queue(t)'
         /\ \A q \in Queue(t) : Piece(t, q)' = Piece(t, q)
         /\ End(t)' = End(t) + Len(W[t]) /\ Len(W[t]) \in Nat /\ End(t) \in Nat
         /\ \A n \in 1..Len(W[t]), q \in Nat :
               q = End(t) + n => q \in Queue(t)' /\ Piece(t, q)' = W[t][n]
         /\ \A q \in Queue(t)' : q \in Queue(t) \/ \E n \in 1..Len(W[t]) : q = End(t) + n
  <2>1. \A t \in Streams : End(t) \in Nat
    BY Zenon, <1>1, QueueFacts
  <2>. QED BY Zenon, <1>1, <2>1, Extend
<1>3. StreamsOK'
  BY Zenon, <1>1, Extend
<1>4. \A w \in Works : On(w) \in Streams /\ On(w)' = On(w) /\ Turn(w) \in Nat /\ Turn(w)' \in Nat
  <2>1. ASSUME NEW w \in Works PROVE On(w) \in Streams /\ Turn(w) \in Nat
    BY <1>1, WorkFacts
  <2>2. ASSUME NEW w PROVE On(w)' = On(w)
    BY DEF On
  <2>3. ASSUME NEW w \in Works PROVE Turn(w)' \in Nat
    BY DEF HostOK, Turn
  <2>. QED BY <2>1, <2>2, <2>3
<1>5. ASSUME NEW w \in Works, NEW i \in Batches, NEW q \in Nat,
             q \in Queue(On(w))', Is(On(w), q, w, i)'
      PROVE  \/ q \in Queue(On(w)) /\ Is(On(w), q, w, i)
             \/ \E n \in Nat : Gives(W, w, i, n) /\ q = End(On(w)) + n
  <2>1. PICK t \in Streams : t = On(w) /\ t = On(w)'
    BY <1>4
  <2>2. q \in Queue(t)' /\ Is(t, q, w, i)'
    BY <1>5, <2>1
  <2>3. CASE q \in Queue(t)
    BY <1>2, <2>1, <2>2, <2>3 DEF Is
  <2>4. CASE q \notin Queue(t)
    <3>1. PICK n \in 1..Len(W[t]) : q = End(t) + n
      BY <1>2, <2>2, <2>4
    <3>2. Piece(t, q)' = W[t][n] /\ n \in Nat
      BY <1>2, <3>1
    <3>3. W[t][n].work = w /\ W[t][n].i = i
      BY <2>2, <3>2 DEF Is
    <3>. QED BY <2>1, <3>1, <3>2, <3>3 DEF Gives
  <2>. QED BY <2>1, <2>3, <2>4
<1>6. ASSUME NEW w \in Works, NEW i \in Batches, NEW q \in Queue(On(w)), Is(On(w), q, w, i)
      PROVE  q \in Queue(On(w))' /\ Is(On(w), q, w, i)' /\ i < Turn(w)
  <2>1. PICK t \in Streams : t = On(w) /\ t = On(w)'
    BY <1>4
  <2>2. q \in Queue(t)' /\ Is(t, q, w, i)'
    BY <1>2, <1>6, <2>1 DEF Is
  <2>3. ContentOf(t, Piece(t, q)) /\ Piece(t, q).work = w /\ Piece(t, q).i = i /\ w # "flush"
    BY <1>1, <1>6, <2>1, WorkFacts DEF Order, Contents, Is
  <2>. QED BY <2>1, <2>2, <2>3 DEF ContentOf
<1>7. ASSUME NEW w \in Works, NEW i \in Batches, NEW n \in Nat, Gives(W, w, i, n), NEW q,
             q = End(On(w)) + n
      PROVE  /\ q \in Queue(On(w))' /\ q \in Nat /\ Is(On(w), q, w, i)'
             /\ Turn(w) <= i /\ i < Turn(w)' /\ Exists(w, i)'
  <2>1. PICK t \in Streams : t = On(w) /\ t = On(w)'
    BY <1>4
  <2>2. n \in 1..Len(W[t]) /\ W[t][n].work = w /\ W[t][n].i = i
    BY <1>7, <2>1 DEF Gives
  <2>3. q \in Nat /\ q \in Queue(t)' /\ Piece(t, q)' = W[t][n]
    BY <1>2, <1>7, <2>1, <2>2
  <2>4. Is(t, q, w, i)'
    BY <2>2, <2>3 DEF Is
  <2>5. ContentOf(t, W[t][n])' /\ w # "flush"
    BY <1>1, <2>2, WorkFacts DEF Orderly
  <2>. QED BY <1>7, <2>1, <2>2, <2>3, <2>4, <2>5 DEF ContentOf, Orderly
<1>8. Contents'
  <2> SUFFICES ASSUME NEW t \in Streams, NEW q \in Queue(t)' PROVE ContentOf(t, Piece(t, q))'
    BY DEF Contents
  <2>1. CASE q \in Queue(t)
    <3>1. ContentOf(t, Piece(t, q))'
      BY <2>1 DEF Orderly
    <3>. QED BY <3>1
  <2>2. CASE q \notin Queue(t)
    <3>1. PICK n \in 1..Len(W[t]) : q = End(t) + n
      BY <1>2, <2>2
    <3>2. q \in Nat /\ Piece(t, q)' = W[t][n]
      BY <1>2, <3>1
    <3>3. ContentOf(t, W[t][n])'
      BY DEF Orderly
    <3>. QED BY <3>2, <3>3 DEF ContentOf, Exists, On, Turn
  <2>. QED BY <2>1, <2>2
<1>9. Unique'
  <2> SUFFICES ASSUME NEW w \in Works, NEW i \in Batches, NEW q \in Queue(On(w))', NEW r \in Queue(On(w))',
                      Is(On(w), q, w, i)', Is(On(w), r, w, i)'
               PROVE  q = r
    BY DEF Unique
  <2>1. q \in Nat /\ r \in Nat
    <3>1. PICK t \in Streams : t = On(w) /\ t = On(w)'
      BY <1>4
    <3>2. \A z \in Queue(t)' : z \in Nat
      BY <1>2, QueueFacts, <1>1
    <3>. QED BY <3>1, <3>2
  <2>2. CASE \E n \in Nat : Gives(W, w, i, n)
    <3>1. ~ (i < Turn(w))
      BY <1>4, <2>2 DEF Orderly, Batches
    <3>2. PICK m \in Nat : Gives(W, w, i, m) /\ q = End(On(w)) + m
      BY <1>5, <1>6, <2>1, <3>1
    <3>3. PICK n \in Nat : Gives(W, w, i, n) /\ r = End(On(w)) + n
      BY <1>5, <1>6, <2>1, <3>1
    <3>. QED BY <3>2, <3>3 DEF Orderly
  <2>3. CASE ~ \E n \in Nat : Gives(W, w, i, n)
    BY <1>5, <2>1, <2>3 DEF Order, Unique
  <2>. QED BY <2>2, <2>3
<1>10. ASSUME NEW w \in Works, NEW i \in Batches
       PROVE  /\ i < Turn(w) => (Queued(w, i)' <=> Queued(w, i))
              /\ Turn(w) <= i /\ i < Turn(w)' => (Queued(w, i)' <=> Exists(w, i)')
  <2>1. PICK t \in Streams : t = On(w) /\ t = On(w)'
    BY <1>4
  <2>2. \A z \in Queue(t)' : z \in Nat
    BY <1>2, QueueFacts, <1>1
  <2>3. ASSUME Queued(w, i) PROVE Queued(w, i)'
    BY <1>6, <2>3 DEF Queued
  <2>4. ASSUME Queued(w, i)', i < Turn(w) PROVE Queued(w, i)
    <3>1. PICK q \in Queue(t)' : Is(t, q, w, i)'
      BY <2>1, <2>4 DEF Queued
    <3>2. ~ (Turn(w) <= i)
      BY <1>4, <2>4 DEF Batches
    <3>. QED BY Zenon, <1>5, <1>7, <2>1, <2>2, <3>1, <3>2 DEF Queued
  <2>5. ASSUME Queued(w, i)', Turn(w) <= i, i < Turn(w)' PROVE Exists(w, i)'
    <3>1. PICK q \in Queue(t)' : Is(t, q, w, i)'
      BY <2>1, <2>5 DEF Queued
    <3>2. ~ (i < Turn(w))
      BY <1>4, <2>5 DEF Batches
    <3>. QED BY Zenon, <1>5, <1>6, <1>7, <2>1, <2>2, <3>1, <3>2
  <2>6. ASSUME Exists(w, i)', Turn(w) <= i, i < Turn(w)' PROVE Queued(w, i)'
    <3>1. PICK n \in Nat : Gives(W, w, i, n)
      BY <2>6 DEF Orderly
    <3>2. PICK q : q = End(t) + n
      OBVIOUS
    <3>. QED BY <1>7, <2>1, <3>1, <3>2 DEF Queued
  <2>. QED BY <2>3, <2>4, <2>5, <2>6
<1>11. \A w \in Works, i \in Batches :
           Pending(w, i)' <=> Pending(w, i) /\ ~ (Turn(w) <= i /\ i < Turn(w)' /\ ~ Exists(w, i)')
  <2> SUFFICES ASSUME NEW w \in Works, NEW i \in Batches
      PROVE Pending(w, i)' <=> Pending(w, i) /\ ~ (Turn(w) <= i /\ i < Turn(w)' /\ ~ Exists(w, i)')
    OBVIOUS
  <2>1. PICK a \in Nat, b \in Nat : a = Turn(w) /\ b = Turn(w)' /\ a <= b
    BY <1>4 DEF Orderly
  <2>2. /\ i < a => (Queued(w, i)' <=> Queued(w, i))
        /\ a <= i /\ i < b => (Queued(w, i)' <=> Exists(w, i)')
    BY <1>10, <2>1
  <2>3. i \in Nat
    BY DEF Batches
  <2>4. (Pending(w, i) <=> i >= a \/ Queued(w, i)) /\ (Pending(w, i)' <=> i >= b \/ Queued(w, i)')
    BY <2>1 DEF Pending
  <2>. QED BY <2>1, <2>2, <2>3, <2>4
<1>12. AllOrdered'
  <2> SUFFICES ASSUME NEW v \in Works, NEW w \in Works, NEW j \in Batches, NEW i \in Batches,
                      First(v, j, w, i)
               PROVE  Ordered(v, j, w, i)'
    BY DEF AllOrdered, First, Gap
  <2>1. Ordered(v, j, w, i)
    BY DEF Order, AllOrdered
  <2>2. PICK u \in Streams, t \in Streams : u = On(v) /\ t = On(w) /\ u = On(v)' /\ t = On(w)'
    BY <1>4
  <2>3. \A z \in Streams : \A q \in Queue(z)' : q \in Nat
    BY <1>2, QueueFacts, <1>1
  <2>4. j >= Turn(v)' => i >= Turn(w)'
    BY DEF Orderly
  <2>5. i \in Nat /\ j \in Nat
    BY DEF Batches
  <2>6. ASSUME Queued(v, j)', Exists(w, i)' PROVE Pending(w, i)'
    <3>1. CASE i >= Turn(w)
      BY <1>11, <2>6, <3>1 DEF Pending
    <3>2. CASE ~ (i >= Turn(w))
      <4>1. i < Turn(w) /\ j < Turn(v)
        BY <1>4, <2>1, <2>5, <3>2 DEF Ordered
      <4>2. Queued(v, j) /\ Exists(w, i)
        BY <1>10, <2>6, <4>1 DEF Orderly
      <4>3. Pending(w, i)
        BY <2>1, <4>2 DEF Ordered
      <4>. QED BY <1>11, <2>6, <4>3
    <3>. QED BY <3>1, <3>2
  <2>7. ASSUME NEW q \in Queue(On(v))', NEW r \in Queue(On(w))',
               Is(On(v), q, v, j)', Is(On(w), r, w, i)'
        PROVE  Before(On(v), q, On(w), r)'
    <3>1. q \in Queue(u)' /\ r \in Queue(t)' /\ Is(u, q, v, j)' /\ Is(t, r, w, i)' /\ q \in Nat /\ r \in Nat
      BY <2>2, <2>3, <2>7
    <3>2. CASE r \in Queue(t) /\ Is(t, r, w, i)
      <4>1. i < Turn(w)
        BY <1>6, <2>2, <3>2
      <4>2. j < Turn(v)
        BY <1>4, <2>1, <2>5, <4>1 DEF Ordered
      <4>3. ~ (Turn(v) <= j)
        BY <1>4, <2>5, <4>2
      <4>4. q \in Queue(u) /\ Is(u, q, v, j)
        BY Zenon, <1>5, <1>7, <2>2, <3>1, <4>3
      <4>5. Before(u, q, t, r)
        BY <2>1, <2>2, <3>2, <4>4 DEF Ordered
      <4>6. Before(u, q, t, r)'
        BY <1>2, <3>2, <4>5 DEF Before
      <4>. QED BY <2>2, <4>6
    <3>3. CASE \E n \in Nat : Gives(W, w, i, n) /\ r = End(On(w)) + n
      <4>1. PICK n \in Nat : Gives(W, w, i, n) /\ r = End(On(w)) + n
        BY <3>3
      <4>2. \/ q \in Queue(On(v)) /\ Is(On(v), q, v, j)
            \/ \E m \in Nat : Gives(W, v, j, m) /\ q = End(On(v)) + m
        BY Zenon, <1>5, <2>2, <3>1
      <4>3. Piece(t, r)' = W[t][n]
        BY Zenon, <1>2, <2>2, <3>1, <4>1 DEF Gives
      <4>4. CASE u = t
        <5>1. End(t) \in Nat /\ \A z \in Queue(t) : z \in Nat /\ z <= End(t)
          BY <1>1, QueueFacts
        <5>2. n >= 1
          BY <4>1 DEF Gives
        <5>3. ASSUME NEW m \in Nat, Gives(W, v, j, m) PROVE m < n
          BY Zenon, <2>2, <4>1, <4>4, <5>3 DEF AfterFirst
        <5>4. q < r
          <6>1. n \in Nat /\ r = End(t) + n
            BY <2>2, <4>1
          <6>2. CASE q \in Queue(On(v)) /\ Is(On(v), q, v, j)
            BY <2>2, <4>4, <5>1, <5>2, <6>1, <6>2
          <6>3. CASE \E m \in Nat : Gives(W, v, j, m) /\ q = End(On(v)) + m
            <7>1. PICK m \in Nat : m < n /\ q = End(t) + m
              BY <2>2, <4>4, <5>3, <6>3
            <7>. QED BY <5>1, <6>1, <7>1
          <6>. QED BY <4>2, <6>2, <6>3
        <5>. QED BY <2>2, <4>4, <5>4 DEF Before
      <4>5. CASE u # t
        <5>1. \E p \in W[t][n].after : Covers(p, u, q)
          <6>1. CASE q \in Queue(On(v)) /\ Is(On(v), q, v, j)
            <7>1. \E p \in W[On(w)][n].after : Covers(p, On(v), q)
              BY Zenon, <2>2, <4>1, <4>5, <6>1 DEF AfterFirst
            <7>. QED BY Zenon, <2>2, <7>1
          <6>2. CASE \E m \in Nat : Gives(W, v, j, m) /\ q = End(On(v)) + m
            <7>1. PICK m \in Nat : Gives(W, v, j, m) /\ q = End(u) + m
              BY Zenon, <2>2, <6>2
            <7>2. \E p \in W[On(w)][n].after : Covers(p, On(v), End(On(v)) + m)
              BY Zenon, <2>2, <4>1, <4>5, <7>1 DEF AfterFirst
            <7>. QED BY <2>2, <7>1, <7>2
          <6>. QED BY <4>2, <6>1, <6>2
        <5>2. \E p \in Piece(t, r)'.after : Covers(p, u, q)'
          BY <4>3, <5>1 DEF Covers
        <5>3. Before(u, q, t, r)'
          BY <4>5, <5>2 DEF Before
        <5>. QED BY <2>2, <5>3
      <4>. QED BY <4>4, <4>5
    <3>4. \/ r \in Queue(On(w)) /\ Is(On(w), r, w, i)
          \/ \E n \in Nat : Gives(W, w, i, n) /\ r = End(On(w)) + n
      BY <1>5, <2>7, <3>1
    <3>. QED BY <2>2, <3>2, <3>3, <3>4
  <2>. QED BY <2>4, <2>6, <2>7 DEF Ordered
<1>. QED BY <1>3, <1>8, <1>9, <1>11, <1>12

LEMMA OldOrNew ==
    ASSUME StreamsOK, NEW W \in [Streams -> Seq(Pieces)],
           todo' = [t \in Streams |-> todo[t] \o W[t]], ran' = ran,
           NEW t \in Streams, NEW q \in Queue(t)'
    PROVE  /\ q \in Nat /\ End(t) \in Nat
           /\ \/ q \in Queue(t) /\ Piece(t, q)' = Piece(t, q) /\ q <= End(t)
              \/ \E n \in Nat : /\ n \in 1..Len(W[t]) /\ q = End(t) + n /\ Piece(t, q)' = W[t][n]
<1>1. End(t) \in Nat /\ \A z \in Queue(t) : z \in Nat /\ z <= End(t)
  BY QueueFacts
<1>2. CASE q \in Queue(t)
  BY Zenon, <1>1, <1>2, Extend
<1>3. CASE q \notin Queue(t)
  <2>1. PICK n \in 1..Len(W[t]) : q = End(t) + n
    BY Zenon, <1>3, Extend
  <2>2. Len(W[t]) \in Nat /\ n \in Nat
    OBVIOUS
  <2>3. \A z \in Nat : z = End(t) + n => Piece(t, z)' = W[t][n]
    BY Zenon, Extend
  <2>4. q \in Nat
    BY <1>1, <2>1, <2>2
  <2>. QED BY <1>1, <2>1, <2>2, <2>3, <2>4
<1>. QED BY <1>2, <1>3

(* New work on main that is no backward, and what UnlockBefore says of it. *)
LEMMA KeepsUnlock ==
    ASSUME Order, NEW W \in [Streams -> Seq(Pieces)],
           todo' = [t \in Streams |-> todo[t] \o W[t]], ran' = ran, UNCHANGED pipeline,
           \A n \in 1..Len(W["main"]) : W["main"][n].work # "backward"
    PROVE  UnlockBefore' /\ \A r \in Queue("main")' :
                               Piece("main", r)'.work = "backward" =>
                                  r \in Queue("main") /\ Piece("main", r)' = Piece("main", r)
<1>0. StreamsOK /\ "main" \in Streams
  BY DEF Order, Streams
<1>1. ASSUME NEW r \in Queue("main")', Piece("main", r)'.work = "backward"
      PROVE  r \in Queue("main") /\ Piece("main", r)' = Piece("main", r)
  BY Zenon, <1>0, <1>1, OldOrNew
<1>2. UnlockBefore'
  <2> SUFFICES ASSUME NEW r \in Queue("main")', Piece("main", r)'.work = "backward", pipeline',
                      r - 1 \in Queue("main")'
               PROVE  Is("main", r - 1, "unlock", Piece("main", r).i)'
    BY DEF UnlockBefore
  <2>1. r \in Queue("main") /\ Piece("main", r)' = Piece("main", r)
    BY <1>1
  <2>2. PICK z : z = r - 1
    OBVIOUS
  <2>3. z \in Queue("main") /\ Piece("main", z)' = Piece("main", z)
    <3>1. r \in Nat /\ z = r - 1 /\ r <= End("main") /\ End("main") \in Nat
      BY <1>0, <2>1, <2>2, QueueFacts
    <3>2. z \in Queue("main")'
      BY <2>2
    <3>3. CASE z \in Queue("main") /\ Piece("main", z)' = Piece("main", z)
      BY <3>3
    <3>4. CASE \E n \in Nat : n \in 1..Len(W["main"]) /\ z = End("main") + n
      BY <3>1, <3>4
    <3>. QED BY Zenon, <1>0, <3>2, <3>3, <3>4, OldOrNew
  <2>4. Is("main", r - 1, "unlock", Piece("main", r).i)
    BY <2>1, <2>2, <2>3 DEF Order, UnlockBefore
  <2>. QED BY <2>1, <2>2, <2>3, <2>4 DEF Is
<1>. QED BY <1>1, <1>2

-----------------------------------------------------------------------------
(* The work of a prefetch: piece Spot(w, n) of what its stream is given is *)
(* w, n of the works before it missing.                                    *)
Spot(w, lookup) == IF w \in {"get", "fill"} /\ ~ lookup THEN Rank(w) - 1 ELSE Rank(w)

LEMMA Tuples ==
    ASSUME NEW S, NEW x \in S, NEW y \in S, NEW z \in S
    PROVE  /\ <<>> \in Seq(S) /\ Len(<<>>) = 0
           /\ <<x>> \in Seq(S) /\ Len(<<x>>) = 1 /\ <<x>>[1] = x
           /\ <<x, y>> \in Seq(S) /\ Len(<<x, y>>) = 2 /\ <<x, y>>[1] = x /\ <<x, y>>[2] = y
           /\ <<x, y, z>> \in Seq(S) /\ Len(<<x, y, z>>) = 3
           /\ <<x, y, z>>[1] = x /\ <<x, y, z>>[2] = y /\ <<x, y, z>>[3] = z
<1>1. <<>> \in Seq(S) /\ Len(<<>>) = 0
  OBVIOUS
<1>2. <<x>> \in Seq(S) /\ Len(<<x>>) = 1 /\ <<x>>[1] = x
  OBVIOUS
<1>3. <<x, y>> \in Seq(S) /\ Len(<<x, y>>) = 2 /\ <<x, y>>[1] = x /\ <<x, y>>[2] = y
  OBVIOUS
<1>4. <<x, y, z>> \in Seq(S) /\ Len(<<x, y, z>>) = 3
  OBVIOUS
<1>5. <<x, y, z>>[1] = x /\ <<x, y, z>>[2] = y /\ <<x, y, z>>[3] = z
  OBVIOUS
<1>. QED BY <1>1, <1>2, <1>3, <1>4, <1>5

\* The pieces a prefetch queues on its own stream and on the eviction stream.
SideWork(W, i, lookup) ==
    /\ W \in Seq(Pieces) /\ Len(W) = IF lookup THEN 6 ELSE 5
    /\ \A n \in 1..Len(W) : /\ W[n].work \in SideWorks /\ W[n].i = i /\ n = Spot(W[n].work, lookup)
                            /\ W[n].work = "lookup" => lookup
    /\ \A w \in SideWorks : (w = "lookup" => lookup) =>
           Spot(w, lookup) \in 1..Len(W) /\ W[Spot(w, lookup)].work = w

SideOrder(W, P, i, lookup) ==
    /\ W \in Seq(Pieces) /\ Len(W) = (IF lookup THEN 6 ELSE 5)
    /\ P \in [SideWorks -> Pieces] /\ \A w \in SideWorks : P[w].work = w /\ P[w].i = i
    /\ W[1] = P["populate"] /\ W[2] = P["compact"] /\ W[3] = P["select"]
    /\ lookup => W[4] = P["lookup"] /\ W[5] = P["get"] /\ W[6] = P["fill"]
    /\ ~ lookup => W[4] = P["get"] /\ W[5] = P["fill"]

LEMMA SideWorkFacts ==
    ASSUME NEW lookup \in BOOLEAN, NEW i \in Nat, NEW W, NEW P, SideOrder(W, P, i, lookup)
    PROVE  /\ SideWork(W, i, lookup)
           /\ \A w \in SideWorks : (w = "lookup" => lookup) => W[Spot(w, lookup)] = P[w]
<1>1. P \in [SideWorks -> Pieces] /\ \A w \in SideWorks : P[w].work = w /\ P[w].i = i
  BY DEF SideOrder
<1>2. W \in Seq(Pieces) /\ Len(W) = (IF lookup THEN 6 ELSE 5)
  BY DEF SideOrder
<1>0. PICK p \in Pieces, c \in Pieces, s \in Pieces, l \in Pieces, g \in Pieces, f \in Pieces :
          /\ p = P["populate"] /\ c = P["compact"] /\ s = P["select"] /\ l = P["lookup"]
          /\ g = P["get"] /\ f = P["fill"]
          /\ p.work = "populate" /\ c.work = "compact" /\ s.work = "select" /\ l.work = "lookup"
          /\ g.work = "get" /\ f.work = "fill"
          /\ p.i = i /\ c.i = i /\ s.i = i /\ l.i = i /\ g.i = i /\ f.i = i
  BY <1>1 DEF SideWorks
<1>3. W[1] = p /\ W[2] = c /\ W[3] = s
  BY Zenon, <1>0 DEF SideOrder
<1>4. lookup => W[4] = l
  BY Zenon, <1>0 DEF SideOrder
<1>5. /\ lookup => W[5] = g /\ W[6] = f /\ Len(W) = 6
      /\ ~ lookup => W[4] = g /\ W[5] = f /\ Len(W) = 5
  BY Zenon, <1>0 DEF SideOrder
<1>6. /\ \A w \in SideWorks : w = "populate" \/ w = "compact" \/ w = "select" \/ w = "lookup"
                              \/ w = "get" \/ w = "fill"
      /\ Spot("populate", lookup) = 1 /\ Spot("compact", lookup) = 2 /\ Spot("select", lookup) = 3
      /\ lookup => Spot("lookup", lookup) = 4
      /\ Spot("get", lookup) = (IF lookup THEN 5 ELSE 4)
      /\ Spot("fill", lookup) = (IF lookup THEN 6 ELSE 5)
  BY DEF SideWorks, Spot, Rank
<1>7. SideWork(W, i, lookup)
  <2>1. CASE lookup
    <3>1. \A n \in 1..Len(W) : n = 1 \/ n = 2 \/ n = 3 \/ n = 4 \/ n = 5 \/ n = 6
      BY <1>2, <1>5, <2>1
    <3>2. ASSUME NEW n \in 1..Len(W)
          PROVE  W[n].work \in SideWorks /\ W[n].i = i /\ n = Spot(W[n].work, lookup)
      <4>1. /\ W[1].work = "populate" /\ W[2].work = "compact" /\ W[3].work = "select"
            /\ W[4].work = "lookup" /\ W[5].work = "get" /\ W[6].work = "fill"
            /\ W[1].i = i /\ W[2].i = i /\ W[3].i = i /\ W[4].i = i /\ W[5].i = i /\ W[6].i = i
        BY Zenon, <1>0, <1>3, <1>4, <1>5, <2>1
      <4>2. /\ "populate" \in SideWorks /\ "compact" \in SideWorks /\ "select" \in SideWorks
            /\ "lookup" \in SideWorks /\ "get" \in SideWorks /\ "fill" \in SideWorks
        BY DEF SideWorks
      <4>3. CASE n = 1
        BY Zenon, <1>6, <4>1, <4>2, <4>3
      <4>4. CASE n = 2
        BY Zenon, <1>6, <4>1, <4>2, <4>4
      <4>5. CASE n = 3
        BY Zenon, <1>6, <4>1, <4>2, <4>5
      <4>6. CASE n = 4
        BY Zenon, <1>6, <2>1, <4>1, <4>2, <4>6
      <4>7. CASE n = 5
        BY Zenon, <1>6, <2>1, <4>1, <4>2, <4>7
      <4>8. CASE n = 6
        BY Zenon, <1>6, <2>1, <4>1, <4>2, <4>8
      <4>. QED BY Zenon, <3>1, <4>3, <4>4, <4>5, <4>6, <4>7, <4>8
    <3>3. ASSUME NEW w \in SideWorks
          PROVE  Spot(w, lookup) \in 1..Len(W) /\ W[Spot(w, lookup)].work = w
      <4>1. /\ 1 \in 1..Len(W) /\ 2 \in 1..Len(W) /\ 3 \in 1..Len(W) /\ 4 \in 1..Len(W)
            /\ 5 \in 1..Len(W) /\ 6 \in 1..Len(W)
        BY <1>2, <1>5, <2>1
      <4>2. /\ w = "populate" => Spot(w, lookup) = 1 /\ W[1].work = w
            /\ w = "compact" => Spot(w, lookup) = 2 /\ W[2].work = w
            /\ w = "select" => Spot(w, lookup) = 3 /\ W[3].work = w
            /\ w = "lookup" => Spot(w, lookup) = 4 /\ W[4].work = w
            /\ w = "get" => Spot(w, lookup) = 5 /\ W[5].work = w
            /\ w = "fill" => Spot(w, lookup) = 6 /\ W[6].work = w
        BY Zenon, <1>0, <1>3, <1>4, <1>5, <1>6, <2>1
      <4>. QED BY Zenon, <1>6, <4>1, <4>2
    <3>. QED BY <1>2, <1>5, <2>1, <3>2, <3>3 DEF SideWork
  <2>2. CASE ~ lookup
    <3>1. \A n \in 1..Len(W) : n = 1 \/ n = 2 \/ n = 3 \/ n = 4 \/ n = 5
      BY <1>2, <1>5, <2>2
    <3>2. ASSUME NEW n \in 1..Len(W)
          PROVE  /\ W[n].work \in SideWorks /\ W[n].i = i /\ n = Spot(W[n].work, lookup)
                 /\ W[n].work # "lookup"
      <4>1. /\ W[1].work = "populate" /\ W[2].work = "compact" /\ W[3].work = "select"
            /\ W[4].work = "get" /\ W[5].work = "fill"
            /\ W[1].i = i /\ W[2].i = i /\ W[3].i = i /\ W[4].i = i /\ W[5].i = i
        BY Zenon, <1>0, <1>3, <1>5, <2>2
      <4>. QED BY <1>6, <2>2, <3>1, <4>1 DEF SideWorks
    <3>3. ASSUME NEW w \in SideWorks, w # "lookup"
          PROVE  Spot(w, lookup) \in 1..Len(W) /\ W[Spot(w, lookup)].work = w
      <4>1. /\ 1 \in 1..Len(W) /\ 2 \in 1..Len(W) /\ 3 \in 1..Len(W) /\ 4 \in 1..Len(W)
            /\ 5 \in 1..Len(W)
        BY <1>2, <1>5, <2>2
      <4>2. /\ w = "populate" => Spot(w, lookup) = 1 /\ W[1].work = w
            /\ w = "compact" => Spot(w, lookup) = 2 /\ W[2].work = w
            /\ w = "select" => Spot(w, lookup) = 3 /\ W[3].work = w
            /\ w = "get" => Spot(w, lookup) = 4 /\ W[4].work = w
            /\ w = "fill" => Spot(w, lookup) = 5 /\ W[5].work = w
        BY Zenon, <1>0, <1>3, <1>5, <1>6, <2>2
      <4>. QED BY Zenon, <1>6, <3>3, <4>1, <4>2
    <3>. QED BY <1>2, <1>5, <2>2, <3>2, <3>3 DEF SideWork
  <2>. QED BY <2>1, <2>2
<1>8. ASSUME NEW w \in SideWorks, w = "lookup" => lookup PROVE W[Spot(w, lookup)] = P[w]
  <2>1. /\ w = "populate" => W[Spot(w, lookup)] = p
        /\ w = "compact" => W[Spot(w, lookup)] = c
        /\ w = "select" => W[Spot(w, lookup)] = s
        /\ w = "lookup" => W[Spot(w, lookup)] = l
        /\ w = "get" => W[Spot(w, lookup)] = g
        /\ w = "fill" => W[Spot(w, lookup)] = f
    BY Zenon, <1>3, <1>4, <1>5, <1>6, <1>8
  <2>2. CASE w = "populate"
    BY Zenon, <1>0, <2>1, <2>2
  <2>3. CASE w = "compact"
    BY Zenon, <1>0, <2>1, <2>3
  <2>4. CASE w = "select"
    BY Zenon, <1>0, <2>1, <2>4
  <2>5. CASE w = "lookup"
    BY Zenon, <1>0, <2>1, <2>5
  <2>6. CASE w = "get"
    BY Zenon, <1>0, <2>1, <2>6
  <2>7. CASE w = "fill"
    BY Zenon, <1>0, <2>1, <2>7
  <2>. QED BY Zenon, <1>6, <2>2, <2>3, <2>4, <2>5, <2>6, <2>7
<1>. QED BY <1>7, <1>8

EvictSpot(w, e) == IF e THEN Rank(w) ELSE Rank(w) - 1

EvictWork(W, i, e, q) ==
    /\ W \in Seq(Pieces) /\ Len(W) = (IF e THEN 1 ELSE 0) + 1 + (IF q THEN 1 ELSE 0)
    /\ \A n \in 1..Len(W) : /\ W[n].work \in EvictWorks /\ W[n].i = i /\ n = EvictSpot(W[n].work, e)
                            /\ W[n].work = "evict" => e
                            /\ W[n].work = "enqueue" => q
    /\ \A w \in EvictWorks : (w = "evict" => e) /\ (w = "enqueue" => q) =>
           EvictSpot(w, e) \in 1..Len(W) /\ W[EvictSpot(w, e)].work = w

LEMMA OneIf ==
    ASSUME NEW c \in BOOLEAN, NEW p \in Pieces, NEW u, u = IF c THEN <<p>> ELSE <<>>
    PROVE  u \in Seq(Pieces) /\ Len(u) = (IF c THEN 1 ELSE 0) /\ (c => u[1] = p)
<1>1. CASE c
  <2>1. u = <<p>>
    BY <1>1
  <2>2. <<p>> \in Seq(Pieces) /\ Len(<<p>>) = 1 /\ <<p>>[1] = p
    BY Tuples
  <2>. QED BY <1>1, <2>1, <2>2
<1>2. CASE ~ c
  BY <1>2
<1>. QED BY <1>1, <1>2

EvictOrder(W, P, i, e, k) ==
    /\ W \in Seq(Pieces) /\ Len(W) = (IF e THEN 1 ELSE 0) + 1 + (IF k THEN 1 ELSE 0)
    /\ P \in [EvictWorks -> Pieces] /\ \A w \in EvictWorks : P[w].work = w /\ P[w].i = i
    /\ e => W[1] = P["evict"] /\ W[2] = P["spill"] /\ (k => W[3] = P["enqueue"])
    /\ ~ e => W[1] = P["spill"] /\ (k => W[2] = P["enqueue"])

LEMMA EvictWorkFacts ==
    ASSUME NEW e \in BOOLEAN, NEW k \in BOOLEAN, NEW i \in Nat, NEW W, NEW P, EvictOrder(W, P, i, e, k)
    PROVE  /\ EvictWork(W, i, e, k)
           /\ \A w \in EvictWorks : (w = "evict" => e) /\ (w = "enqueue" => k) =>
                  W[EvictSpot(w, e)] = P[w]
<1>0. P \in [EvictWorks -> Pieces] /\ \A w \in EvictWorks : P[w].work = w /\ P[w].i = i
  BY DEF EvictOrder
<1>2. W \in Seq(Pieces) /\ Len(W) = (IF e THEN 1 ELSE 0) + 1 + (IF k THEN 1 ELSE 0)
  BY DEF EvictOrder
<1>1. PICK v \in Pieces, s \in Pieces, q \in Pieces :
          /\ v = P["evict"] /\ s = P["spill"] /\ q = P["enqueue"]
          /\ v.work = "evict" /\ s.work = "spill" /\ q.work = "enqueue"
          /\ v.i = i /\ s.i = i /\ q.i = i
  BY <1>0 DEF EvictWorks
<1>3. /\ e => W[1] = v /\ W[2] = s /\ (k => W[3] = q)
      /\ ~ e => W[1] = s /\ (k => W[2] = q)
  BY Zenon, <1>1 DEF EvictOrder
<1>4. /\ \A w \in EvictWorks : w = "evict" \/ w = "spill" \/ w = "enqueue"
      /\ e => EvictSpot("evict", e) = 1
      /\ EvictSpot("spill", e) = (IF e THEN 2 ELSE 1)
      /\ EvictSpot("enqueue", e) = (IF e THEN 3 ELSE 2)
  BY DEF EvictWorks, EvictSpot, Rank
<1>5. \A n \in 1..Len(W) : n = 1 \/ (n = 2 /\ (e \/ k)) \/ (n = 3 /\ e /\ k)
  BY <1>2
<1>6. ASSUME NEW n \in 1..Len(W)
      PROVE  /\ W[n].work \in EvictWorks /\ W[n].i = i /\ n = EvictSpot(W[n].work, e)
             /\ W[n].work = "evict" => e
             /\ W[n].work = "enqueue" => k
  BY <1>1, <1>3, <1>4, <1>5 DEF EvictWorks
<1>7. ASSUME NEW w \in EvictWorks, w = "evict" => e, w = "enqueue" => k
      PROVE  EvictSpot(w, e) \in 1..Len(W) /\ W[EvictSpot(w, e)].work = w
  BY <1>2, <1>1, <1>3, <1>4, <1>7
<1>8. ASSUME NEW w \in EvictWorks, w = "evict" => e, w = "enqueue" => k
      PROVE  W[EvictSpot(w, e)] = P[w]
  <2>1. CASE w = "evict"
    <3>1. e /\ EvictSpot(w, e) = 1
      BY Zenon, <1>4, <1>8, <2>1
    <3>. QED BY Zenon, <1>1, <1>3, <2>1, <3>1
  <2>2. CASE w = "spill"
    BY Zenon, <1>1, <1>3, <1>4, <2>2
  <2>3. CASE w = "enqueue"
    <3>1. k /\ EvictSpot(w, e) = (IF e THEN 3 ELSE 2)
      BY Zenon, <1>4, <1>8, <2>3
    <3>. QED BY Zenon, <1>1, <1>3, <2>3, <3>1
  <2>. QED BY Zenon, <1>4, <2>1, <2>2, <2>3
<1>9. EvictWork(W, i, e, k)
  BY <1>2, <1>3, <1>6, <1>7 DEF EvictWork
<1>. QED BY <1>8, <1>9

-----------------------------------------------------------------------------
(* A prefetch. *)
PrefetchWorks == SideWorks \cup {"copy"} \cup EvictWorks

LEMMA PrefetchHost ==
    ASSUME StreamsOK, HostOK, NEW B \in SUBSET Idx, Prefetch(B)
    PROVE  /\ nextP \in Batches /\ nextP \in Nat /\ nextP' = nextP + 1
           /\ batch' = [batch EXCEPT ![nextP] = B] /\ HostOK'
           /\ UNCHANGED <<pipeline, side, nextF, nextB, gate>> /\ host # "flush" /\ host' # "flush"
           /\ pipeline /\ pads # <<>> => nextP > 1 /\ Head(pads) = nextP - 1
           /\ pipeline /\ pads = <<>> => nextP = 1
           /\ pipeline => B # {}
           /\ nextP < nextB + Gap
<1>1. /\ host # "flush" /\ nextP \in Nat /\ nextP <= MaxBatches /\ nextP' = nextP + 1
      /\ UNCHANGED <<pipeline, side, nextF, nextB, lastFlush, gate, ran>> /\ host' = "train"
      /\ batch' = [batch EXCEPT ![nextP] = B]
      /\ IF pipeline THEN B # {} /\ (nextP = 1 \/ nextP = nextB + 1) ELSE nextP = nextF /\ nextP = nextB
  BY Zenon DEF Prefetch, HostOK
<1>2. 1 <= nextP /\ nextP \in Batches
  BY <1>1 DEF HostOK, Batches
<1>3. PICK lk \in BOOLEAN : lk = (pipeline /\ pads # <<>>)
  OBVIOUS
<1>4. /\ lk => nextP > 1 /\ pads = <<nextP - 1>>
      /\ pipeline /\ ~ lk => nextP = 1
  <2>1. <<nextP - 1>> # <<>>
    OBVIOUS
  <2>2. 1 <= nextP => (~ (nextP > 1) <=> nextP = 1)
    BY <1>1
  <2>. QED BY <1>2, <1>3, <2>1, <2>2 DEF HostOK
<1>5. Head(<<nextP - 1>>) = nextP - 1 /\ Tail(<<nextP - 1>>) = <<>>
  BY <1>1
<1>6. nextP' < nextB + Gap + 1
  <2>1. /\ pipeline => nextP = 1 \/ nextP = nextB + 1
        /\ ~ pipeline => nextP = nextB
        /\ nextB \in Nat /\ 1 <= nextB /\ pipeline \in BOOLEAN
    BY <1>1 DEF HostOK
  <2>. QED BY <1>1, <2>1 DEF Gap
<1>7. HostOK'
  <2>1. /\ pipeline' \in BOOLEAN /\ side' \in {"main", "prefetch"} /\ (side' = "prefetch" => pipeline')
        /\ nextP' \in Nat /\ nextF' \in Nat /\ nextB' \in Nat /\ lastFlush' \in Int
        /\ host' \in {"train", "flush", "flushed"} /\ lastFlush' < nextF' /\ gate' \in Nat
    BY <1>1 DEF HostOK
  <2>2. /\ 1 <= nextB' /\ nextB' <= nextF' /\ nextF' <= nextB' + 1 /\ nextF' <= nextP'
        /\ nextP' <= MaxBatches + 1
    BY <1>1, SSDConstants DEF HostOK
  <2>3. nextP' <= nextB' + Gap'
    <3>1. Gap' = Gap /\ Gap \in Nat
      BY <1>1 DEF Gap
    <3>. QED BY <1>1, <1>6, <3>1 DEF HostOK
  <2>4. pipeline' /\ 1 < nextB' /\ nextB' <= MaxBatches => nextB' < nextP'
    BY <1>1 DEF HostOK
  <2>5. pads' = IF pipeline' /\ nextP' > 1 THEN <<nextP' - 1>> ELSE <<>>
    <3>1. pads' = IF pipeline THEN Append(IF lk THEN Tail(pads) ELSE pads, nextP) ELSE pads
      BY Zenon, <1>3 DEF Prefetch
    <3>2. Append(<<>>, nextP) = <<nextP>>
      OBVIOUS
    <3>3. nextP' > 1 /\ nextP' - 1 = nextP
      BY <1>1, <1>2
    <3>4. CASE pipeline
      <4>1. (IF lk THEN Tail(pads) ELSE pads) = <<>>
        BY Zenon, <1>3, <1>4, <1>5, <3>4
      <4>2. pads' = Append(<<>>, nextP)
        BY Zenon, <3>1, <3>4, <4>1
      <4>. QED BY Zenon, <1>1, <3>2, <3>3, <3>4, <4>2
    <3>5. CASE ~ pipeline
      <4>1. pads' = pads
        BY Zenon, <3>1, <3>5
      <4>. QED BY Zenon, <1>1, <3>5, <4>1 DEF HostOK
    <3>. QED BY <3>4, <3>5
  <2>6. moves' = IF pipeline' /\ nextP' = nextB' + 2 THEN <<nextB' + 1>> ELSE <<>>
    <3>1. moves' = IF lk THEN Append(moves, nextP) ELSE moves
      BY Zenon, <1>3 DEF Prefetch
    <3>2. moves = IF pipeline /\ nextP = nextB + 2 THEN <<nextB + 1>> ELSE <<>>
      BY DEF HostOK
    <3>3. Append(<<>>, nextB + 1) = <<nextB + 1>>
      OBVIOUS
    <3>4. CASE lk
      <4>1. pipeline /\ nextP = nextB + 1 /\ nextP # nextB + 2 /\ nextP' = nextB + 2
        BY <1>1, <1>3, <1>4, <3>4 DEF HostOK
      <4>2. moves' = Append(<<>>, nextB + 1)
        BY Zenon, <3>1, <3>2, <3>4, <4>1
      <4>. QED BY Zenon, <1>1, <3>3, <4>1, <4>2
    <3>5. CASE ~ lk
      <4>1. ~ (pipeline /\ nextP = nextB + 2) /\ ~ (pipeline /\ nextP' = nextB + 2)
        BY <1>1, <1>4, <3>5 DEF HostOK
      <4>. QED BY Zenon, <1>1, <3>1, <3>2, <3>5, <4>1
    <3>. QED BY <3>4, <3>5
  <2>7. ready' \in [Batches -> Nat] /\ event' \in [Events -> Streams \X Nat]
    <3>1. side \in Streams /\ "copy" \in Streams /\ "evict" \in Streams
      BY DEF Streams, HostOK
    <3>2. PICK p \in Nat, c \in Nat, v \in Nat : p = End(side) /\ c = End("copy") /\ v = End("evict")
      BY <3>1, QueueFacts
    <3>3. PICK f \in Nat : f = p + 5 + (IF lk THEN 1 ELSE 0)
      OBVIOUS
    <3>4. PICK e \in Nat : e = v + (IF B = {} THEN 0 ELSE 1)
      OBVIOUS
    <3>5. f - 1 \in Nat /\ p + 4 \in Nat /\ e + 2 \in Nat /\ c + 1 \in Nat
      BY <3>3
    <3>6. PICK looked : looked = (IF lk THEN <<side, p + 4>> ELSE event["sp_idxq_lookup"])
      OBVIOUS
    <3>7. /\ ready' = [ready EXCEPT ![nextP] = f]
          /\ event' = [event EXCEPT
                 !["get_inputs_cpy"] = <<"copy", c + 1>>,
                 !["get"] = <<side, f - 1>>,
                 !["sp_idxq_lookup"] = looked,
                 ![EvictEvent(nextP)] = IF B = {} THEN @ ELSE <<"evict", e>>,
                 !["sp_idxq_insert"] = IF pipeline THEN <<"evict", e + 2>> ELSE @]
      BY Zenon, <1>3, <3>2, <3>3, <3>4, <3>6 DEF Prefetch
    <3>8. \A n \in Events : event[n] \in Streams \X Nat
      BY DEF HostOK
    <3>9. "sp_idxq_lookup" \in Events /\ EvictEvent(nextP) \in Events
      BY DEF Events, EvictEvent
    <3>10. /\ looked \in Streams \X Nat /\ <<"copy", c + 1>> \in Streams \X Nat
           /\ <<side, f - 1>> \in Streams \X Nat
           /\ <<"evict", e>> \in Streams \X Nat /\ <<"evict", e + 2>> \in Streams \X Nat
      BY <3>1, <3>5, <3>6, <3>8, <3>9
    <3>11. event' \in [Events -> Streams \X Nat]
      <4>1. event \in [Events -> Streams \X Nat]
        BY DEF HostOK
      <4>2. event' = [n \in Events |-> event'[n]]
        BY Zenon, <3>7, <4>1
      <4>3. ASSUME NEW n \in Events PROVE event'[n] \in Streams \X Nat
        BY <3>7, <3>8, <3>10, <4>1
      <4>. QED BY Zenon, <4>2, <4>3
    <3>12. ready' \in [Batches -> Nat]
      BY <1>2, <3>7 DEF HostOK
    <3>. QED BY <3>11, <3>12
  <2>8. batch' \in [Batches -> SUBSET Idx]
    BY <1>1 DEF HostOK
  <2>9. \A i \in Batches : IF i >= nextP' THEN batch'[i] = {} ELSE pipeline' => batch'[i] # {}
    <3> SUFFICES ASSUME NEW i \in Batches
                 PROVE  IF i >= nextP' THEN batch'[i] = {} ELSE pipeline' => batch'[i] # {}
      OBVIOUS
    <3>1. batch'[i] = IF i = nextP THEN B ELSE batch[i]
      BY <1>1 DEF HostOK
    <3>2. IF i >= nextP THEN batch[i] = {} ELSE pipeline => batch[i] # {}
      BY DEF HostOK
    <3>3. i \in Nat
      BY DEF Batches
    <3>4. CASE i = nextP
      BY <1>1, <3>1, <3>4
    <3>5. CASE i # nextP
      BY <1>1, <3>1, <3>2, <3>3, <3>5
    <3>. QED BY <3>4, <3>5
  <2>. QED BY Zenon, <2>1, <2>2, <2>3, <2>4, <2>5, <2>6, <2>7, <2>8, <2>9 DEF HostOK
<1>8. pipeline => B # {}
  BY <1>1
<1>9. nextP < nextB + Gap
  BY <1>1, <1>6 DEF HostOK, Gap
<1>. QED BY Zenon, <1>1, <1>2, <1>3, <1>4, <1>5, <1>7, <1>8, <1>9

\* What a prefetch of batch i, of indices B, queues on the streams.
Prefetched(W, i, B) ==
    LET lookup == pipeline /\ i > 1
        copied == <<"copy", End("copy") + 1>>
        got    == Spot("get", lookup)
        filled == Spot("fill", lookup)
    IN  /\ SideWork(W[side], i, lookup)
        /\ W["copy"] \in Seq(Pieces) /\ Len(W["copy"]) = 1
        /\ W["copy"][1].work = "copy" /\ W["copy"][1].i = i
        /\ EvictWork(W["evict"], i, B # {}, pipeline)
        /\ \A t \in Streams \ {side, "copy", "evict"} : W[t] = <<>>
        /\ W[side][1].after = {<<"main", gate>>}
        /\ W[side][2].after = {event[EvictEvent(i)]}
        /\ lookup => W[side][4].k = i - 1 /\ W[side][4].after = {copied, event["sp_idxq_insert"]}
        /\ W[side][got].after = {copied, event["sp_evict"]}
        /\ W["copy"][1].after = {<<side, End(side) + 2>>}
        /\ B # {} => W["evict"][1].after = {<<side, End(side) + got>>}
        /\ W["evict"][EvictSpot("spill", B # {})].after = {<<side, End(side) + filled>>}
        /\ pipeline => LET p == W["evict"][EvictSpot("enqueue", B # {})]
                       IN copied \in p.after /\ (lookup => <<side, End(side) + 4>> \in p.after)
        /\ ready' = [ready EXCEPT ![i] = End(side) + filled]
        /\ event'["sp_evict"] = event["sp_evict"]
        /\ event'["sp_idxq_insert"] =
              IF pipeline THEN <<"evict", End("evict") + EvictSpot("enqueue", B # {})>>
              ELSE event["sp_idxq_insert"]
        /\ \A j \in Nat : event'[EvictEvent(j)] =
              IF j % 2 = i % 2 /\ B # {} THEN <<"evict", End("evict") + 1>> ELSE event[EvictEvent(j)]

LEMMA PrefetchQueued ==
    ASSUME StreamsOK, HostOK, NEW B \in SUBSET Idx, Prefetch(B)
    PROVE  \E W \in [Streams -> Seq(Pieces)] :
              /\ todo' = [t \in Streams |-> todo[t] \o W[t]] /\ ran' = ran
              /\ Prefetched(W, nextP, B)
<1>1. PICK i \in Nat, lk \in BOOLEAN, e \in BOOLEAN :
          /\ i = nextP /\ i \in Batches /\ lk = (pipeline /\ pads # <<>>) /\ e = (B # {})
          /\ lk = (pipeline /\ i > 1) /\ (lk => Head(pads) = i - 1)
  <2>1. /\ nextP \in Batches /\ nextP \in Nat
        /\ pipeline /\ pads # <<>> => nextP > 1 /\ Head(pads) = nextP - 1
        /\ pipeline /\ pads = <<>> => nextP = 1
    BY PrefetchHost
  <2>2. (pipeline /\ pads # <<>>) \in BOOLEAN /\ (B # {}) \in BOOLEAN
    OBVIOUS
  <2>3. (pipeline /\ pads # <<>>) = (pipeline /\ nextP > 1)
    BY <2>1
  <2>. QED BY Zenon, <2>1, <2>2, <2>3
<1>2. /\ side \in Streams /\ "copy" \in Streams /\ "evict" \in Streams /\ "main" \in Streams
      /\ side # "copy" /\ side # "evict" /\ pipeline \in BOOLEAN /\ gate \in Nat
  BY DEF Streams, HostOK
<1>3. PICK p \in Nat, c \in Nat, v \in Nat : p = End(side) /\ c = End("copy") /\ v = End("evict")
  BY <1>2, QueueFacts
<1>4. PICK filled \in Nat, got \in Nat, en \in Nat :
          /\ filled = p + 5 + (IF lk THEN 1 ELSE 0) /\ got = filled - 1
          /\ en = v + (IF B = {} THEN 0 ELSE 1)
  <2>1. PICK f \in Nat : f = p + 5 + (IF lk THEN 1 ELSE 0)
    OBVIOUS
  <2>2. f - 1 \in Nat
    BY <2>1
  <2>3. PICK z \in Nat : z = v + (IF B = {} THEN 0 ELSE 1)
    OBVIOUS
  <2>. QED BY <2>1, <2>2, <2>3
<1>5. PICK looked, copied :
          /\ looked = (IF lk THEN <<side, p + 4>> ELSE event["sp_idxq_lookup"])
          /\ copied = <<"copy", c + 1>>
  OBVIOUS
<1>6. \A n \in Events : event[n] \in Streams \X Nat
  BY DEF HostOK
<1>7. /\ EvictEvent(i) \in Events /\ "sp_idxq_insert" \in Events /\ "sp_evict" \in Events
      /\ "sp_idxq_lookup" \in Events
  BY DEF EvictEvent, Events
<1>8. looked \in Streams \X Nat /\ copied \in Streams \X Nat
  BY <1>2, <1>5, <1>6, <1>7
<1> DEFINE Made(x, w, k, A) == x \in Pieces /\ x.work = w /\ x.i = i /\ x.k = k /\ x.after = A
<1>9. ASSUME NEW w \in Works, NEW k \in Nat, NEW A \in SUBSET (Streams \X Nat), NEW x, x = Work(w, i, k, A)
      PROVE  Made(x, w, k, A)
  BY <1>9 DEF Work, Pieces
<1> HIDE DEF Made
<1>10. /\ "populate" \in Works /\ "compact" \in Works /\ "select" \in Works /\ "lookup" \in Works
       /\ "get" \in Works /\ "fill" \in Works /\ "copy" \in Works /\ "evict" \in Works
       /\ "spill" \in Works /\ "enqueue" \in Works
  BY DEF Works, SideWorks, EvictWorks
<1>11. /\ {<<"main", gate>>} \in SUBSET (Streams \X Nat)
       /\ {event[EvictEvent(i)]} \in SUBSET (Streams \X Nat)
       /\ {copied, event["sp_idxq_insert"]} \in SUBSET (Streams \X Nat)
       /\ {copied, event["sp_evict"]} \in SUBSET (Streams \X Nat)
       /\ {<<side, p + 2>>} \in SUBSET (Streams \X Nat)
       /\ {<<side, got>>} \in SUBSET (Streams \X Nat)
       /\ {<<side, filled>>} \in SUBSET (Streams \X Nat)
       /\ {copied, looked} \in SUBSET (Streams \X Nat)
       /\ {} \in SUBSET (Streams \X Nat)
  BY <1>2, <1>6, <1>7, <1>8
<1>12. PICK wp, wc, ws, wl, wg, wf, wy, we, wi, wq :
          /\ wp = Work("populate", i, 0, {<<"main", gate>>})
          /\ wc = Work("compact", i, 0, {event[EvictEvent(i)]})
          /\ ws = Work("select", i, 0, {})
          /\ wl = Work("lookup", i, IF lk THEN Head(pads) ELSE 0, {copied, event["sp_idxq_insert"]})
          /\ wg = Work("get", i, 0, {copied, event["sp_evict"]})
          /\ wf = Work("fill", i, 0, {})
          /\ wy = Work("copy", i, 0, {<<side, p + 2>>})
          /\ we = Work("evict", i, 0, {<<side, got>>})
          /\ wi = Work("spill", i, 0, {<<side, filled>>})
          /\ wq = Work("enqueue", i, 0, {copied, looked})
  OBVIOUS
<1>13. /\ wp \in Pieces /\ wp.work = "populate" /\ wp.i = i /\ wp.after = {<<"main", gate>>}
       /\ wc \in Pieces /\ wc.work = "compact" /\ wc.i = i /\ wc.after = {event[EvictEvent(i)]}
       /\ ws \in Pieces /\ ws.work = "select" /\ ws.i = i
       /\ wg \in Pieces /\ wg.work = "get" /\ wg.i = i /\ wg.after = {copied, event["sp_evict"]}
       /\ wf \in Pieces /\ wf.work = "fill" /\ wf.i = i
       /\ wy \in Pieces /\ wy.work = "copy" /\ wy.i = i /\ wy.after = {<<side, p + 2>>}
       /\ we \in Pieces /\ we.work = "evict" /\ we.i = i /\ we.after = {<<side, got>>}
       /\ wi \in Pieces /\ wi.work = "spill" /\ wi.i = i /\ wi.after = {<<side, filled>>}
       /\ wq \in Pieces /\ wq.work = "enqueue" /\ wq.i = i /\ wq.after = {copied, looked}
  <2>0. 0 \in Nat
    OBVIOUS
  <2>1. Made(wp, "populate", 0, {<<"main", gate>>})
    BY Zenon, <1>9, <1>10, <1>11, <1>12, <2>0
  <2>2. Made(wc, "compact", 0, {event[EvictEvent(i)]})
    BY Zenon, <1>9, <1>10, <1>11, <1>12, <2>0
  <2>3. Made(ws, "select", 0, {})
    BY Zenon, <1>9, <1>10, <1>11, <1>12, <2>0
  <2>4. Made(wg, "get", 0, {copied, event["sp_evict"]})
    BY Zenon, <1>9, <1>10, <1>11, <1>12, <2>0
  <2>5. Made(wf, "fill", 0, {})
    BY Zenon, <1>9, <1>10, <1>11, <1>12, <2>0
  <2>6. Made(wy, "copy", 0, {<<side, p + 2>>})
    BY Zenon, <1>9, <1>10, <1>11, <1>12, <2>0
  <2>7. Made(we, "evict", 0, {<<side, got>>})
    BY Zenon, <1>9, <1>10, <1>11, <1>12, <2>0
  <2>8. Made(wi, "spill", 0, {<<side, filled>>})
    BY Zenon, <1>9, <1>10, <1>11, <1>12, <2>0
  <2>9. Made(wq, "enqueue", 0, {copied, looked})
    BY Zenon, <1>9, <1>10, <1>11, <1>12, <2>0
  <2>. QED BY Zenon, <2>1, <2>2, <2>3, <2>4, <2>5, <2>6, <2>7, <2>8, <2>9 DEF Made
<1>14. /\ wl \in Pieces /\ wl.work = "lookup" /\ wl.i = i /\ (lk => wl.k = i - 1)
       /\ wl.after = {copied, event["sp_idxq_insert"]}
  <2>1. PICK k : k = IF lk THEN Head(pads) ELSE 0
    OBVIOUS
  <2>2. k \in Nat /\ (lk => k = i - 1)
    <3>0. lk => i > 1
      BY Zenon, <1>1
    <3>1. lk => i - 1 \in Nat
      BY <3>0
    <3>. QED BY <1>1, <2>1, <3>1
  <2>3. wl = Work("lookup", i, k, {copied, event["sp_idxq_insert"]})
    BY Zenon, <1>12, <2>1
  <2>4. Made(wl, "lookup", k, {copied, event["sp_idxq_insert"]})
    BY Zenon, <1>9, <1>10, <1>11, <2>2, <2>3
  <2>. QED BY Zenon, <2>2, <2>4 DEF Made
<1>15. PICK P \in [SideWorks -> Pieces] :
          /\ P["populate"] = wp /\ P["compact"] = wc /\ P["select"] = ws /\ P["lookup"] = wl
          /\ P["get"] = wg /\ P["fill"] = wf
          /\ \A w \in SideWorks : P[w].work = w /\ P[w].i = i
  <2>1. PICK P : P = [w \in SideWorks |-> CASE w = "populate" -> wp [] w = "compact" -> wc
                         [] w = "select" -> ws [] w = "lookup" -> wl [] w = "get" -> wg [] OTHER -> wf]
    OBVIOUS
  <2>2. /\ P["populate"] = wp /\ P["compact"] = wc /\ P["select"] = ws /\ P["lookup"] = wl
        /\ P["get"] = wg /\ P["fill"] = wf /\ DOMAIN P = SideWorks
    BY <2>1 DEF SideWorks
  <2>3. \A w \in SideWorks : P[w] \in Pieces /\ P[w].work = w /\ P[w].i = i
    BY <1>13, <1>14, <2>2 DEF SideWorks
  <2>4. P \in [SideWorks -> Pieces]
    BY <2>1, <2>3
  <2>. QED BY Zenon, <2>2, <2>3, <2>4
<1>19. PICK Q \in [EvictWorks -> Pieces] :
          /\ Q["evict"] = we /\ Q["spill"] = wi /\ Q["enqueue"] = wq
          /\ \A w \in EvictWorks : Q[w].work = w /\ Q[w].i = i
  <2>5. PICK Q : Q = [w \in EvictWorks |-> CASE w = "evict" -> we [] w = "spill" -> wi [] OTHER -> wq]
    OBVIOUS
  <2>6. Q["evict"] = we /\ Q["spill"] = wi /\ Q["enqueue"] = wq
    BY <2>5 DEF EvictWorks
  <2>7. \A w \in EvictWorks : Q[w] \in Pieces /\ Q[w].work = w /\ Q[w].i = i
    BY <1>13, <2>6 DEF EvictWorks
  <2>8. Q \in [EvictWorks -> Pieces]
    BY <2>5, <2>7
  <2>. QED BY Zenon, <2>6, <2>7, <2>8
<1>16. PICK U : U = (<<wp, wc, ws>> \o (IF lk THEN <<wl>> ELSE <<>>)) \o <<wg, wf>>
  OBVIOUS
<1>17. PICK V : V = ((IF e THEN <<we>> ELSE <<>>) \o <<wi>>) \o (IF pipeline THEN <<wq>> ELSE <<>>)
  OBVIOUS
<1>18. /\ SideWork(U, i, lk)
       /\ \A w \in SideWorks : (w = "lookup" => lk) => U[Spot(w, lk)] = P[w]
  <2>1. PICK a, b, d : a = <<wp, wc, ws>> /\ b = (IF lk THEN <<wl>> ELSE <<>>) /\ d = <<wg, wf>>
    OBVIOUS
  <2>2. a \in Seq(Pieces) /\ Len(a) = 3 /\ a[1] = wp /\ a[2] = wc /\ a[3] = ws
    BY <1>13, <2>1, Tuples
  <2>3. b \in Seq(Pieces) /\ Len(b) = (IF lk THEN 1 ELSE 0) /\ (lk => b[1] = wl)
    BY Zenon, <1>14, <2>1, OneIf
  <2>4. d \in Seq(Pieces) /\ Len(d) = 2 /\ d[1] = wg /\ d[2] = wf
    BY <1>13, <2>1, Tuples
  <2>5. PICK x : x = a \o b
    OBVIOUS
  <2>6. /\ x \in Seq(Pieces) /\ Len(x) = (IF lk THEN 4 ELSE 3)
        /\ x[1] = wp /\ x[2] = wc /\ x[3] = ws /\ (lk => x[4] = wl)
    <3>1. /\ x \in Seq(Pieces) /\ Len(x) = Len(a) + Len(b)
          /\ \A n \in 1..Len(a) : x[n] = a[n]
          /\ \A n \in 1..Len(b) : x[Len(a) + n] = b[n]
      <4>1. a \in Seq(Pieces) /\ b \in Seq(Pieces)
        BY <2>2, <2>3
      <4>. QED BY <2>5, <4>1
    <3>. QED BY <2>2, <2>3, <3>1
  <2>7. U = x \o d
    BY Zenon, <1>16, <2>1, <2>5
  <2>8. /\ U \in Seq(Pieces) /\ Len(U) = Len(x) + Len(d)
        /\ \A n \in 1..Len(x) : U[n] = x[n]
        /\ \A n \in 1..Len(d) : U[Len(x) + n] = d[n]
    <3>1. x \in Seq(Pieces) /\ d \in Seq(Pieces)
      BY <2>4, <2>6
    <3>. QED BY <2>7, <3>1
  <2>9. /\ Len(U) = (IF lk THEN 6 ELSE 5)
        /\ U[1] = wp /\ U[2] = wc /\ U[3] = ws
        /\ lk => U[4] = wl /\ U[5] = wg /\ U[6] = wf
        /\ ~ lk => U[4] = wg /\ U[5] = wf
    BY <2>4, <2>6, <2>8
  <2>10. SideOrder(U, P, i, lk)
    BY Zenon, <1>15, <2>8, <2>9 DEF SideOrder
  <2>. QED BY <2>10, SideWorkFacts
<1>20. /\ EvictWork(V, i, e, pipeline)
       /\ \A w \in EvictWorks : (w = "evict" => e) /\ (w = "enqueue" => pipeline) => V[EvictSpot(w, e)] = Q[w]
  <2>1. PICK a, b, d : /\ a = (IF e THEN <<we>> ELSE <<>>) /\ b = <<wi>>
                       /\ d = (IF pipeline THEN <<wq>> ELSE <<>>)
    OBVIOUS
  <2>2. a \in Seq(Pieces) /\ Len(a) = (IF e THEN 1 ELSE 0) /\ (e => a[1] = we)
    BY Zenon, <1>13, <2>1, OneIf
  <2>3. d \in Seq(Pieces) /\ Len(d) = (IF pipeline THEN 1 ELSE 0) /\ (pipeline => d[1] = wq)
    BY Zenon, <1>2, <1>13, <2>1, OneIf
  <2>4. b \in Seq(Pieces) /\ Len(b) = 1 /\ b[1] = wi
    BY <1>13, <2>1, Tuples
  <2>5. PICK x : x = a \o b
    OBVIOUS
  <2>6. /\ x \in Seq(Pieces) /\ Len(x) = (IF e THEN 2 ELSE 1)
        /\ e => x[1] = we /\ x[2] = wi
        /\ ~ e => x[1] = wi
    <3>1. /\ x \in Seq(Pieces) /\ Len(x) = Len(a) + Len(b)
          /\ \A n \in 1..Len(a) : x[n] = a[n]
          /\ \A n \in 1..Len(b) : x[Len(a) + n] = b[n]
      <4>1. a \in Seq(Pieces) /\ b \in Seq(Pieces)
        BY <2>2, <2>4
      <4>. QED BY <2>5, <4>1
    <3>. QED BY <2>2, <2>4, <3>1
  <2>7. V = x \o d
    BY Zenon, <1>17, <2>1, <2>5
  <2>8. /\ V \in Seq(Pieces) /\ Len(V) = Len(x) + Len(d)
        /\ \A n \in 1..Len(x) : V[n] = x[n]
        /\ \A n \in 1..Len(d) : V[Len(x) + n] = d[n]
    <3>1. x \in Seq(Pieces) /\ d \in Seq(Pieces)
      BY <2>3, <2>6
    <3>. QED BY <2>7, <3>1
  <2>9. /\ Len(V) = (IF e THEN 1 ELSE 0) + 1 + (IF pipeline THEN 1 ELSE 0)
        /\ e => V[1] = we /\ V[2] = wi /\ (pipeline => V[3] = wq)
        /\ ~ e => V[1] = wi /\ (pipeline => V[2] = wq)
    <3>1. CASE e
      BY <2>3, <2>6, <2>8, <3>1
    <3>2. CASE ~ e
      BY <2>3, <2>6, <2>8, <3>2
    <3>. QED BY Zenon, <3>1, <3>2
  <2>10. EvictOrder(V, Q, i, e, pipeline)
    BY Zenon, <1>19, <2>8, <2>9 DEF EvictOrder
  <2>. QED BY <1>2, <2>10, EvictWorkFacts
<1>22. PICK C : C = <<wy>> /\ C \in Seq(Pieces) /\ Len(C) = 1 /\ C[1] = wy
  <2>1. <<wy>> \in Seq(Pieces) /\ Len(<<wy>>) = 1 /\ <<wy>>[1] = wy
    BY <1>13, Tuples
  <2>. QED BY Zenon, <2>1
<1>23. U \in Seq(Pieces) /\ V \in Seq(Pieces) /\ <<>> \in Seq(Pieces)
  BY <1>18, <1>20 DEF SideWork, EvictWork
<1>24. PICK W : W = [t \in Streams |-> IF t = side THEN U ELSE IF t = "copy" THEN C
                                       ELSE IF t = "evict" THEN V ELSE <<>>]
  OBVIOUS
<1>25. /\ W \in [Streams -> Seq(Pieces)] /\ W[side] = U /\ W["copy"] = C /\ W["evict"] = V
       /\ \A t \in Streams \ {side, "copy", "evict"} : W[t] = <<>>
  BY <1>2, <1>22, <1>23, <1>24
<1>26. /\ todo' = [todo EXCEPT ![side] = @ \o U, !["copy"] = Append(@, wy), !["evict"] = @ \o V]
       /\ ran' = ran
       /\ ready' = [ready EXCEPT ![i] = filled]
       /\ event' = [event EXCEPT
             !["get_inputs_cpy"] = copied,
             !["get"] = <<side, got>>,
             !["sp_idxq_lookup"] = looked,
             ![EvictEvent(i)] = IF B = {} THEN @ ELSE <<"evict", en>>,
             !["sp_idxq_insert"] = IF pipeline THEN <<"evict", en + 2>> ELSE @]
  <2>1. U = (<<wp, wc, ws>> \o (IF lk THEN <<Work("lookup", i, Head(pads), {copied, event["sp_idxq_insert"]})>>
                                ELSE <<>>)) \o <<wg, wf>>
    <3>1. CASE lk
      <4>1. wl = Work("lookup", i, Head(pads), {copied, event["sp_idxq_insert"]})
        BY Zenon, <1>12, <3>1
      <4>. QED BY Zenon, <1>16, <3>1, <4>1
    <3>2. CASE ~ lk
      BY Zenon, <1>16, <3>2
    <3>. QED BY Zenon, <3>1, <3>2
  <2>2. todo' = [todo EXCEPT ![side] = @ \o U, !["copy"] = Append(@, wy), !["evict"] = @ \o V]
    <3>1. V = ((IF B = {} THEN <<>> ELSE <<we>>) \o <<wi>>) \o (IF pipeline THEN <<wq>> ELSE <<>>)
      BY Zenon, <1>1, <1>17
    <3>2. PICK x, y : /\ x = (<<wp, wc, ws>>
                                 \o (IF lk THEN <<Work("lookup", i, Head(pads), {copied, event["sp_idxq_insert"]})>>
                                     ELSE <<>>)) \o <<wg, wf>>
                      /\ y = ((IF B = {} THEN <<>> ELSE <<we>>) \o <<wi>>)
                                 \o (IF pipeline THEN <<wq>> ELSE <<>>)
      OBVIOUS
    <3>3. todo' = [todo EXCEPT ![side] = @ \o x, !["copy"] = Append(@, wy), !["evict"] = @ \o y]
      BY ZenonT(60), <1>1, <1>3, <1>4, <1>5, <1>12, <3>2 DEF Prefetch
    <3>. QED BY Zenon, <2>1, <3>1, <3>2, <3>3
  <2>3. /\ ran' = ran
        /\ ready' = [ready EXCEPT ![i] = filled]
    BY Zenon, <1>1, <1>3, <1>4 DEF Prefetch
  <2>4. event' = [event EXCEPT
             !["get_inputs_cpy"] = copied,
             !["get"] = <<side, got>>,
             !["sp_idxq_lookup"] = looked,
             ![EvictEvent(i)] = IF B = {} THEN @ ELSE <<"evict", en>>,
             !["sp_idxq_insert"] = IF pipeline THEN <<"evict", en + 2>> ELSE @]
    BY Zenon, <1>1, <1>3, <1>4, <1>5 DEF Prefetch
  <2>. QED BY <2>2, <2>3, <2>4
<1>27. todo' = [t \in Streams |-> todo[t] \o W[t]]
  <2>1. todo \in [Streams -> Seq(Pieces)]
    BY DEF StreamsOK
  <2>2. \A t \in Streams : todo[t] \o <<>> = todo[t]
    BY <2>1
  <2>3. Append(todo["copy"], wy) = todo["copy"] \o C
    <3>1. PICK x \in Seq(Pieces) : x = todo["copy"]
      BY <1>2, <2>1
    <3>2. Append(x, wy) = x \o <<wy>>
      BY <1>13, AppendIsConcat
    <3>. QED BY <1>22, <3>1, <3>2
  <2>4. /\ todo'[side] = todo[side] \o U /\ todo'["copy"] = Append(todo["copy"], wy)
        /\ todo'["evict"] = todo["evict"] \o V
        /\ \A t \in Streams \ {side, "copy", "evict"} : todo'[t] = todo[t]
        /\ todo' = [t \in Streams |-> todo'[t]]
    BY Zenon, <1>2, <1>26, <2>1
  <2>5. ASSUME NEW t \in Streams PROVE todo'[t] = todo[t] \o W[t]
    BY Zenon, <1>25, <2>2, <2>3, <2>4, <2>5
  <2>. QED BY Zenon, <2>4, <2>5
<1>28. /\ Spot("populate", lk) = 1 /\ Spot("compact", lk) = 2 /\ Spot("lookup", lk) = (IF lk THEN 4 ELSE 4)
       /\ Spot("get", lk) = (IF lk THEN 5 ELSE 4) /\ Spot("fill", lk) = (IF lk THEN 6 ELSE 5)
       /\ EvictSpot("enqueue", e) = (IF e THEN 3 ELSE 2) /\ (e => EvictSpot("evict", e) = 1)
  BY DEF Spot, EvictSpot, Rank
<1>29. /\ W[side][1] = wp /\ W[side][2] = wc /\ (lk => W[side][4] = wl)
       /\ W[side][Spot("get", lk)] = wg /\ (e => W["evict"][1] = we)
       /\ W["evict"][EvictSpot("spill", e)] = wi
       /\ pipeline => W["evict"][EvictSpot("enqueue", e)] = wq
  <2>1. /\ "populate" \in SideWorks /\ "compact" \in SideWorks /\ "lookup" \in SideWorks
        /\ "get" \in SideWorks /\ "evict" \in EvictWorks /\ "spill" \in EvictWorks
        /\ "enqueue" \in EvictWorks
    BY DEF SideWorks, EvictWorks
  <2>2. /\ U[Spot("populate", lk)] = P["populate"] /\ U[Spot("compact", lk)] = P["compact"]
        /\ U[Spot("get", lk)] = P["get"] /\ (lk => U[Spot("lookup", lk)] = P["lookup"])
        /\ (e => V[EvictSpot("evict", e)] = Q["evict"])
        /\ V[EvictSpot("spill", e)] = Q["spill"]
        /\ (pipeline => V[EvictSpot("enqueue", e)] = Q["enqueue"])
    BY <1>18, <1>20, <2>1
  <2>. QED BY Zenon, <1>15, <1>19, <1>25, <1>28, <2>2
<1>30. /\ event'["sp_evict"] = event["sp_evict"]
       /\ event'["sp_idxq_insert"] = IF pipeline THEN <<"evict", en + 2>> ELSE event["sp_idxq_insert"]
       /\ \A j \in Nat : event'[EvictEvent(j)] =
             IF j % 2 = i % 2 /\ B # {} THEN <<"evict", en>> ELSE event[EvictEvent(j)]
  <2>1. event \in [Events -> Streams \X Nat]
    BY DEF HostOK
  <2>2. event' = [event EXCEPT
             !["get_inputs_cpy"] = copied,
             !["get"] = <<side, got>>,
             !["sp_idxq_lookup"] = looked,
             ![EvictEvent(i)] = IF B = {} THEN @ ELSE <<"evict", en>>,
             !["sp_idxq_insert"] = IF pipeline THEN <<"evict", en + 2>> ELSE @]
    BY <1>26
  <2>3. \A j \in Nat : /\ EvictEvent(j) \in {"cache_evict0", "cache_evict1"}
                       /\ EvictEvent(j) = EvictEvent(i) <=> j % 2 = i % 2
    BY DEF EvictEvent
  <2>4. event'["sp_evict"] = event["sp_evict"]
    BY <2>1, <2>2, <2>3 DEF Events
  <2>5. event'["sp_idxq_insert"] = IF pipeline THEN <<"evict", en + 2>> ELSE event["sp_idxq_insert"]
    BY <2>1, <2>2, <2>3 DEF Events
  <2>6. ASSUME NEW j \in Nat
        PROVE  event'[EvictEvent(j)] =
                  IF j % 2 = i % 2 /\ B # {} THEN <<"evict", en>> ELSE event[EvictEvent(j)]
    <3>1. PICK x \in Events, z \in Events : /\ x = EvictEvent(j) /\ z = EvictEvent(i)
                                           /\ x \in {"cache_evict0", "cache_evict1"}
                                           /\ z \in {"cache_evict0", "cache_evict1"}
                                           /\ (x = z <=> j % 2 = i % 2)
      <4>1. /\ EvictEvent(j) \in {"cache_evict0", "cache_evict1"}
            /\ EvictEvent(i) \in {"cache_evict0", "cache_evict1"}
            /\ EvictEvent(j) = EvictEvent(i) <=> j % 2 = i % 2
        BY DEF EvictEvent
      <4>2. EvictEvent(j) \in Events /\ EvictEvent(i) \in Events
        BY <4>1 DEF Events
      <4>. QED BY Zenon, <4>1, <4>2
    <3>2. event'[x] = IF x = z /\ B # {} THEN <<"evict", en>> ELSE event[x]
      BY <2>1, <2>2, <3>1 DEF Events
    <3>. QED BY <3>1, <3>2
  <2>. QED BY <2>4, <2>5, <2>6
<1>31. /\ filled = p + Spot("fill", lk) /\ got = p + Spot("get", lk)
       /\ (B # {}) = e /\ (e => en = v + 1) /\ en + 2 = v + EvictSpot("enqueue", e)
  <2>1. (B # {}) = e
    BY <1>1
  <2>2. filled = p + Spot("fill", lk) /\ got = p + Spot("get", lk)
    <3>1. CASE lk
      <4>1. filled = p + 5 + 1 /\ Spot("fill", lk) = 6 /\ Spot("get", lk) = 5
        BY <1>4, <1>28, <3>1
      <4>. QED BY <1>4, <4>1
    <3>2. CASE ~ lk
      BY <1>4, <1>28, <3>2
    <3>. QED BY <3>1, <3>2
  <2>3. (e => en = v + 1) /\ en + 2 = v + EvictSpot("enqueue", e)
    <3>1. CASE e
      <4>1. en = v + 1 /\ EvictSpot("enqueue", e) = 3
        BY <1>4, <1>28, <2>1, <3>1
      <4>. QED BY <4>1
    <3>2. CASE ~ e
      <4>1. en = v /\ EvictSpot("enqueue", e) = 2
        BY <1>4, <1>28, <2>1, <3>2
      <4>. QED BY <3>2, <4>1
    <3>. QED BY <3>1, <3>2
  <2>. QED BY <2>1, <2>2, <2>3
<1>32. Prefetched(W, i, B)
  <2>1. (pipeline /\ i > 1) = lk /\ (B # {}) = e
    BY <1>1
  <2>2. /\ SideWork(W[side], i, lk)
        /\ W["copy"] \in Seq(Pieces) /\ Len(W["copy"]) = 1
        /\ W["copy"][1].work = "copy" /\ W["copy"][1].i = i
        /\ EvictWork(W["evict"], i, e, pipeline)
        /\ \A t \in Streams \ {side, "copy", "evict"} : W[t] = <<>>
    BY Zenon, <1>13, <1>18, <1>20, <1>22, <1>25
  <2>3. /\ W[side][1].after = {<<"main", gate>>}
        /\ W[side][2].after = {event[EvictEvent(i)]}
        /\ W["copy"][1].after = {<<side, p + 2>>}
    BY Zenon, <1>13, <1>22, <1>25, <1>29
  <2>4. /\ lk => W[side][4].k = i - 1 /\ W[side][4].after = {<<"copy", c + 1>>, event["sp_idxq_insert"]}
        /\ W[side][Spot("get", lk)].after = {<<"copy", c + 1>>, event["sp_evict"]}
    BY Zenon, <1>5, <1>13, <1>14, <1>29
  <2>5. /\ e => W["evict"][1].after = {<<side, p + Spot("get", lk)>>}
        /\ W["evict"][EvictSpot("spill", e)].after = {<<side, p + Spot("fill", lk)>>}
    BY Zenon, <1>13, <1>29, <1>31
  <2>6. pipeline => /\ <<"copy", c + 1>> \in W["evict"][EvictSpot("enqueue", e)].after
                    /\ lk => <<side, p + 4>> \in W["evict"][EvictSpot("enqueue", e)].after
    BY <1>5, <1>13, <1>29
  <2>7. ready' = [ready EXCEPT ![i] = p + Spot("fill", lk)]
    BY Zenon, <1>26, <1>31
  <2>8. /\ event'["sp_idxq_insert"] =
              IF pipeline THEN <<"evict", v + EvictSpot("enqueue", e)>> ELSE event["sp_idxq_insert"]
        /\ \A j \in Nat : event'[EvictEvent(j)] =
              IF j % 2 = i % 2 /\ B # {} THEN <<"evict", v + 1>> ELSE event[EvictEvent(j)]
    BY <1>30, <1>31
  <2>. QED BY Zenon, <1>3, <1>30, <2>1, <2>2, <2>3, <2>4, <2>5, <2>6, <2>7, <2>8 DEF Prefetched
<1>. QED BY Zenon, <1>1, <1>25, <1>26, <1>27, <1>32

\* What is first of the work of a prefetch.
LEMMA FirstOfPrefetch ==
    ASSUME NEW v \in Works, NEW w \in PrefetchWorks, NEW j \in Nat, NEW i \in Nat, First(v, j, w, i)
    PROVE  \/ v \in SideWorks /\ w \in SideWorks /\ (j < i \/ (j = i /\ Rank(v) < Rank(w)))
           \/ v \in EvictWorks /\ w \in EvictWorks /\ (j < i \/ (j = i /\ Rank(v) < Rank(w)))
           \/ v = "copy" /\ w = "copy" /\ j < i
           \/ v = "backward" /\ w = "populate" /\ j + Gap <= i
           \/ v = "evict" /\ w = "compact" /\ j < i /\ j % 2 = i % 2
           \/ v = "enqueue" /\ w = "lookup" /\ j < i
           \/ v = "sp_evict" /\ w = "get" /\ j + Gap <= i
           \/ v = "compact" /\ w = "copy" /\ j = i
           \/ v = "copy" /\ w = "lookup" /\ j = i
           \/ v = "copy" /\ w = "get" /\ j = i
           \/ v = "get" /\ w = "evict" /\ j = i
           \/ v = "fill" /\ w = "spill" /\ j = i
           \/ v = "lookup" /\ w = "enqueue" /\ j = i
<1>1. /\ w \notin MainWorks /\ w # "sp_evict" /\ w # "unlock" /\ w # "backward" /\ w # "forward"
      /\ w \in SideWorks \/ w \in EvictWorks \/ w = "copy"
  BY DEF PrefetchWorks, SideWorks, EvictWorks, MainWorks
<1>2. InTurn(v, w) => (v \in SideWorks /\ w \in SideWorks) \/ (v \in EvictWorks /\ w \in EvictWorks)
  <2>1. {v, w} \subseteq MainWorks => w \in MainWorks
    OBVIOUS
  <2>2. {v, w} \subseteq SideWorks => v \in SideWorks /\ w \in SideWorks
    OBVIOUS
  <2>3. {v, w} \subseteq EvictWorks => v \in EvictWorks /\ w \in EvictWorks
    OBVIOUS
  <2>. QED BY <1>1, <2>1, <2>2, <2>3 DEF InTurn
<1>3. \A a, b, c, d : <<a, b>> = <<c, d>> => a = c /\ b = d
  OBVIOUS
<1>4. <<v, w>> \in {<<"compact", "copy">>, <<"copy", "lookup">>, <<"copy", "get">>, <<"get", "evict">>,
                    <<"fill", "spill">>, <<"lookup", "enqueue">>, <<"backward", "sp_evict">>}
      => \/ (v = "compact" /\ w = "copy") \/ (v = "copy" /\ w = "lookup") \/ (v = "copy" /\ w = "get")
         \/ (v = "get" /\ w = "evict") \/ (v = "fill" /\ w = "spill") \/ (v = "lookup" /\ w = "enqueue")
  <2>1. SUFFICES ASSUME \/ <<v, w>> = <<"compact", "copy">> \/ <<v, w>> = <<"copy", "lookup">>
                        \/ <<v, w>> = <<"copy", "get">> \/ <<v, w>> = <<"get", "evict">>
                        \/ <<v, w>> = <<"fill", "spill">> \/ <<v, w>> = <<"lookup", "enqueue">>
                        \/ <<v, w>> = <<"backward", "sp_evict">>
        PROVE  \/ (v = "compact" /\ w = "copy") \/ (v = "copy" /\ w = "lookup") \/ (v = "copy" /\ w = "get")
               \/ (v = "get" /\ w = "evict") \/ (v = "fill" /\ w = "spill") \/ (v = "lookup" /\ w = "enqueue")
    BY Zenon
  <2>. QED BY <1>1, <1>3, <2>1
<1>5. w # IF pipeline THEN "unlock" ELSE "backward"
  BY <1>1
<1>. QED BY <1>1, <1>2, <1>4, <1>5 DEF First

LEMMA Spots ==
    ASSUME NEW lk \in BOOLEAN, NEW e \in BOOLEAN
    PROVE  /\ \A v, w \in SideWorks : (v = "lookup" => lk) /\ Rank(v) < Rank(w) => Spot(v, lk) < Spot(w, lk)
           /\ \A v, w \in EvictWorks : Rank(v) < Rank(w) => EvictSpot(v, e) < EvictSpot(w, e)
           /\ \A w \in SideWorks : Spot(w, lk) \in Nat
           /\ \A w \in EvictWorks : EvictSpot(w, e) \in Nat
           /\ Spot("populate", lk) = 1 /\ Spot("compact", lk) = 2 /\ Spot("lookup", lk) = 4
           /\ e => EvictSpot("evict", e) = 1
           /\ EvictSpot("spill", e) > 0 /\ EvictSpot("enqueue", e) > 0
<1>1. ASSUME NEW v \in SideWorks, NEW w \in SideWorks, v = "lookup" => lk, Rank(v) < Rank(w)
      PROVE  Spot(v, lk) < Spot(w, lk)
  BY <1>1 DEF Spot, Rank, SideWorks
<1>2. \A v, w \in EvictWorks : Rank(v) < Rank(w) => EvictSpot(v, e) < EvictSpot(w, e)
  BY DEF EvictSpot, Rank, EvictWorks
<1>3. \A w \in SideWorks : Spot(w, lk) \in Nat
  BY DEF Spot, Rank, SideWorks
<1>4. \A w \in EvictWorks : EvictSpot(w, e) \in Nat
  BY DEF EvictSpot, Rank, EvictWorks
<1>5. Spot("populate", lk) = 1 /\ Spot("compact", lk) = 2 /\ Spot("lookup", lk) = 4
  BY DEF Spot, Rank
<1>6. (e => EvictSpot("evict", e) = 1) /\ EvictSpot("spill", e) > 0 /\ EvictSpot("enqueue", e) > 0
  BY DEF EvictSpot, Rank
<1>. QED BY <1>1, <1>2, <1>3, <1>4, <1>5, <1>6

LEMMA StreamOf ==
    /\ \A w \in SideWorks : On(w) = side
    /\ \A w \in EvictWorks : On(w) = "evict"
    /\ \A w \in MainWorks : On(w) = "main"
    /\ On("copy") = "copy" /\ On("sp_evict") = "evict"
    /\ On("populate") = side /\ On("compact") = side /\ On("select") = side /\ On("lookup") = side
    /\ On("get") = side /\ On("fill") = side
    /\ On("evict") = "evict" /\ On("spill") = "evict" /\ On("enqueue") = "evict"
    /\ On("forward") = "main" /\ On("unlock") = "main" /\ On("backward") = "main"
BY DEF On, SideWorks, EvictWorks, MainWorks

LEMMA CoversIt == ASSUME NEW s, NEW x \in Nat, NEW y \in Nat, y <= x PROVE Covers(<<s, x>>, s, y)
BY DEF Covers

LEMMA PrefetchOrder ==
    ASSUME Order, NEW B \in SUBSET Idx, Prefetch(B), NEW now, now = nextP
    PROVE  /\ Order' /\ now \in Batches /\ nextP' = now + 1
           /\ batch' = [batch EXCEPT ![now] = B] /\ (pipeline => B # {}) /\ now < nextB + Gap
           /\ \A w \in Works, i \in Batches :
                 Pending(w, i)' <=> Pending(w, i) /\ ~ (i = now /\ w \in PrefetchWorks /\ ~ Exists(w, i)')
<1>1. StreamsOK /\ HostOK /\ Contents
  BY DEF Order
<1>2. /\ now \in Batches /\ now \in Nat /\ nextP' = now + 1 /\ nextP = now
      /\ batch' = [batch EXCEPT ![now] = B] /\ HostOK'
      /\ UNCHANGED <<pipeline, side, nextF, nextB, gate>> /\ host # "flush" /\ host' # "flush"
      /\ pipeline => B # {}
      /\ now < nextB + Gap
  BY <1>1, PrefetchHost
<1>3. PICK W \in [Streams -> Seq(Pieces)] :
          /\ todo' = [t \in Streams |-> todo[t] \o W[t]] /\ ran' = ran
          /\ Prefetched(W, now, B)
  BY <1>1, PrefetchQueued
<1>4. PICK lk \in BOOLEAN, e \in BOOLEAN : lk = (pipeline /\ now > 1) /\ e = (B # {})
  OBVIOUS
<1>5. /\ SideWork(W[side], now, lk)
      /\ Len(W["copy"]) = 1 /\ W["copy"][1].work = "copy" /\ W["copy"][1].i = now
      /\ EvictWork(W["evict"], now, e, pipeline)
      /\ \A t \in Streams \ {side, "copy", "evict"} : W[t] = <<>>
  BY Zenon, <1>3, <1>4 DEF Prefetched
<1>6. /\ side \in {"main", "prefetch"} /\ side \in Streams /\ "copy" \in Streams /\ "evict" \in Streams
      /\ "main" \in Streams /\ pipeline \in BOOLEAN
  BY <1>1 DEF HostOK, Streams
<1>7. ASSUME NEW w \in Works
      PROVE  /\ w \in PrefetchWorks => Turn(w) = now /\ Turn(w)' = now + 1
             /\ w \notin PrefetchWorks => Turn(w)' = Turn(w)
             /\ Turn(w) \in Nat /\ On(w) \in Streams /\ w # "flush"
             /\ w \notin PrefetchWorks <=> w \in MainWorks \cup {"sp_evict"}
  <2>1. Turn(w) \in Nat /\ On(w) \in Streams /\ w # "flush"
    BY <1>1, WorkFacts
  <2>2. /\ w \in PrefetchWorks => w \notin {"forward", "unlock", "backward", "sp_evict"}
        /\ w \notin PrefetchWorks => w \in {"forward", "unlock", "backward", "sp_evict"}
    BY DEF PrefetchWorks, Works, SideWorks, EvictWorks, MainWorks
  <2>. QED BY <1>2, <2>1, <2>2 DEF Turn, MainWorks
<1>8. ASSUME NEW w \in Works, NEW i \in Batches
      PROVE  /\ i # now => (Exists(w, i)' <=> Exists(w, i))
             /\ w \in PrefetchWorks => (Exists(w, now)' <=> /\ (w = "lookup" => lk)
                                                           /\ (w = "enqueue" => pipeline)
                                                           /\ (w = "evict" => e))
  <2>1. batch'[now] = B /\ (i # now => batch'[i] = batch[i]) /\ pipeline' = pipeline
    BY <1>1, <1>2 DEF HostOK
  <2>2. w \in PrefetchWorks => w \notin {"unlock", "sp_evict"}
    BY DEF PrefetchWorks, Works, SideWorks, EvictWorks, MainWorks
  <2>. QED BY <1>4, <2>1, <2>2 DEF Exists
<1>9. ASSUME NEW w \in Works, NEW i, NEW n, Gives(W, w, i, n)
      PROVE  /\ i = now /\ w \in PrefetchWorks /\ Exists(w, now)' /\ n \in Nat
             /\ w \in SideWorks => n = Spot(w, lk)
             /\ w \in EvictWorks => n = EvictSpot(w, e)
             /\ w = "copy" => n = 1
  <2>1. PICK t \in Streams : t = On(w) /\ n \in 1..Len(W[t]) /\ W[t][n].work = w /\ W[t][n].i = i
    BY <1>7, <1>9 DEF Gives
  <2>2. CASE t = side
    <3>1. w \in SideWorks /\ i = now /\ n = Spot(w, lk) /\ (w = "lookup" => lk)
      <4>1. /\ W[side][n].work \in SideWorks /\ W[side][n].i = now /\ n = Spot(W[side][n].work, lk)
            /\ W[side][n].work = "lookup" => lk
        BY Zenon, <1>5, <2>1, <2>2 DEF SideWork
      <4>. QED BY Zenon, <2>1, <2>2, <4>1
    <3>2. w \in PrefetchWorks /\ w \notin EvictWorks /\ w # "copy" /\ w # "enqueue" /\ w # "evict"
      BY <3>1 DEF PrefetchWorks, SideWorks, EvictWorks
    <3>. QED BY <1>2, <1>8, <2>1, <3>1, <3>2
  <2>3. CASE t = "copy"
    <3>1. w = "copy" /\ i = now /\ n = 1
      BY <1>5, <2>1, <2>3
    <3>2. w \in PrefetchWorks /\ w \notin EvictWorks /\ w \notin SideWorks
      BY <3>1 DEF PrefetchWorks, SideWorks, EvictWorks
    <3>. QED BY Zenon, <1>2, <1>8, <2>1, <3>1, <3>2
  <2>4. CASE t = "evict"
    <3>1. w \in EvictWorks /\ i = now /\ n = EvictSpot(w, e) /\ (w = "evict" => e) /\ (w = "enqueue" => pipeline)
      BY <1>5, <2>1, <2>4 DEF EvictWork
    <3>2. w \in PrefetchWorks /\ w \notin SideWorks /\ w # "copy" /\ w # "lookup"
      BY <3>1 DEF PrefetchWorks, SideWorks, EvictWorks
    <3>. QED BY <1>2, <1>8, <2>1, <3>1, <3>2
  <2>5. CASE t \notin {side, "copy", "evict"}
    <3>1. Len(W[t]) = 0
      BY <1>5, <2>5
    <3>. QED BY <2>1, <3>1
  <2>. QED BY <2>2, <2>3, <2>4, <2>5
<1>10. ASSUME NEW w \in PrefetchWorks, Exists(w, now)' PROVE \E n \in Nat : Gives(W, w, now, n)
  <2>0. w \in Works /\ (w = "lookup" => lk) /\ (w = "enqueue" => pipeline) /\ (w = "evict" => e)
    <3>1. w \in Works
      BY DEF PrefetchWorks, Works
    <3>. QED BY <1>2, <1>8, <1>10, <3>1
  <2>1. CASE w \in SideWorks
    <3>1. On(w) = side
      BY <2>1 DEF On
    <3>2. PICK n : n = Spot(w, lk)
      OBVIOUS
    <3>3. n \in 1..Len(W[side]) /\ W[side][n].work = w /\ W[side][n].i = now
      BY <1>5, <2>0, <2>1, <3>2 DEF SideWork
    <3>. QED BY <3>1, <3>3 DEF Gives
  <2>2. CASE w \in EvictWorks
    <3>1. On(w) = "evict"
      BY <2>2 DEF On, EvictWorks, SideWorks
    <3>2. PICK n : n = EvictSpot(w, e)
      OBVIOUS
    <3>3. n \in 1..Len(W["evict"]) /\ W["evict"][n].work = w /\ W["evict"][n].i = now
      BY <1>5, <2>0, <2>2, <3>2 DEF EvictWork
    <3>. QED BY <3>1, <3>3 DEF Gives
  <2>3. CASE w = "copy"
    <3>1. On(w) = "copy"
      BY <2>3 DEF On, SideWorks
    <3>2. 1 \in 1..Len(W["copy"]) /\ 1 \in Nat
      BY <1>5
    <3>. QED BY Zenon, <1>5, <2>3, <3>1, <3>2 DEF Gives
  <2>. QED BY <2>1, <2>2, <2>3 DEF PrefetchWorks
<1>11. ASSUME NEW t \in Streams, NEW n \in 1..Len(W[t]) PROVE ContentOf(t, W[t][n])'
  <2>1. PICK w : w = W[t][n].work
    OBVIOUS
  <2>2. /\ w \in PrefetchWorks /\ On(w) = t /\ W[t][n].i = now
        /\ w = "lookup" => W[t][n].k = now - 1
    <3>1. CASE t = side
      <4>1. /\ w \in SideWorks /\ W[side][n].i = now /\ n = Spot(w, lk) /\ (w = "lookup" => lk)
        BY Zenon, <1>5, <1>11, <2>1, <3>1 DEF SideWork
      <4>2. w = "lookup" => W[side][n].k = now - 1
        BY Zenon, <1>3, <1>4, <4>1 DEF Prefetched, Spot, Rank
      <4>. QED BY <3>1, <4>1, <4>2 DEF PrefetchWorks, On
    <3>2. CASE t = "copy"
      <4>1. w = "copy" /\ W[t][n].i = now
        BY <1>5, <1>11, <2>1, <3>2
      <4>. QED BY <3>2, <4>1 DEF PrefetchWorks, On, SideWorks
    <3>3. CASE t = "evict"
      <4>1. w \in EvictWorks /\ W[t][n].i = now
        BY <1>5, <1>11, <2>1, <3>3 DEF EvictWork
      <4>. QED BY <3>3, <4>1 DEF PrefetchWorks, On, SideWorks, EvictWorks
    <3>4. CASE t \notin {side, "copy", "evict"}
      <4>1. Len(W[t]) = 0
        BY <1>5, <3>4
      <4>. QED BY <1>11, <4>1
    <3>. QED BY <3>1, <3>2, <3>3, <3>4
  <2>3. w \in Works /\ w # "unlock" /\ w # "backward" /\ w # "flush"
    BY <2>2 DEF PrefetchWorks, Works, SideWorks, EvictWorks
  <2>4. Gives(W, w, now, n)
    BY <2>1, <2>2, <1>11 DEF Gives
  <2>5. Exists(w, now)'
    BY <1>9, <2>3, <2>4
  <2>6. now < Turn(w)' /\ On(w)' = t
    <3>1. On(w)' = On(w)
      BY <1>2 DEF On
    <3>. QED BY <1>2, <1>7, <2>2, <2>3, <3>1
  <2>. QED BY <1>2, <2>1, <2>2, <2>3, <2>5, <2>6 DEF ContentOf
<1>12. ASSUME NEW t \in Streams, NEW q \in Queue(t)
       PROVE  /\ ContentOf(t, Piece(t, q))' /\ Piece(t, q).work # "flush"
              /\ Piece(t, q).work \in Works /\ Piece(t, q).i \in Batches
              /\ Piece(t, q).work \in PrefetchWorks => Piece(t, q).i < now
  <2>1. ContentOf(t, Piece(t, q))
    BY <1>1 DEF Contents
  <2>2. Piece(t, q)' = Piece(t, q) /\ Piece(t, q) \in Pieces
    BY Zenon, <1>1, <1>3, Extend, QueueFacts
  <2>3. Piece(t, q).work # "flush"
    BY <1>2, <2>1 DEF ContentOf
  <2>4. PICK w \in Works, i \in Batches : w = Piece(t, q).work /\ i = Piece(t, q).i
    BY <2>1, <2>2, <2>3 DEF ContentOf, Pieces
  <2>5. /\ t = On(w) /\ i < Turn(w) /\ Exists(w, i)
        /\ w = "lookup" => Piece(t, q).k = i - 1
        /\ w = "unlock" => Piece(t, q).k = IF i = MaxBatches THEN 0 ELSE i + 1
        /\ w = "backward" => Piece(t, q).after = {}
    BY <2>1, <2>3, <2>4 DEF ContentOf
  <2>6. i < Turn(w)' /\ i < now /\ i # now
    <3>1. i \in Nat /\ Turn(w) \in Nat
      BY <1>7 DEF Batches
    <3>2. Turn(w) <= now
      BY <1>1, <1>2, <1>7 DEF Turn, HostOK
    <3>. QED BY <1>2, <1>7, <2>5, <3>1, <3>2
  <2>7. Exists(w, i)' /\ On(w)' = On(w)
    BY <1>2, <1>8, <2>5, <2>6 DEF On
  <2>8. ContentOf(t, Piece(t, q))'
    BY <2>2, <2>3, <2>4, <2>5, <2>6, <2>7 DEF ContentOf
  <2>. QED BY <2>3, <2>4, <2>6, <2>8
<1>13. Orderly(W)
  <2>1. \A w \in Works : Turn(w) <= Turn(w)'
    BY <1>2, <1>7
  <2>2. ASSUME NEW v \in Works, NEW w \in Works, NEW j \in Batches, NEW i \in Batches,
               First(v, j, w, i), j >= Turn(v)'
        PROVE  i >= Turn(w)'
    <3>1. j \in Nat /\ i \in Nat /\ Turn(v) \in Nat /\ Turn(w) \in Nat
      BY <1>7 DEF Batches
    <3>2. j >= Turn(v)
      BY <1>2, <1>7, <2>2, <3>1
    <3>3. i >= Turn(w)
      BY <2>2, <3>2 DEF Order, AllOrdered, Ordered
    <3>4. CASE w \notin PrefetchWorks
      BY <1>7, <3>3, <3>4
    <3>5. CASE w \in PrefetchWorks
      <4>1. i >= now
        BY <1>7, <3>3, <3>5
      <4>2. CASE v \in PrefetchWorks
        <5>1. j >= now + 1
          BY <1>7, <2>2, <4>2
        <5>2. v # "backward" /\ v # "sp_evict"
          BY <4>2 DEF PrefetchWorks, SideWorks, EvictWorks
        <5>3. j <= i
          BY <2>2, <3>1, <3>5, <5>2, FirstOfPrefetch
        <5>. QED BY <1>2, <1>7, <3>1, <3>5, <5>1, <5>3
      <4>3. CASE v \notin PrefetchWorks
        <5>1. v \notin SideWorks /\ v \notin EvictWorks /\ v # "copy"
          BY <4>3 DEF PrefetchWorks
        <5>2. v # "evict" /\ v # "enqueue" /\ v # "compact" /\ v # "get" /\ v # "fill" /\ v # "lookup"
          BY <5>1 DEF SideWorks, EvictWorks
        <5>3. (v = "backward" \/ v = "sp_evict") /\ j + Gap <= i
          BY Zenon, <2>2, <3>1, <3>5, <5>1, <5>2, FirstOfPrefetch
        <5>4. Turn(v) = nextB /\ nextB \in Nat /\ Gap \in Nat
          BY <1>1, <5>3 DEF Turn, HostOK, Gap
        <5>. QED BY <1>2, <1>7, <3>1, <3>2, <3>5, <5>3, <5>4
      <4>. QED BY <4>2, <4>3
    <3>. QED BY <3>4, <3>5
  <2>3. ASSUME NEW w \in Works, NEW i \in Batches
        PROVE  /\ i < Turn(w) => (Exists(w, i)' <=> Exists(w, i))
               /\ Turn(w) <= i /\ i < Turn(w)' /\ Exists(w, i)' => \E n \in Nat : Gives(W, w, i, n)
               /\ \A n : Gives(W, w, i, n) => Turn(w) <= i /\ i < Turn(w)'
               /\ \A m, n : Gives(W, w, i, m) /\ Gives(W, w, i, n) => m = n
    <3>1. i \in Nat /\ Turn(w) \in Nat /\ Turn(w) <= now
      <4>1. Turn(w) <= now
        BY <1>1, <1>2, <1>7 DEF Turn, HostOK
      <4>. QED BY <1>7, <4>1 DEF Batches
    <3>2. i < Turn(w) => (Exists(w, i)' <=> Exists(w, i))
      BY <1>2, <1>8, <3>1
    <3>3. Turn(w) <= i /\ i < Turn(w)' => i = now /\ w \in PrefetchWorks
      BY <1>2, <1>7, <3>1
    <3>4. Turn(w) <= i /\ i < Turn(w)' /\ Exists(w, i)' => \E n \in Nat : Gives(W, w, i, n)
      BY <1>10, <3>3
    <3>5. ASSUME NEW n, Gives(W, w, i, n) PROVE Turn(w) <= i /\ i < Turn(w)'
      <4>1. i = now /\ w \in PrefetchWorks
        BY <1>9, <3>5
      <4>. QED BY <1>2, <1>7, <4>1
    <3>6. ASSUME NEW m, NEW n, Gives(W, w, i, m), Gives(W, w, i, n) PROVE m = n
      <4>1. /\ w \in PrefetchWorks /\ (w \in SideWorks => m = Spot(w, lk))
            /\ (w \in EvictWorks => m = EvictSpot(w, e)) /\ (w = "copy" => m = 1)
        BY <1>9, <3>6
      <4>2. /\ (w \in SideWorks => n = Spot(w, lk))
            /\ (w \in EvictWorks => n = EvictSpot(w, e)) /\ (w = "copy" => n = 1)
        BY <1>9, <3>6
      <4>3. w \in SideWorks \/ w \in EvictWorks \/ w = "copy"
        BY <4>1 DEF PrefetchWorks
      <4>. QED BY Zenon, <4>1, <4>2, <4>3
    <3>. QED BY <3>2, <3>4, <3>5, <3>6
  <2>. QED BY <1>11, <1>12, <2>1, <2>2, <2>3 DEF Orderly
<1>14. AfterFirst(W)
  <2>0. /\ W[side][1].after = {<<"main", gate>>} /\ W[side][2].after = {event[EvictEvent(now)]}
        /\ lk => W[side][4].after = {<<"copy", End("copy") + 1>>, event["sp_idxq_insert"]}
        /\ W[side][Spot("get", lk)].after = {<<"copy", End("copy") + 1>>, event["sp_evict"]}
        /\ W["copy"][1].after = {<<side, End(side) + 2>>}
        /\ e => W["evict"][1].after = {<<side, End(side) + Spot("get", lk)>>}
        /\ W["evict"][EvictSpot("spill", e)].after = {<<side, End(side) + Spot("fill", lk)>>}
        /\ lk => <<side, End(side) + 4>> \in W["evict"][EvictSpot("enqueue", e)].after
    BY Zenon, <1>3, <1>4 DEF Prefetched
  <2> SUFFICES ASSUME NEW v \in Works, NEW w \in Works, NEW j \in Batches, NEW i \in Batches,
                      NEW n \in Nat, First(v, j, w, i), Gives(W, w, i, n)
      PROVE  /\ \A m \in Nat : Gives(W, v, j, m) =>
                   IF On(v) = On(w) THEN m < n
                   ELSE \E p \in W[On(w)][n].after : Covers(p, On(v), End(On(v)) + m)
             /\ \A q \in Queue(On(v)) : Is(On(v), q, v, j) /\ On(v) # On(w) =>
                   \E p \in W[On(w)][n].after : Covers(p, On(v), q)
    BY DEF AfterFirst
  <2>1. /\ i = now /\ w \in PrefetchWorks /\ j \in Nat /\ i \in Nat
        /\ w \in SideWorks => n = Spot(w, lk)
        /\ w \in EvictWorks => n = EvictSpot(w, e)
        /\ w = "copy" => n = 1
        /\ (w = "lookup" => lk) /\ (w = "enqueue" => pipeline) /\ (w = "evict" => e)
    BY <1>8, <1>9 DEF Batches
  <2>2. End(side) \in Nat /\ End("copy") \in Nat /\ End("evict") \in Nat /\ Gap \in Nat /\ Gap > 0
    BY <1>1, <1>6, QueueFacts DEF Gap
  <2>3. \/ v \in SideWorks /\ w \in SideWorks /\ (j < i \/ (j = i /\ Rank(v) < Rank(w)))
        \/ v \in EvictWorks /\ w \in EvictWorks /\ (j < i \/ (j = i /\ Rank(v) < Rank(w)))
        \/ v = "copy" /\ w = "copy" /\ j < i
        \/ v = "backward" /\ w = "populate" /\ j + Gap <= i
        \/ v = "evict" /\ w = "compact" /\ j < i /\ j % 2 = i % 2
        \/ v = "enqueue" /\ w = "lookup" /\ j < i
        \/ v = "sp_evict" /\ w = "get" /\ j + Gap <= i
        \/ v = "compact" /\ w = "copy" /\ j = i
        \/ v = "copy" /\ w = "lookup" /\ j = i
        \/ v = "copy" /\ w = "get" /\ j = i
        \/ v = "get" /\ w = "evict" /\ j = i
        \/ v = "fill" /\ w = "spill" /\ j = i
        \/ v = "lookup" /\ w = "enqueue" /\ j = i
    BY <2>1, FirstOfPrefetch
  <2>4. ASSUME NEW m \in Nat, Gives(W, v, j, m)
        PROVE  IF On(v) = On(w) THEN m < n
               ELSE \E p \in W[On(w)][n].after : Covers(p, On(v), End(On(v)) + m)
    <3>1. /\ j = now /\ v \in PrefetchWorks /\ Exists(v, now)'
          /\ v \in SideWorks => m = Spot(v, lk)
          /\ v \in EvictWorks => m = EvictSpot(v, e)
          /\ v = "copy" => m = 1
      BY <1>9, <2>4
    <3>2. (v = "lookup" => lk) /\ ~ (j < i) /\ ~ (j + Gap <= i)
      BY <1>2, <1>8, <2>1, <2>2, <3>1
    <3>3. CASE v \in SideWorks /\ w \in SideWorks /\ Rank(v) < Rank(w)
      <4>1. On(v) = side /\ On(w) = side /\ m < n
        BY <2>1, <3>1, <3>2, <3>3, Spots, StreamOf
      <4>. QED BY <4>1
    <3>4. CASE v \in EvictWorks /\ w \in EvictWorks /\ Rank(v) < Rank(w)
      <4>1. On(v) = "evict" /\ On(w) = "evict" /\ m < n
        BY <2>1, <3>1, <3>4, Spots, StreamOf
      <4>. QED BY <4>1
    <3>5. CASE v = "compact" /\ w = "copy"
      <4>1. On(v) = side /\ On(w) = "copy" /\ n = 1 /\ m = 2
        BY <2>1, <3>1, <3>5, Spots, StreamOf DEF SideWorks
      <4>2. Covers(<<side, End(side) + 2>>, side, End(side) + 2)
        BY <2>2, CoversIt
      <4>. QED BY <1>6, <2>0, <4>1, <4>2
    <3>6. CASE v = "copy" /\ (w = "lookup" \/ w = "get")
      <4>1. On(v) = "copy" /\ On(w) = side /\ m = 1
        BY <2>1, <3>1, <3>6, StreamOf
      <4>2. <<"copy", End("copy") + 1>> \in W[side][n].after
        <5>1. CASE w = "lookup"
          <6>1. lk /\ n = 4
            BY <2>1, <5>1, Spots DEF SideWorks
          <6>. QED BY Zenon, <2>0, <6>1
        <5>2. CASE w = "get"
          <6>1. n = Spot("get", lk)
            BY <2>1, <5>2 DEF SideWorks
          <6>. QED BY Zenon, <2>0, <6>1
        <5>. QED BY <3>6, <5>1, <5>2
      <4>3. Covers(<<"copy", End("copy") + 1>>, "copy", End("copy") + 1)
        BY <2>2, CoversIt
      <4>. QED BY <1>6, <4>1, <4>2, <4>3
    <3>7. CASE v = "get" /\ w = "evict"
      <4>1. On(v) = side /\ On(w) = "evict" /\ n = 1 /\ e /\ m = Spot("get", lk)
        BY Zenon, <2>1, <3>1, <3>7, Spots, StreamOf DEF SideWorks, EvictWorks
      <4>2. Covers(<<side, End(side) + m>>, side, End(side) + m)
        BY <2>2, CoversIt
      <4>. QED BY <1>6, <2>0, <4>1, <4>2
    <3>8. CASE v = "fill" /\ w = "spill"
      <4>1. On(v) = side /\ On(w) = "evict" /\ n = EvictSpot("spill", e) /\ m = Spot("fill", lk)
        BY <2>1, <3>1, <3>8, StreamOf DEF SideWorks, EvictWorks
      <4>2. Covers(<<side, End(side) + m>>, side, End(side) + m)
        BY <2>2, CoversIt
      <4>. QED BY <1>6, <2>0, <4>1, <4>2
    <3>9. CASE v = "lookup" /\ w = "enqueue"
      <4>1. On(v) = side /\ On(w) = "evict" /\ n = EvictSpot("enqueue", e) /\ m = 4 /\ lk
        BY Zenon, <2>1, <3>1, <3>2, <3>9, Spots, StreamOf DEF SideWorks, EvictWorks
      <4>2. Covers(<<side, End(side) + 4>>, side, End(side) + 4)
        BY <2>2, CoversIt
      <4>. QED BY <1>6, <2>0, <4>1, <4>2
    <3>. QED BY Zenon, <2>3, <3>2, <3>3, <3>4, <3>5, <3>6, <3>7, <3>8, <3>9
  <2>5. ASSUME NEW q \in Queue(On(v)), Is(On(v), q, v, j), On(v) # On(w)
        PROVE  \E p \in W[On(w)][n].after : Covers(p, On(v), q)
    <3>1. PICK t \in Streams : t = On(v)
      BY <1>7
    <3>2. v = Piece(t, q).work /\ j = Piece(t, q).i /\ q \in Queue(t)
      BY <2>5, <3>1 DEF Is
    <3>3. v \in PrefetchWorks => j < i
      BY Zenon, <1>12, <2>1, <3>1, <3>2
    <3>4. /\ "compact" \in PrefetchWorks /\ "copy" \in PrefetchWorks /\ "get" \in PrefetchWorks
          /\ "fill" \in PrefetchWorks /\ "lookup" \in PrefetchWorks
      BY DEF PrefetchWorks, SideWorks
    <3>5. v \in PrefetchWorks => j # i
      BY <2>1, <3>3
    <3>6. CASE v = "backward" /\ w = "populate"
      <4>1. t = "main" /\ On(w) = side /\ side = "prefetch" /\ n = 1
        BY <1>6, <2>1, <2>5, <3>1, <3>6, Spots, StreamOf DEF SideWorks
      <4>2. q <= gate
        BY Zenon, <3>2, <3>6, <4>1 DEF Order, Waits
      <4>3. Covers(<<"main", gate>>, "main", q)
        BY <4>2 DEF Covers
      <4>. QED BY <2>0, <3>1, <4>1, <4>3
    <3>7. CASE v = "evict" /\ w = "compact" /\ j % 2 = i % 2
      <4>1. t = "evict" /\ On(w) = side /\ n = 2
        BY <2>1, <3>1, <3>7, Spots, StreamOf DEF SideWorks
      <4>2. EvictEvent(j) = EvictEvent(now)
        BY <2>1, <3>7 DEF EvictEvent
      <4>3. Covers(event[EvictEvent(j)], "evict", q)
        BY Zenon, <3>2, <3>7, <4>1 DEF Order, Waits
      <4>. QED BY <2>0, <3>1, <4>1, <4>2, <4>3
    <3>8. CASE v = "enqueue" /\ w = "lookup"
      <4>1. t = "evict" /\ On(w) = side /\ n = 4 /\ lk
        BY Zenon, <2>1, <3>1, <3>8, Spots, StreamOf DEF SideWorks
      <4>2. Covers(event["sp_idxq_insert"], "evict", q)
        BY Zenon, <3>2, <3>8, <4>1 DEF Order, Waits
      <4>. QED BY <2>0, <3>1, <4>1, <4>2
    <3>9. CASE v = "sp_evict" /\ w = "get"
      <4>1. t = "evict" /\ On(w) = side /\ n = Spot("get", lk)
        BY <2>1, <3>1, <3>9, StreamOf DEF SideWorks
      <4>2. Covers(event["sp_evict"], "evict", q)
        BY <3>2, <3>9, <4>1 DEF Order, Waits
      <4>. QED BY <2>0, <3>1, <4>1, <4>2
    <3>10. /\ ~ (v \in SideWorks /\ w \in SideWorks) /\ ~ (v \in EvictWorks /\ w \in EvictWorks)
           /\ ~ (v = "copy" /\ w = "copy")
      BY <2>5, StreamOf
    <3>. QED BY Zenon, <2>3, <3>4, <3>5, <3>6, <3>7, <3>8, <3>9, <3>10
  <2>. QED BY <2>4, <2>5
<1>15. /\ StreamsOK' /\ Contents' /\ Unique' /\ AllOrdered'
       /\ \A w \in Works, i \in Batches :
             Pending(w, i)' <=> Pending(w, i) /\ ~ (Turn(w) <= i /\ i < Turn(w)' /\ ~ Exists(w, i)')
  BY Zenon, <1>2, <1>3, <1>13, <1>14, Grows
<1>16. ASSUME NEW t \in Streams, NEW q \in Queue(t)'
       PROVE  /\ q \in Nat /\ End(t) \in Nat
              /\ \/ q \in Queue(t) /\ Piece(t, q)' = Piece(t, q) /\ q <= End(t)
                 \/ \E n \in Nat : /\ n \in 1..Len(W[t]) /\ q = End(t) + n /\ Piece(t, q)' = W[t][n]
  BY Zenon, <1>1, <1>3, OldOrNew
<1>17. FlushLast'
  <2>1. Contents' /\ host' # "flush" => FlushLast'
    BY DEF Contents, FlushLast, ContentOf, Streams
  <2>. QED BY <1>2, <1>15, <2>1
<1>18. ASSUME NEW n \in 1..Len(W["main"]) PROVE W["main"][n].work # "backward"
  <2>1. SUFFICES ASSUME W["main"][n].work = "backward" PROVE FALSE
    OBVIOUS
  <2>2. "backward" \in Works /\ On("backward") = "main" /\ "backward" \notin PrefetchWorks
    BY StreamOf DEF PrefetchWorks, Works, MainWorks, SideWorks, EvictWorks
  <2>3. Gives(W, "backward", W["main"][n].i, n)
    BY <2>1, <2>2 DEF Gives
  <2>. QED BY <1>9, <2>2, <2>3
<1>19. UnlockBefore' /\ \A r \in Queue("main")' : Piece("main", r)'.work = "backward" =>
                           r \in Queue("main") /\ Piece("main", r)' = Piece("main", r)
  BY Zenon, <1>2, <1>3, <1>18, KeepsUnlock
<1>20. Waits'
  <2>1. side' = "prefetch" => \A r \in Queue("main")' : Piece("main", r)'.work = "backward" => r <= gate'
    BY <1>2, <1>19 DEF Order, Waits
  <2>2. ASSUME NEW q \in Queue("evict")', NEW p, p = Piece("evict", q)'
        PROVE  /\ p.work = "evict" => Covers(event'[EvictEvent(p.i)], "evict", q)
               /\ p.work = "enqueue" => Covers(event'["sp_idxq_insert"], "evict", q)
               /\ p.work = "sp_evict" => Covers(event'["sp_evict"], "evict", q)
    <3>1. q \in Nat /\ End("evict") \in Nat
      BY <1>6, <1>16
    <3>2. /\ event'["sp_evict"] = event["sp_evict"]
          /\ event'["sp_idxq_insert"] =
                IF pipeline THEN <<"evict", End("evict") + EvictSpot("enqueue", e)>>
                ELSE event["sp_idxq_insert"]
          /\ \A j \in Nat : event'[EvictEvent(j)] =
                IF j % 2 = now % 2 /\ e THEN <<"evict", End("evict") + 1>> ELSE event[EvictEvent(j)]
      BY Zenon, <1>3, <1>4 DEF Prefetched
    <3>3. CASE q \in Queue("evict") /\ p = Piece("evict", q) /\ q <= End("evict")
      <4>1. /\ p.work = "evict" => Covers(event[EvictEvent(p.i)], "evict", q)
            /\ p.work = "enqueue" => Covers(event["sp_idxq_insert"], "evict", q)
            /\ p.work = "sp_evict" => Covers(event["sp_evict"], "evict", q)
        BY <3>3 DEF Order, Waits
      <4>2. Covers(<<"evict", End("evict") + 1>>, "evict", q)
        BY <3>1, <3>3, CoversIt
      <4>3. Covers(<<"evict", End("evict") + EvictSpot("enqueue", e)>>, "evict", q)
        <5>1. PICK n \in Nat : n = EvictSpot("enqueue", e)
          BY Spots DEF EvictWorks
        <5>2. Covers(<<"evict", End("evict") + n>>, "evict", q)
          BY <3>1, <3>3, CoversIt
        <5>. QED BY <5>1, <5>2
      <4>4. p.i \in Nat
        BY <1>6, <1>12, <3>3 DEF Batches
      <4>. QED BY Zenon, <3>2, <4>1, <4>2, <4>3, <4>4
    <3>4. CASE \E n \in Nat : n \in 1..Len(W["evict"]) /\ q = End("evict") + n /\ p = W["evict"][n]
      <4>1. PICK n \in Nat : n \in 1..Len(W["evict"]) /\ q = End("evict") + n /\ p = W["evict"][n]
        BY <3>4
      <4>2. /\ p.work \in EvictWorks /\ p.i = now /\ n = EvictSpot(p.work, e)
            /\ p.work = "evict" => e
            /\ p.work = "enqueue" => pipeline
        BY <1>5, <4>1 DEF EvictWork
      <4>3. p.work # "sp_evict"
        BY <4>2 DEF EvictWorks
      <4>4. Covers(<<"evict", End("evict") + n>>, "evict", q)
        BY <3>1, <4>1, CoversIt
      <4>5. p.work = "evict" => event'[EvictEvent(p.i)] = <<"evict", End("evict") + n>>
        BY Zenon, <1>2, <3>2, <4>2, Spots
      <4>6. p.work = "enqueue" => event'["sp_idxq_insert"] = <<"evict", End("evict") + n>>
        BY <3>2, <4>2
      <4>. QED BY <4>3, <4>4, <4>5, <4>6
    <3>. QED BY <1>6, <1>16, <2>2, <3>3, <3>4
  <2>4. PICK t \in Streams : t = side /\ t = side'
    BY <1>2, <1>6
  <2>3. ASSUME NEW q \in Queue(t)', NEW p, p = Piece(t, q)', p.work = "fill" PROVE q <= ready'[p.i]
    <3>1. ready' = [ready EXCEPT ![now] = End(side) + Spot("fill", lk)] /\ ready \in [Batches -> Nat]
      BY <1>1, <1>3, <1>4 DEF Prefetched, HostOK
    <3>2. CASE q \in Queue(t) /\ p = Piece(t, q)
      <4>1. p.i \in Batches /\ p.i < now /\ p.i \in Nat
        BY <1>12, <2>3, <3>2 DEF PrefetchWorks, SideWorks, Batches
      <4>2. q <= ready[p.i]
        BY <2>3, <2>4, <3>2 DEF Order, Waits
      <4>. QED BY <1>2, <3>1, <4>1, <4>2
    <3>3. CASE \E n \in Nat : n \in 1..Len(W[t]) /\ q = End(t) + n /\ p = W[t][n]
      <4>1. PICK n \in Nat : n \in 1..Len(W[t]) /\ q = End(t) + n /\ p = W[t][n]
        BY <3>3
      <4>2. p.i = now /\ n = Spot("fill", lk)
        <5>1. SideWork(W[t], now, lk)
          BY <1>5, <2>4
        <5>2. W[t][n].work = "fill"
          BY <2>3, <4>1
        <5>3. p.i = W[t][n].i
          BY <4>1
        <5>. QED BY Zenon, <4>1, <5>1, <5>2, <5>3 DEF SideWork
      <4>3. End(side) \in Nat
        BY <1>16, <2>4
      <4>. QED BY <1>2, <2>4, <3>1, <4>1, <4>2, <4>3
    <3>. QED BY Zenon, <1>16, <2>3, <3>2, <3>3
  <2>5. \A q \in Queue(t)' : Piece(t, q)'.work = "fill" => q <= ready'[Piece(t, q)'.i]
    BY <2>3
  <2>6. \A q \in Queue(side)' : Piece(side, q)'.work = "fill" => q <= ready'[Piece(side, q)'.i]
    BY <2>4, <2>5
  <2>7. \A q \in Queue("evict")' :
          /\ Piece("evict", q)'.work = "evict" =>
                Covers(event'[EvictEvent(Piece("evict", q)'.i)], "evict", q)
          /\ Piece("evict", q)'.work = "enqueue" => Covers(event'["sp_idxq_insert"], "evict", q)
          /\ Piece("evict", q)'.work = "sp_evict" => Covers(event'["sp_evict"], "evict", q)
    BY <2>2
  <2>. QED BY <2>1, <2>6, <2>7 DEF Waits, Covers, EvictEvent
<1>21. \A w \in Works, i \in Batches :
           Pending(w, i)' <=> Pending(w, i) /\ ~ (i = now /\ w \in PrefetchWorks /\ ~ Exists(w, i)')
  <2> SUFFICES ASSUME NEW w \in Works, NEW i \in Batches
      PROVE Pending(w, i)' <=> Pending(w, i) /\ ~ (i = now /\ w \in PrefetchWorks /\ ~ Exists(w, i)')
    OBVIOUS
  <2>1. i \in Nat /\ (Turn(w) <= i /\ i < Turn(w)' <=> i = now /\ w \in PrefetchWorks)
    BY <1>2, <1>7 DEF Batches
  <2>. QED BY <1>15, <2>1
<1>. QED BY <1>2, <1>15, <1>17, <1>19, <1>20, <1>21 DEF Order

-----------------------------------------------------------------------------
(* The other steps of the host. *)
Adds(W) == todo' = [t \in Streams |-> todo[t] \o W[t]]

LEMMA AppendTo ==
    ASSUME StreamsOK, NEW s \in Streams, NEW p \in Pieces,
           todo' = [todo EXCEPT ![s] = Append(todo[s], p)]
    PROVE  \E W \in [Streams -> Seq(Pieces)] :
              /\ Adds(W) /\ Len(W[s]) = 1 /\ W[s][1] = p
              /\ \A t \in Streams \ {s} : Len(W[t]) = 0
<1>1. <<>> \in Seq(Pieces) /\ <<p>> \in Seq(Pieces) /\ Len(<<p>>) = 1 /\ <<p>>[1] = p /\ Len(<<>>) = 0
  BY Tuples
<1>2. PICK W : W = [t \in Streams |-> IF t = s THEN <<p>> ELSE <<>>]
  OBVIOUS
<1>3. W \in [Streams -> Seq(Pieces)]
  BY <1>1, <1>2
<1>4. ASSUME NEW t \in Streams PROVE todo'[t] = todo[t] \o W[t]
  <2>1. todo[t] \in Seq(Pieces) /\ todo[t] \o <<>> = todo[t]
    BY DEF StreamsOK
  <2>2. \A u \in Seq(Pieces) : Append(u, p) = u \o <<p>>
    BY <1>1
  <2>. QED BY <1>2, <2>1, <2>2 DEF StreamsOK
<1>5. DOMAIN todo' = Streams /\ todo' = [t \in DOMAIN todo' |-> todo'[t]]
  BY DEF StreamsOK
<1>6. Adds(W)
  BY Zenon, <1>4, <1>5 DEF Adds
<1>7. W[s] = <<p>> /\ \A t \in Streams \ {s} : W[t] = <<>>
  BY <1>2
<1>. QED BY <1>1, <1>3, <1>6, <1>7

\* What is queued already stays what it was.
LEMMA OldContents ==
    ASSUME Order, host # "flush", UNCHANGED <<pipeline, side, batch>>,
           \A w \in Works : Turn(w) <= Turn(w)' /\ Turn(w)' \in Nat, NEW t \in Streams, NEW q \in Queue(t),
           Piece(t, q)' = Piece(t, q)
    PROVE  /\ ContentOf(t, Piece(t, q))' /\ Piece(t, q).work \in Works /\ Piece(t, q).i \in Batches
           /\ t = On(Piece(t, q).work) /\ Piece(t, q).i < Turn(Piece(t, q).work)
<1>1. StreamsOK /\ HostOK /\ ContentOf(t, Piece(t, q)) /\ Piece(t, q) \in Pieces
  BY QueueFacts DEF Order, Contents
<1>2. SUFFICES ContentOf(t, Piece(t, q))' /\ Piece(t, q).work \in Works
  BY <1>1 DEF ContentOf
<1>3. PICK p \in Pieces : p = Piece(t, q)
  BY <1>1
<1>4. p.work # "flush" /\ p.work \in Works
  BY <1>1, <1>3 DEF ContentOf, Pieces
<1>5. On(p.work)' = On(p.work) /\ (Exists(p.work, p.i)' <=> Exists(p.work, p.i))
  BY DEF On, Exists
<1>6. p.i < Turn(p.work)'
  <2>1. p.i < Turn(p.work) /\ p.i \in Nat
    BY <1>1, <1>3, <1>4 DEF ContentOf, Batches
  <2>2. Turn(p.work) \in Nat /\ Turn(p.work)' \in Nat /\ Turn(p.work) <= Turn(p.work)'
    BY <1>1, <1>4, WorkFacts
  <2>. QED BY <2>1, <2>2
<1>7. /\ p.i \in Batches /\ t = On(p.work) /\ Exists(p.work, p.i)
      /\ p.work = "lookup" => p.k = p.i - 1
      /\ p.work = "unlock" => p.k = IF p.i = MaxBatches THEN 0 ELSE p.i + 1
      /\ p.work = "backward" => p.after = {}
  BY <1>1, <1>3, <1>4 DEF ContentOf
<1>8. Piece(t, q)' = p
  BY <1>3
<1>. QED BY <1>3, <1>4, <1>5, <1>6, <1>7, <1>8 DEF ContentOf

LEMMA FirstOfForward ==
    ASSUME NEW v \in Works, NEW j \in Nat, NEW i \in Nat, First(v, j, "forward", i)
    PROVE  (v \in MainWorks /\ j < i) \/ (v = "fill" /\ j = i)
<1>1. "forward" \notin SideWorks /\ "forward" \notin EvictWorks
  BY DEF SideWorks, EvictWorks
<1>2. InTurn(v, "forward") => v \in MainWorks
  BY <1>1 DEF InTurn
<1>3. v \in MainWorks => ~ (Rank(v) < Rank("forward"))
  BY DEF MainWorks, Rank
<1>4. \A a, b, c, d : <<a, b>> = <<c, d>> => a = c /\ b = d
  OBVIOUS
<1>5. <<v, "forward">> \notin {<<"compact", "copy">>, <<"copy", "lookup">>, <<"copy", "get">>, <<"get", "evict">>,
                    <<"fill", "spill">>, <<"lookup", "enqueue">>, <<"backward", "sp_evict">>}
  BY <1>4
<1>6. "forward" # IF pipeline THEN "unlock" ELSE "backward"
  OBVIOUS
<1>7. "forward" \in MainWorks
  BY DEF MainWorks
<1>. QED BY <1>2, <1>3, <1>5, <1>6, <1>7 DEF First

LEMMA ForwardOrder ==
    ASSUME Order, Forward, NEW now, now = nextF
    PROVE  /\ Order' /\ now \in Batches /\ now = nextB /\ now < nextP
           /\ \A w \in Works, i \in Batches : Pending(w, i)' <=> Pending(w, i)
<1>1. StreamsOK /\ HostOK /\ Contents
  BY DEF Order
<1>2. /\ now \in Nat /\ now = nextB /\ now < nextP /\ nextF' = now + 1 /\ host # "flush" /\ host' = "train"
      /\ UNCHANGED <<pipeline, side, nextP, nextB, lastFlush, pads, moves, gate, ready, event, ran, device>>
      /\ nextP \in Nat /\ side \in Streams /\ "main" \in Streams /\ "evict" \in Streams
  BY <1>1 DEF Forward, HostOK, Streams
<1>3. now \in Batches /\ HostOK'
  <2>1. now \in Batches
    BY <1>1, <1>2, SSDConstants DEF HostOK, Batches
  <2>2. batch' = batch /\ Gap' = Gap
    BY <1>2 DEF device, perBatch, Gap
  <2>. QED BY <1>1, <1>2, <2>1, <2>2 DEF HostOK
<1>4. PICK p \in Pieces : p = Work("forward", now, 0, {<<side, ready[now]>>})
  <2>1. ready[now] \in Nat
    BY <1>1, <1>3 DEF HostOK
  <2>2. {<<side, ready[now]>>} \in SUBSET (Streams \X Nat)
    BY <1>2, <2>1
  <2>3. "forward" \in Works \cup {"flush"}
    BY DEF Works, MainWorks
  <2>. QED BY <1>2, <2>2, <2>3 DEF Pieces, Work
<1>5. p.work = "forward" /\ p.i = now /\ p.k = 0 /\ p.after = {<<side, ready[now]>>}
  BY <1>4 DEF Work
<1>6. PICK W \in [Streams -> Seq(Pieces)] :
          /\ todo' = [t \in Streams |-> todo[t] \o W[t]]
          /\ Len(W["main"]) = 1 /\ W["main"][1] = p
          /\ \A t \in Streams \ {"main"} : Len(W[t]) = 0
  <2>1. todo' = [todo EXCEPT !["main"] = Append(todo["main"], p)]
    BY <1>4 DEF Forward
  <2>2. "main" \in Streams /\ p \in Pieces /\ StreamsOK
    BY <1>1, <1>2
  <2>3. PICK W \in [Streams -> Seq(Pieces)] :
            /\ Adds(W) /\ Len(W["main"]) = 1 /\ W["main"][1] = p
            /\ \A t \in Streams \ {"main"} : Len(W[t]) = 0
    BY Zenon, <2>1, <2>2, AppendTo
  <2>. QED BY Zenon, <2>3 DEF Adds
<1>7. ASSUME NEW w \in Works
      PROVE  /\ Turn(w) \in Nat /\ Turn(w)' \in Nat /\ On(w) \in Streams /\ w # "flush"
             /\ Turn(w)' = IF w = "forward" THEN now + 1 ELSE Turn(w)
             /\ Turn(w) <= Turn(w)'
             /\ \A i : Exists(w, i)' <=> Exists(w, i)
  <2>1. Turn(w) \in Nat /\ On(w) \in Streams /\ w # "flush"
    BY <1>1, WorkFacts
  <2>2. \A i : Exists(w, i)' <=> Exists(w, i)
    BY <1>2 DEF Exists, device, perBatch
  <2>3. Turn(w)' = IF w = "forward" THEN now + 1 ELSE Turn(w)
    BY <1>2 DEF Turn
  <2>4. w = "forward" => Turn(w) = now
    BY <1>2 DEF Turn
  <2>5. PICK m \in Nat : m = Turn(w)
    BY <2>1
  <2>6. Turn(w)' \in Nat /\ Turn(w) <= Turn(w)'
    BY <1>2, <2>3, <2>4, <2>5
  <2>. QED BY <2>1, <2>2, <2>3, <2>6
<1>8. ASSUME NEW w \in Works, NEW i, NEW n, Gives(W, w, i, n) PROVE w = "forward" /\ i = now /\ n = 1
  <2>1. PICK t \in Streams : t = On(w) /\ n \in 1..Len(W[t]) /\ W[t][n].work = w /\ W[t][n].i = i
    BY <1>7, <1>8 DEF Gives
  <2>2. t = "main"
    <3>1. SUFFICES ASSUME t # "main" PROVE FALSE
      OBVIOUS
    <3>. QED BY <1>6, <2>1, <3>1
  <2>. QED BY <1>5, <1>6, <2>1, <2>2
<1>9. "forward" \in Works /\ On("forward") = "main" /\ Exists("forward", now)'
  BY StreamOf DEF Works, MainWorks, Exists
<1>10. \A t \in Streams : \A q \in Queue(t) :
          /\ ContentOf(t, Piece(t, q))' /\ Piece(t, q)' = Piece(t, q)
          /\ Piece(t, q).work \in Works /\ Piece(t, q).i \in Batches
          /\ t = On(Piece(t, q).work) /\ Piece(t, q).i < Turn(Piece(t, q).work)
  <2>1. UNCHANGED <<pipeline, side, batch>>
    BY <1>2 DEF device, perBatch
  <2>2. \A w \in Works : Turn(w) <= Turn(w)' /\ Turn(w)' \in Nat
    BY <1>7
  <2> SUFFICES ASSUME NEW t \in Streams, NEW q \in Queue(t)
      PROVE  /\ ContentOf(t, Piece(t, q))' /\ Piece(t, q)' = Piece(t, q)
             /\ Piece(t, q).work \in Works /\ Piece(t, q).i \in Batches
             /\ t = On(Piece(t, q).work) /\ Piece(t, q).i < Turn(Piece(t, q).work)
    OBVIOUS
  <2>3. Piece(t, q)' = Piece(t, q)
    BY Zenon, <1>1, <1>2, <1>6, Extend
  <2>. QED BY <1>2, <2>1, <2>2, <2>3, OldContents
<1>11. Orderly(W)
  <2>1. \A w \in Works : Turn(w) <= Turn(w)'
    BY <1>7
  <2>2. ASSUME NEW t \in Streams, NEW n \in 1..Len(W[t]) PROVE ContentOf(t, W[t][n])'
    <3>1. t = "main" /\ n = 1
      BY <1>6
    <3>2. On("forward")' = "main" /\ Turn("forward")' = now + 1
      BY <1>2 DEF On, SideWorks, EvictWorks, Turn
    <3>. QED BY <1>2, <1>3, <1>5, <1>6, <1>9, <3>1, <3>2 DEF ContentOf
  <2>3. ASSUME NEW v \in Works, NEW w \in Works, NEW j \in Batches, NEW i \in Batches,
               First(v, j, w, i), j >= Turn(v)'
        PROVE  i >= Turn(w)'
    <3>1. j \in Nat /\ i \in Nat /\ Turn(v) \in Nat /\ Turn(w) \in Nat
      BY <1>7 DEF Batches
    <3>2. j >= Turn(v)
      <4>1. Turn(v) <= Turn(v)' /\ Turn(v)' \in Nat
        BY <1>7, <2>1
      <4>. QED BY <2>3, <3>1, <4>1
    <3>3. i >= Turn(w)
      BY <2>3, <3>2 DEF Order, AllOrdered, Ordered
    <3>4. CASE w # "forward"
      BY <1>7, <3>3, <3>4
    <3>5. CASE w = "forward"
      <4>1. i >= now /\ Turn(w)' = now + 1
        BY <1>2, <1>7, <3>3, <3>5 DEF Turn
      <4>2. SUFFICES ASSUME i = now PROVE FALSE
        BY <1>2, <3>1, <4>1
      <4>3. (v \in MainWorks /\ j < now) \/ (v = "fill" /\ j = now)
        BY <2>3, <3>1, <3>5, <4>2, FirstOfForward
      <4>4. CASE v \in MainWorks /\ j < now
        <5>1. Turn(v) = now
          BY <1>2, <4>4 DEF Turn, MainWorks
        <5>. QED BY <1>2, <3>1, <3>2, <4>4, <5>1
      <4>5. CASE v = "fill" /\ j = now
        <5>1. Turn(v) = nextP
          BY <4>5 DEF Turn
        <5>. QED BY <1>2, <3>1, <3>2, <4>5, <5>1
      <4>. QED BY <4>3, <4>4, <4>5
    <3>. QED BY <3>4, <3>5
  <2>4. ASSUME NEW w \in Works, NEW i \in Batches
        PROVE  /\ i < Turn(w) => (Exists(w, i)' <=> Exists(w, i))
               /\ Turn(w) <= i /\ i < Turn(w)' /\ Exists(w, i)' => \E n \in Nat : Gives(W, w, i, n)
               /\ \A n : Gives(W, w, i, n) => Turn(w) <= i /\ i < Turn(w)'
               /\ \A m, n : Gives(W, w, i, m) /\ Gives(W, w, i, n) => m = n
    <3>1. i \in Nat /\ Turn(w) \in Nat /\ (Exists(w, i)' <=> Exists(w, i))
      BY <1>7 DEF Batches
    <3>2. ASSUME Turn(w) <= i, i < Turn(w)' PROVE \E n \in Nat : Gives(W, w, i, n)
      <4>1. w = "forward" /\ i = now
        <5>1. Turn("forward") = now
          BY DEF Turn
        <5>. QED BY <1>2, <1>7, <3>1, <3>2, <5>1
      <4>2. 1 \in 1..Len(W["main"])
        BY <1>6
      <4>3. Gives(W, w, i, 1)
        BY <1>5, <1>6, <1>9, <4>1, <4>2 DEF Gives
      <4>. QED BY <4>3
    <3>3. ASSUME NEW n, Gives(W, w, i, n) PROVE Turn(w) <= i /\ i < Turn(w)'
      <4>1. w = "forward" /\ i = now
        BY <1>8, <3>3
      <4>. QED BY <1>2, <4>1 DEF Turn
    <3>4. ASSUME NEW m, NEW n, Gives(W, w, i, m), Gives(W, w, i, n) PROVE m = n
      <4>1. m = 1
        BY <1>8, <3>4
      <4>2. n = 1
        BY <1>8, <3>4
      <4>. QED BY <4>1, <4>2
    <3>. QED BY <3>1, <3>2, <3>3, <3>4
  <2>. QED BY <1>10, <2>1, <2>2, <2>3, <2>4 DEF Orderly
<1>12. AfterFirst(W)
  <2> SUFFICES ASSUME NEW v \in Works, NEW w \in Works, NEW j \in Batches, NEW i \in Batches,
                      NEW n \in Nat, First(v, j, w, i), Gives(W, w, i, n)
      PROVE  /\ \A m \in Nat : Gives(W, v, j, m) =>
                   IF On(v) = On(w) THEN m < n
                   ELSE \E p1 \in W[On(w)][n].after : Covers(p1, On(v), End(On(v)) + m)
             /\ \A q \in Queue(On(v)) : Is(On(v), q, v, j) /\ On(v) # On(w) =>
                   \E p1 \in W[On(w)][n].after : Covers(p1, On(v), q)
    BY DEF AfterFirst
  <2>1. w = "forward" /\ i = now /\ n = 1 /\ On(w) = "main" /\ j \in Nat
    BY <1>8, <1>9 DEF Batches
  <2>2. (v \in MainWorks /\ j < now) \/ (v = "fill" /\ j = now)
    BY <1>2, <2>1, FirstOfForward
  <2>3. ASSUME NEW m \in Nat, Gives(W, v, j, m) PROVE FALSE
    <3>1. v = "forward" /\ j = now
      BY <1>8, <2>3
    <3>. QED BY <1>2, <2>2, <3>1
  <2>4. ASSUME NEW q \in Queue(On(v)), Is(On(v), q, v, j), On(v) # On(w)
        PROVE  \E p1 \in W[On(w)][n].after : Covers(p1, On(v), q)
    <3>1. v = "fill" /\ j = now
      BY <2>1, <2>2, <2>4, StreamOf
    <3>2. PICK t \in Streams : t = side /\ t = On(v)
      BY <1>2, <3>1, StreamOf
    <3>3. q \in Queue(t) /\ Piece(t, q).work = "fill" /\ Piece(t, q).i = now
      BY <2>4, <3>1, <3>2 DEF Is
    <3>4. q <= ready[now]
      BY <3>2, <3>3 DEF Order, Waits
    <3>5. Covers(<<side, ready[now]>>, side, q)
      BY <3>4 DEF Covers
    <3>. QED BY Zenon, <1>5, <1>6, <2>1, <3>2, <3>5
  <2>. QED BY <2>3, <2>4
<1>13. /\ StreamsOK' /\ Contents' /\ Unique' /\ AllOrdered'
       /\ \A w \in Works, i \in Batches :
             Pending(w, i)' <=> Pending(w, i) /\ ~ (Turn(w) <= i /\ i < Turn(w)' /\ ~ Exists(w, i)')
  BY Zenon, <1>2, <1>3, <1>6, <1>11, <1>12, Grows
<1>14. FlushLast'
  <2>1. Contents' /\ host' # "flush" => FlushLast'
    BY DEF Contents, FlushLast, ContentOf, Streams
  <2>. QED BY <1>2, <1>13, <2>1
<1>15. UnlockBefore' /\ \A r \in Queue("main")' : Piece("main", r)'.work = "backward" =>
                           r \in Queue("main") /\ Piece("main", r)' = Piece("main", r)
  <2>1. \A n \in 1..Len(W["main"]) : W["main"][n].work # "backward"
    BY <1>5, <1>6
  <2>. QED BY Zenon, <1>2, <1>6, <2>1, KeepsUnlock
<1>16. Waits'
  <2>1. side' = "prefetch" => \A r \in Queue("main")' : Piece("main", r)'.work = "backward" => r <= gate'
    BY <1>2, <1>15 DEF Order, Waits
  <2>2. ASSUME NEW t \in Streams, NEW q \in Queue(t)', NEW w, Piece(t, q)'.work = w, w # "forward"
        PROVE  q \in Queue(t) /\ Piece(t, q)' = Piece(t, q)
    <3>0. \/ q \in Queue(t) /\ Piece(t, q)' = Piece(t, q)
          \/ \E n \in Nat : n \in 1..Len(W[t]) /\ Piece(t, q)' = W[t][n]
      BY Zenon, <1>1, <1>2, <1>6, OldOrNew
    <3>1. SUFFICES ASSUME NEW n \in Nat, n \in 1..Len(W[t]), W[t][n].work = w PROVE FALSE
      BY <2>2, <3>0
    <3>2. t = "main" /\ n = 1
      BY <1>6, <3>1
    <3>. QED BY <1>5, <1>6, <2>2, <3>1, <3>2
  <2>3. ASSUME NEW q \in Queue("evict")', NEW p1, p1 = Piece("evict", q)'
        PROVE  /\ p1.work = "evict" => Covers(event'[EvictEvent(p1.i)], "evict", q)
               /\ p1.work = "enqueue" => Covers(event'["sp_idxq_insert"], "evict", q)
               /\ p1.work = "sp_evict" => Covers(event'["sp_evict"], "evict", q)
    BY <1>2, <2>2, <2>3 DEF Order, Waits
  <2>4. PICK t \in Streams : t = side /\ t = side'
    BY <1>2
  <2>5. \A q \in Queue(t)' : Piece(t, q)'.work = "fill" => q <= ready'[Piece(t, q)'.i]
    BY Zenon, <1>2, <2>2, <2>4 DEF Order, Waits
  <2>6. \A q \in Queue(side)' : Piece(side, q)'.work = "fill" => q <= ready'[Piece(side, q)'.i]
    BY <2>4, <2>5
  <2>7. \A q \in Queue("evict")' :
          /\ Piece("evict", q)'.work = "evict" =>
                Covers(event'[EvictEvent(Piece("evict", q)'.i)], "evict", q)
          /\ Piece("evict", q)'.work = "enqueue" => Covers(event'["sp_idxq_insert"], "evict", q)
          /\ Piece("evict", q)'.work = "sp_evict" => Covers(event'["sp_evict"], "evict", q)
    BY <2>3
  <2>. QED BY <2>1, <2>6, <2>7 DEF Waits, Covers, EvictEvent
<1>17. ASSUME NEW w \in Works, NEW i \in Batches PROVE Pending(w, i)' <=> Pending(w, i)
  <2>1. Turn(w) <= i /\ i < Turn(w)' => w = "forward"
    <3>1. i \in Nat /\ Turn(w) \in Nat
      BY <1>7 DEF Batches
    <3>. QED BY <1>7, <3>1
  <2>2. Exists("forward", i)'
    BY DEF Exists
  <2>. QED BY <1>13, <2>1, <2>2
<1>. QED BY <1>2, <1>3, <1>13, <1>14, <1>15, <1>16, <1>17 DEF Order

LEMMA FirstOfTraining ==
    ASSUME NEW v \in Works, NEW w \in {"unlock", "backward", "sp_evict"}, NEW j \in Nat, NEW i \in Nat,
           First(v, j, w, i)
    PROVE  \/ v \in MainWorks /\ w \in MainWorks /\ (j < i \/ (j = i /\ Rank(v) < Rank(w)))
           \/ v = "sp_evict" /\ w = "sp_evict" /\ j < i
           \/ v \in EvictWorks /\ w = "sp_evict" /\ j < i + Gap
           \/ v = "fill" /\ w = (IF pipeline THEN "unlock" ELSE "backward") /\ j < i + Gap
           \/ v = "backward" /\ w = "sp_evict" /\ j = i
<1>1. w \notin SideWorks /\ w \notin EvictWorks /\ (w # "sp_evict" => w \in MainWorks)
  BY DEF SideWorks, EvictWorks, MainWorks
<1>2. InTurn(v, w) => v \in MainWorks /\ w \in MainWorks
  <2>1. {v, w} \subseteq MainWorks => v \in MainWorks /\ w \in MainWorks
    OBVIOUS
  <2>2. ~ ({v, w} \subseteq SideWorks) /\ ~ ({v, w} \subseteq EvictWorks)
    BY <1>1
  <2>. QED BY <2>1, <2>2 DEF InTurn
<1>3. \A a, b, c, d : <<a, b>> = <<c, d>> => a = c /\ b = d
  OBVIOUS
<1>4. <<v, w>> \in {<<"compact", "copy">>, <<"copy", "lookup">>, <<"copy", "get">>, <<"get", "evict">>,
                    <<"fill", "spill">>, <<"lookup", "enqueue">>, <<"backward", "sp_evict">>}
      => v = "backward" /\ w = "sp_evict"
  BY <1>3
<1>5. v = w => (v \in MainWorks /\ w \in MainWorks) \/ (v = "sp_evict" /\ w = "sp_evict")
  BY <1>1
<1>6. w \notin {"populate", "forward", "compact", "lookup", "get"}
  OBVIOUS
<1>. QED BY <1>2, <1>4, <1>5, <1>6 DEF First

\* What the backward of batch i queues on the streams; piece at of main is the backward itself.
Trains(W, i, at) ==
    /\ at = (IF pipeline THEN 2 ELSE 1) /\ Len(W["main"]) = at
    /\ W["main"][at].work = "backward" /\ W["main"][at].i = i /\ W["main"][at].after = {}
    /\ pipeline => /\ W["main"][1].work = "unlock" /\ W["main"][1].i = i
                   /\ W["main"][1].k = (IF i = MaxBatches THEN 0 ELSE i + 1)
                   /\ W["main"][1].after = {<<side, End(side)>>}
    /\ Len(W["evict"]) = IF batch[i] = {} THEN 0 ELSE 1
    /\ batch[i] # {} => /\ W["evict"][1].work = "sp_evict" /\ W["evict"][1].i = i
                        /\ W["evict"][1].after = {<<"main", End("main") + at>>}
    /\ \A t \in Streams \ {"main", "evict"} : Len(W[t]) = 0
    /\ event' = [event EXCEPT !["sp_evict"] =
                    IF batch[i] = {} THEN @ ELSE <<"evict", End("evict") + 1>>]
    /\ gate' = IF side = "prefetch" /\ batch[i] # {} THEN End("main") + at ELSE gate

LEMMA TrainsQueued ==
    ASSUME StreamsOK, HostOK, Backward
    PROVE  \E W \in [Streams -> Seq(Pieces)], at \in Nat : Adds(W) /\ Trains(W, nextB, at)
<1>1. PICK i \in Nat : i = nextB /\ i \in Batches
  <2>1. nextB \in Nat /\ nextB < nextF /\ nextF <= nextP /\ nextP <= MaxBatches + 1 /\ 1 <= nextB
        /\ nextF \in Nat /\ nextP \in Nat /\ MaxBatches \in Nat
    BY SSDConstants DEF Backward, HostOK
  <2>. QED BY <2>1 DEF Batches
<1>2. side \in Streams /\ "main" \in Streams /\ "evict" \in Streams /\ pipeline \in BOOLEAN
  BY DEF HostOK, Streams
<1>3. PICK k \in Nat : /\ k = (IF moves = <<>> THEN 0 ELSE Head(moves))
                       /\ pipeline => k = (IF i = MaxBatches THEN 0 ELSE i + 1)
  <2>1. moves = IF pipeline /\ nextP = i + 2 THEN <<i + 1>> ELSE <<>>
    BY <1>1 DEF HostOK
  <2>2. pipeline => nextP = i + 2 \/ i = MaxBatches
    BY <1>1 DEF Backward
  <2>3. nextP <= MaxBatches + 1 /\ nextP \in Nat /\ MaxBatches \in Nat
    BY SSDConstants DEF HostOK
  <2>4. CASE pipeline /\ nextP = i + 2
    <3>1. moves = <<i + 1>> /\ i # MaxBatches
      BY <1>1, <2>1, <2>3, <2>4
    <3>2. Head(<<i + 1>>) = i + 1 /\ <<i + 1>> # <<>> /\ i + 1 \in Nat
      OBVIOUS
    <3>. QED BY <3>1, <3>2
  <2>5. CASE pipeline /\ nextP # i + 2
    <3>1. moves = <<>> /\ i = MaxBatches
      BY <2>1, <2>2, <2>5
    <3>. QED BY <3>1
  <2>6. CASE ~ pipeline
    <3>1. moves = <<>>
      BY <2>1, <2>6
    <3>. QED BY <2>6, <3>1
  <2>. QED BY <2>4, <2>5, <2>6
<1>4. PICK at \in Nat : at = IF pipeline THEN 2 ELSE 1
  OBVIOUS
<1>5. End(side) \in Nat /\ End("main") \in Nat /\ End("evict") \in Nat /\ End("main") + at \in Nat
  BY <1>2, QueueFacts
<1>6. PICK u \in Pieces, b \in Pieces, v \in Pieces :
          /\ u = Work("unlock", i, k, {<<side, End(side)>>})
          /\ b = Work("backward", i, 0, {})
          /\ v = Work("sp_evict", i, 0, {<<"main", End("main") + at>>})
  <2>1. {"unlock", "backward", "sp_evict"} \subseteq Works \cup {"flush"}
    BY DEF Works, MainWorks
  <2>2. /\ {<<side, End(side)>>} \in SUBSET (Streams \X Nat) /\ {} \in SUBSET (Streams \X Nat)
        /\ {<<"main", End("main") + at>>} \in SUBSET (Streams \X Nat)
    BY <1>2, <1>5
  <2>3. Work("unlock", i, k, {<<side, End(side)>>}) \in Pieces
    BY <2>1, <2>2 DEF Work, Pieces
  <2>4. Work("backward", i, 0, {}) \in Pieces
    BY <2>1, <2>2 DEF Work, Pieces
  <2>5. Work("sp_evict", i, 0, {<<"main", End("main") + at>>}) \in Pieces
    BY <2>1, <2>2 DEF Work, Pieces
  <2>. QED BY <2>3, <2>4, <2>5
<1>7. /\ u.work = "unlock" /\ u.i = i /\ u.k = k /\ u.after = {<<side, End(side)>>}
      /\ b.work = "backward" /\ b.i = i /\ b.after = {}
      /\ v.work = "sp_evict" /\ v.i = i /\ v.after = {<<"main", End("main") + at>>}
  BY <1>6 DEF Work
<1>8. PICK before \in Seq(Pieces) : before = IF ~ pipeline THEN <<>> ELSE <<u>>
  BY Zenon, Tuples
<1>9. Len(before) + 1 = at
  BY <1>2, <1>4, <1>8, Tuples
<1>10. PICK c \in Seq(Pieces) : c = <<b>> /\ Len(c) = 1 /\ c[1] = b
  BY Zenon, Tuples
<1>11. PICK new \in Seq(Pieces) :
           /\ new = before \o c /\ Len(new) = at /\ new[at] = b /\ (pipeline => new[1] = u)
  <2>1. /\ before \o c \in Seq(Pieces) /\ Len(before \o c) = Len(before) + 1 /\ Len(before) \in Nat
        /\ (before \o c)[Len(before) + 1] = c[1]
        /\ Len(before) >= 1 => (before \o c)[1] = before[1]
    BY <1>10
  <2>2. pipeline => Len(before) = 1 /\ before[1] = u
    BY <1>4, <1>8, <1>9
  <2>3. PICK new \in Seq(Pieces) : new = before \o c
    BY <2>1
  <2>4. Len(new) = at /\ new[at] = b
    BY <1>9, <1>10, <2>1, <2>3
  <2>5. pipeline => new[1] = u
    BY <2>1, <2>2, <2>3
  <2>. QED BY <2>3, <2>4, <2>5
<1>12. PICK last : last = IF batch[i] = {} THEN <<>> ELSE <<v>>
  OBVIOUS
<1>13. /\ last \in Seq(Pieces) /\ Len(last) = (IF batch[i] = {} THEN 0 ELSE 1)
       /\ batch[i] # {} => last[1] = v
  <2>1. PICK any \in BOOLEAN : any = (batch[i] # {})
    OBVIOUS
  <2>2. last = IF any THEN <<v>> ELSE <<>>
    BY <1>12, <2>1
  <2>. QED BY <2>1, <2>2, OneIf
<1>14. PICK W : W = [t \in Streams |-> IF t = "main" THEN new ELSE IF t = "evict" THEN last ELSE <<>>]
  OBVIOUS
<1>15. /\ W \in [Streams -> Seq(Pieces)] /\ W["main"] = new /\ W["evict"] = last
       /\ \A t \in Streams \ {"main", "evict"} : W[t] = <<>> /\ Len(W[t]) = 0
  BY Zenon, <1>2, <1>11, <1>13, <1>14, Tuples
<1>16. /\ todo' = [todo EXCEPT
                    !["main"] = todo["main"] \o before \o <<b>>,
                    !["evict"] = IF batch[i] = {} THEN todo["evict"] ELSE Append(todo["evict"], v)]
       /\ event' = [event EXCEPT !["sp_evict"] =
                       IF batch[i] = {} THEN @ ELSE <<"evict", End("evict") + 1>>]
       /\ gate' = IF side = "prefetch" /\ batch[i] # {} THEN End("main") + at ELSE gate
  <2>1. End("main") + Len(before) + 1 = End("main") + at
    BY <1>5, <1>9
  <2>. QED BY Zenon, <1>1, <1>3, <1>6, <1>8, <2>1 DEF Backward
<1>17. ASSUME NEW t \in Streams PROVE todo'[t] = todo[t] \o W[t]
  <2>1. todo[t] \in Seq(Pieces) /\ todo[t] \o <<>> = todo[t]
    BY DEF StreamsOK
  <2>2. CASE t = "main"
    <3>1. todo'[t] = todo[t] \o before \o <<b>>
      BY Zenon, <1>2, <1>16, <2>2 DEF StreamsOK
    <3>2. PICK x \in Seq(Pieces) : x = todo[t]
      BY <2>1
    <3>3. (x \o before) \o c = x \o (before \o c)
      BY ConcatAssociative
    <3>. QED BY Zenon, <1>10, <1>11, <1>15, <2>2, <3>1, <3>2, <3>3
  <2>3. CASE t = "evict"
    <3>1. todo'[t] = IF batch[i] = {} THEN todo[t] ELSE Append(todo[t], v)
      BY <1>2, <1>16, <2>3 DEF StreamsOK
    <3>2. Append(todo[t], v) = todo[t] \o <<v>>
      BY <2>1, AppendIsConcat
    <3>. QED BY Zenon, <1>12, <1>15, <2>1, <2>3, <3>1, <3>2
  <2>4. CASE t \notin {"main", "evict"}
    <3>1. todo'[t] = todo[t]
      BY <1>16, <2>4 DEF StreamsOK
    <3>. QED BY <1>15, <2>1, <2>4, <3>1
  <2>. QED BY Zenon, <2>2, <2>3, <2>4
<1>18. Adds(W)
  <2>1. DOMAIN todo' = Streams /\ todo' = [t \in DOMAIN todo' |-> todo'[t]]
    BY Zenon, <1>16 DEF StreamsOK
  <2>. QED BY Zenon, <1>17, <2>1 DEF Adds
<1>19. Trains(W, i, at)
  BY Zenon, <1>3, <1>4, <1>7, <1>11, <1>13, <1>15, <1>16 DEF Trains
<1>. QED BY <1>1, <1>15, <1>18, <1>19

LEMMA BackwardHost ==
    ASSUME StreamsOK, HostOK, Backward
    PROVE  /\ HostOK' /\ nextB \in Batches /\ nextB \in Nat /\ nextB' = nextB + 1 /\ nextF = nextB + 1
           /\ host # "flush" /\ host' = "train" /\ nextB < nextP /\ nextP \in Nat
           /\ \A j \in Batches : j < nextB + Gap => j < nextP
           /\ pipeline => batch[nextB] # {}
           /\ UNCHANGED <<pipeline, side, nextP, nextF, lastFlush, pads, ready, ran, device>>
<1>1. /\ nextB \in Nat /\ nextF \in Nat /\ nextP \in Nat /\ nextB' = nextB + 1 /\ nextF = nextB + 1
      /\ nextB < nextP /\ 1 <= nextB /\ nextP <= MaxBatches + 1 /\ MaxBatches \in Nat
      /\ host # "flush" /\ host' = "train"
      /\ UNCHANGED <<pipeline, side, nextP, nextF, lastFlush, pads, ready, ran, device>>
      /\ pipeline => nextP = nextB + 2 \/ nextB = MaxBatches
  BY SSDConstants DEF Backward, HostOK
<1>2. nextB \in Batches
  BY <1>1 DEF Batches
<1>3. \A j \in Batches : j < nextB + Gap => j < nextP
  <2> SUFFICES ASSUME NEW j \in Batches, j < nextB + Gap PROVE j < nextP
    OBVIOUS
  <2>1. j \in Nat /\ j <= MaxBatches
    BY <1>1 DEF Batches
  <2>2. CASE pipeline
    <3>1. j < nextB + 2
      BY <2>2 DEF Gap
    <3>. QED BY <1>1, <2>1, <2>2, <3>1
  <2>3. CASE ~ pipeline
    <3>1. j < nextB + 1
      BY <2>3 DEF Gap
    <3>. QED BY <1>1, <2>1, <3>1
  <2>. QED BY <2>2, <2>3
<1>4. pipeline => batch[nextB] # {}
  <2>1. ~ (nextB >= nextP)
    BY <1>1
  <2>. QED BY <1>2, <2>1 DEF HostOK
<1>5. gate' \in Nat /\ event' \in [Events -> Streams \X Nat]
  <2>1. PICK W \in [Streams -> Seq(Pieces)], at \in Nat : Trains(W, nextB, at)
    BY TrainsQueued
  <2>2. "main" \in Streams /\ "evict" \in Streams
    BY DEF Streams
  <2>3. End("main") \in Nat /\ End("evict") \in Nat
    BY <2>2, QueueFacts
  <2>4. <<"evict", End("evict") + 1>> \in Streams \X Nat
    BY <2>2, <2>3
  <2>5. gate' \in Nat
    BY <2>1, <2>3 DEF Trains, HostOK
  <2>6. event' \in [Events -> Streams \X Nat]
    BY Zenon, <2>1, <2>4 DEF Trains, HostOK
  <2>. QED BY <2>5, <2>6
<1>6. moves' = <<>> /\ ~ (pipeline /\ nextP = nextB' + 2)
  <2>1. moves = IF pipeline /\ nextP = nextB + 2 THEN <<nextB + 1>> ELSE <<>>
    BY DEF HostOK
  <2>2. moves' = IF pipeline /\ moves # <<>> THEN Tail(moves) ELSE moves
    BY DEF Backward
  <2>3. Tail(<<nextB + 1>>) = <<>>
    OBVIOUS
  <2>4. nextP <= nextB + 2
    BY <1>1 DEF HostOK, Gap
  <2>5. moves' = <<>>
    BY <2>1, <2>2, <2>3
  <2>. QED BY <1>1, <2>4, <2>5
<1>7. HostOK'
  <2>1. batch' = batch /\ Gap' = Gap /\ Gap \in Nat
    BY <1>1 DEF device, perBatch, Gap
  <2>2. nextP' <= nextB' + Gap'
    BY <1>1, <2>1 DEF HostOK
  <2>3. pipeline' /\ 1 < nextB' /\ nextB' <= MaxBatches => nextB' < nextP'
    BY <1>1
  <2>4. moves' = IF pipeline' /\ nextP' = nextB' + 2 THEN <<nextB' + 1>> ELSE <<>>
    BY <1>1, <1>6
  <2>5. nextB' \in Nat /\ 1 <= nextB' /\ nextB' <= nextF' /\ nextF' <= nextB' + 1
    BY <1>1
  <2>6. pads' = IF pipeline' /\ nextP' > 1 THEN <<nextP' - 1>> ELSE <<>>
    BY <1>1 DEF HostOK
  <2>. QED BY <1>1, <1>5, <2>1, <2>2, <2>3, <2>4, <2>5, <2>6 DEF HostOK
<1>. QED BY <1>1, <1>2, <1>3, <1>4, <1>7

TrainingWorks == {"unlock", "backward", "sp_evict"}

LEMMA BackwardOrder ==
    ASSUME Order, Backward, NEW now, now = nextB
    PROVE  /\ Order' /\ now \in Batches /\ nextB' = now + 1
           /\ UNCHANGED <<pipeline, side, nextP, nextF, device>>
           /\ \A w \in Works, i \in Batches :
                 Pending(w, i)' <=> Pending(w, i) /\ ~ (i = now /\ w \in TrainingWorks /\ ~ Exists(w, i))
<1>1. StreamsOK /\ HostOK /\ Contents
  BY DEF Order
<1>2. /\ HostOK' /\ now \in Batches /\ now \in Nat /\ nextB' = now + 1 /\ nextF = now + 1 /\ nextB = now
      /\ host # "flush" /\ host' = "train" /\ now < nextP /\ nextP \in Nat
      /\ \A j \in Batches : j < now + Gap => j < nextP
      /\ pipeline => batch[now] # {}
      /\ UNCHANGED <<pipeline, side, nextP, nextF, ready, ran, device>> /\ UNCHANGED batch
  BY <1>1, BackwardHost DEF device, perBatch
<1>3. PICK W \in [Streams -> Seq(Pieces)], at \in Nat :
          Adds(W) /\ todo' = [t \in Streams |-> todo[t] \o W[t]] /\ Trains(W, now, at)
  BY Zenon, <1>1, <1>2, TrainsQueued DEF Adds
<1>4. /\ at = (IF pipeline THEN 2 ELSE 1) /\ Len(W["main"]) = at
      /\ W["main"][at].work = "backward" /\ W["main"][at].i = now /\ W["main"][at].after = {}
      /\ pipeline => /\ W["main"][1].work = "unlock" /\ W["main"][1].i = now
                     /\ W["main"][1].k = (IF now = MaxBatches THEN 0 ELSE now + 1)
                     /\ W["main"][1].after = {<<side, End(side)>>}
      /\ Len(W["evict"]) = (IF batch[now] = {} THEN 0 ELSE 1)
      /\ batch[now] # {} => /\ W["evict"][1].work = "sp_evict" /\ W["evict"][1].i = now
                            /\ W["evict"][1].after = {<<"main", End("main") + at>>}
      /\ \A t \in Streams \ {"main", "evict"} : Len(W[t]) = 0
  BY <1>3 DEF Trains
<1>5. /\ side \in {"main", "prefetch"} /\ side \in Streams /\ "main" \in Streams /\ "evict" \in Streams
      /\ pipeline \in BOOLEAN /\ (side = "prefetch" => pipeline)
  BY <1>1 DEF HostOK, Streams
<1>6. \A t \in Streams : End(t) \in Nat /\ \A q \in Queue(t) : q \in Nat /\ q <= End(t)
  BY <1>1, QueueFacts
<1>7. ASSUME NEW w \in Works
      PROVE  /\ Turn(w) \in Nat /\ Turn(w)' \in Nat /\ On(w) \in Streams /\ w # "flush"
             /\ w \in TrainingWorks => Turn(w) = now /\ Turn(w)' = now + 1
             /\ w \notin TrainingWorks => Turn(w)' = Turn(w) /\ Turn(w) = (IF w = "forward" THEN now + 1 ELSE nextP)
             /\ \A i : Exists(w, i)' <=> Exists(w, i)
  <2>1. Turn(w) \in Nat /\ On(w) \in Streams /\ w # "flush"
    BY <1>1, WorkFacts
  <2>2. \A i : Exists(w, i)' <=> Exists(w, i)
    BY <1>2 DEF Exists
  <2>. QED BY <1>2, <2>1, <2>2 DEF Turn, TrainingWorks
<1>8. ASSUME NEW w \in Works, NEW i, NEW n, Gives(W, w, i, n)
      PROVE  /\ i = now /\ w \in TrainingWorks /\ Exists(w, now)
             /\ w = "unlock" => n = 1
             /\ w = "backward" => n = at
             /\ w = "sp_evict" => n = 1
  <2>1. PICK t \in Streams : t = On(w) /\ n \in 1..Len(W[t]) /\ W[t][n].work = w /\ W[t][n].i = i
    BY <1>7, <1>8 DEF Gives
  <2>2. CASE t = "main"
    <3>1. n = at \/ (n = 1 /\ pipeline)
      BY <1>4, <2>1, <2>2
    <3>2. CASE n = at
      BY <1>4, <2>1, <2>2, <3>2 DEF TrainingWorks, Exists
    <3>3. CASE n = 1 /\ pipeline
      BY <1>4, <2>1, <2>2, <3>3 DEF TrainingWorks, Exists
    <3>. QED BY <3>1, <3>2, <3>3
  <2>3. CASE t = "evict"
    <3>1. n = 1 /\ batch[now] # {}
      BY <1>4, <2>1, <2>3
    <3>. QED BY <1>4, <2>1, <2>3, <3>1 DEF TrainingWorks, Exists
  <2>4. CASE t \notin {"main", "evict"}
    <3>1. Len(W[t]) = 0
      BY <1>4, <2>4
    <3>. QED BY <2>1, <3>1
  <2>. QED BY <2>2, <2>3, <2>4
<1>9. ASSUME NEW w \in TrainingWorks, Exists(w, now) PROVE \E n \in Nat : Gives(W, w, now, n)
  <2>1. CASE w = "unlock"
    <3>1. pipeline /\ On(w) = "main" /\ 1 \in 1..Len(W["main"])
      BY <1>4, <1>9, <2>1, StreamOf DEF Exists
    <3>2. Gives(W, w, now, 1)
      BY <1>4, <2>1, <3>1 DEF Gives
    <3>. QED BY <3>2
  <2>2. CASE w = "backward"
    <3>1. On(w) = "main" /\ at \in 1..Len(W["main"])
      BY <1>4, <2>2, StreamOf
    <3>2. Gives(W, w, now, at)
      BY <1>4, <2>2, <3>1 DEF Gives
    <3>. QED BY <3>2
  <2>3. CASE w = "sp_evict"
    <3>1. On(w) = "evict" /\ batch[now] # {} /\ 1 \in 1..Len(W["evict"])
      BY <1>4, <1>9, <2>3, StreamOf DEF Exists
    <3>2. Gives(W, w, now, 1)
      BY <1>4, <2>3, <3>1 DEF Gives
    <3>. QED BY <3>2
  <2>. QED BY <2>1, <2>2, <2>3 DEF TrainingWorks
<1>10. \A w \in Works : Turn(w) <= Turn(w)'
  BY <1>2, <1>7
<1>11. \A t \in Streams : \A q \in Queue(t) :
          /\ ContentOf(t, Piece(t, q))' /\ Piece(t, q)' = Piece(t, q)
          /\ Piece(t, q).work \in Works /\ Piece(t, q).i \in Batches
          /\ t = On(Piece(t, q).work) /\ Piece(t, q).i < Turn(Piece(t, q).work)
  <2> SUFFICES ASSUME NEW t \in Streams, NEW q \in Queue(t)
      PROVE  /\ ContentOf(t, Piece(t, q))' /\ Piece(t, q)' = Piece(t, q)
             /\ Piece(t, q).work \in Works /\ Piece(t, q).i \in Batches
             /\ t = On(Piece(t, q).work) /\ Piece(t, q).i < Turn(Piece(t, q).work)
    OBVIOUS
  <2>1. Piece(t, q)' = Piece(t, q)
    BY Zenon, <1>1, <1>2, <1>3, Extend
  <2>2. \A w \in Works : Turn(w) <= Turn(w)' /\ Turn(w)' \in Nat
    BY <1>7, <1>10
  <2>. QED BY <1>2, <2>1, <2>2, OldContents
<1>12. Orderly(W)
  <2>1. ASSUME NEW t \in Streams, NEW n \in 1..Len(W[t]) PROVE ContentOf(t, W[t][n])'
    <3>1. PICK w : w = W[t][n].work
      OBVIOUS
    <3>2. CASE t = "main"
      <4>1. /\ w = "backward" \/ (w = "unlock" /\ pipeline /\ n = 1)
            /\ W[t][n].i = now
            /\ w = "backward" => W[t][n].after = {}
        BY <1>4, <2>1, <3>1, <3>2
      <4>2. w = "unlock" => W[t][n].k = IF now = MaxBatches THEN 0 ELSE now + 1
        BY <1>4, <3>1, <3>2, <4>1
      <4>3. On(w)' = "main" /\ Turn(w)' = now + 1 /\ Exists(w, now)'
        BY <1>2, <4>1 DEF On, Turn, Exists, SideWorks, EvictWorks
      <4>. QED BY <1>2, <3>1, <3>2, <4>1, <4>2, <4>3 DEF ContentOf
    <3>3. CASE t = "evict"
      <4>1. w = "sp_evict" /\ W[t][n].i = now /\ batch[now] # {}
        BY <1>4, <2>1, <3>1, <3>3
      <4>2. On(w)' = "evict" /\ Turn(w)' = now + 1 /\ Exists(w, now)'
        BY <1>2, <4>1 DEF On, Turn, Exists, SideWorks, EvictWorks
      <4>. QED BY <1>2, <3>1, <3>3, <4>1, <4>2 DEF ContentOf
    <3>4. CASE t \notin {"main", "evict"}
      <4>1. Len(W[t]) = 0
        BY <1>4, <3>4
      <4>. QED BY <2>1, <4>1
    <3>. QED BY <3>2, <3>3, <3>4
  <2>2. ASSUME NEW v \in Works, NEW w \in Works, NEW j \in Batches, NEW i \in Batches,
               First(v, j, w, i), j >= Turn(v)'
        PROVE  i >= Turn(w)'
    <3>1. j \in Nat /\ i \in Nat /\ Turn(v) \in Nat /\ Turn(w) \in Nat /\ Turn(v)' \in Nat
      BY <1>7 DEF Batches
    <3>2. j >= Turn(v)
      BY <1>10, <2>2, <3>1
    <3>3. i >= Turn(w)
      BY <2>2, <3>2 DEF Order, AllOrdered, Ordered
    <3>4. CASE w \notin TrainingWorks
      BY <1>7, <3>3, <3>4
    <3>5. CASE w \in TrainingWorks
      <4>1. i >= now /\ Turn(w)' = now + 1
        BY <1>7, <3>3, <3>5
      <4>2. SUFFICES ASSUME i = now PROVE FALSE
        BY <1>2, <3>1, <4>1
      <4>3. \/ v \in MainWorks /\ w \in MainWorks /\ (j < i \/ (j = i /\ Rank(v) < Rank(w)))
            \/ v = "sp_evict" /\ w = "sp_evict" /\ j < i
            \/ v \in EvictWorks /\ w = "sp_evict" /\ j < i + Gap
            \/ v = "fill" /\ w = (IF pipeline THEN "unlock" ELSE "backward") /\ j < i + Gap
            \/ v = "backward" /\ w = "sp_evict" /\ j = i
        BY <2>2, <3>1, <3>5, FirstOfTraining DEF TrainingWorks
      <4>4. CASE v \in MainWorks \/ v = "sp_evict"
        <5>1. Turn(v)' = now + 1
          BY <1>2, <1>7, <4>4 DEF MainWorks, TrainingWorks
        <5>2. j <= now
          BY <3>1, <4>2, <4>3, <4>4 DEF MainWorks, EvictWorks
        <5>. QED BY <1>2, <2>2, <3>1, <5>1, <5>2
      <4>5. CASE v \in EvictWorks \/ v = "fill"
        <5>1. v \notin TrainingWorks /\ v # "forward" /\ v \notin MainWorks /\ v # "sp_evict" /\ v # "backward"
          BY <4>5 DEF EvictWorks, TrainingWorks, MainWorks
        <5>2. Turn(v) = nextP
          BY <1>7, <5>1
        <5>3. j < now + Gap
          BY <4>2, <4>3, <5>1
        <5>. QED BY <1>2, <3>1, <3>2, <5>2, <5>3
      <4>. QED BY <4>3, <4>4, <4>5 DEF MainWorks
    <3>. QED BY <3>4, <3>5
  <2>3. ASSUME NEW w \in Works, NEW i \in Batches
        PROVE  /\ i < Turn(w) => (Exists(w, i)' <=> Exists(w, i))
               /\ Turn(w) <= i /\ i < Turn(w)' /\ Exists(w, i)' => \E n \in Nat : Gives(W, w, i, n)
               /\ \A n : Gives(W, w, i, n) => Turn(w) <= i /\ i < Turn(w)'
               /\ \A m, n : Gives(W, w, i, m) /\ Gives(W, w, i, n) => m = n
    <3>1. i \in Nat /\ Turn(w) \in Nat /\ (Exists(w, i)' <=> Exists(w, i))
      BY <1>7 DEF Batches
    <3>2. ASSUME Turn(w) <= i, i < Turn(w)', Exists(w, i)' PROVE \E n \in Nat : Gives(W, w, i, n)
      <4>1. w \in TrainingWorks /\ i = now
        BY <1>2, <1>7, <3>1, <3>2
      <4>. QED BY <1>9, <3>1, <3>2, <4>1
    <3>3. ASSUME NEW n, Gives(W, w, i, n) PROVE Turn(w) <= i /\ i < Turn(w)'
      <4>1. w \in TrainingWorks /\ i = now
        BY <1>8, <3>3
      <4>. QED BY <1>2, <1>7, <4>1
    <3>4. ASSUME NEW m, NEW n, Gives(W, w, i, m), Gives(W, w, i, n) PROVE m = n
      <4>1. /\ w \in TrainingWorks /\ (w = "unlock" => m = 1) /\ (w = "backward" => m = at)
            /\ (w = "sp_evict" => m = 1)
        BY <1>8, <3>4
      <4>2. (w = "unlock" => n = 1) /\ (w = "backward" => n = at) /\ (w = "sp_evict" => n = 1)
        BY <1>8, <3>4
      <4>. QED BY <4>1, <4>2 DEF TrainingWorks
    <3>. QED BY <3>1, <3>2, <3>3, <3>4
  <2>. QED BY <1>10, <1>11, <2>1, <2>2, <2>3 DEF Orderly
<1>13. AfterFirst(W)
  <2> SUFFICES ASSUME NEW v \in Works, NEW w \in Works, NEW j \in Batches, NEW i \in Batches,
                      NEW n \in Nat, First(v, j, w, i), Gives(W, w, i, n)
      PROVE  /\ \A m \in Nat : Gives(W, v, j, m) =>
                   IF On(v) = On(w) THEN m < n
                   ELSE \E p \in W[On(w)][n].after : Covers(p, On(v), End(On(v)) + m)
             /\ \A q \in Queue(On(v)) : Is(On(v), q, v, j) /\ On(v) # On(w) =>
                   \E p \in W[On(w)][n].after : Covers(p, On(v), q)
    BY DEF AfterFirst
  <2>1. /\ i = now /\ w \in TrainingWorks /\ j \in Nat /\ i \in Nat /\ Exists(w, now)
        /\ w = "unlock" => n = 1
        /\ w = "backward" => n = at
        /\ w = "sp_evict" => n = 1
    BY <1>2, <1>8 DEF Batches
  <2>2. \/ v \in MainWorks /\ w \in MainWorks /\ (j < i \/ (j = i /\ Rank(v) < Rank(w)))
        \/ v = "sp_evict" /\ w = "sp_evict" /\ j < i
        \/ v \in EvictWorks /\ w = "sp_evict" /\ j < i + Gap
        \/ v = "fill" /\ w = (IF pipeline THEN "unlock" ELSE "backward") /\ j < i + Gap
        \/ v = "backward" /\ w = "sp_evict" /\ j = i
    BY <2>1, FirstOfTraining DEF TrainingWorks
  <2>3. ASSUME NEW m \in Nat, Gives(W, v, j, m)
        PROVE  IF On(v) = On(w) THEN m < n
               ELSE \E p \in W[On(w)][n].after : Covers(p, On(v), End(On(v)) + m)
    <3>1. /\ j = now /\ v \in TrainingWorks
          /\ (v = "unlock" => m = 1) /\ (v = "backward" => m = at)
      BY <1>8, <2>3
    <3>2. CASE v \in MainWorks /\ w \in MainWorks /\ Rank(v) < Rank(w)
      <4>1. v = "unlock" /\ w = "backward"
        BY <2>1, <3>1, <3>2 DEF TrainingWorks, MainWorks, Rank
      <4>2. pipeline
        <5>1. Exists(v, now)
          BY <1>8, <2>3
        <5>. QED BY <4>1, <5>1 DEF Exists
      <4>3. m < n /\ On(v) = "main" /\ On(w) = "main"
        BY <1>4, <2>1, <3>1, <4>1, <4>2, StreamOf
      <4>. QED BY <4>3
    <3>3. CASE v = "backward" /\ w = "sp_evict"
      <4>1. On(v) = "main" /\ On(w) = "evict" /\ n = 1 /\ m = at /\ batch[now] # {}
        BY <2>1, <3>1, <3>3, StreamOf DEF Exists
      <4>2. Covers(<<"main", End("main") + at>>, "main", End("main") + at)
        <5>1. PICK x \in Nat : x = End("main") + at
          BY <1>5, <1>6
        <5>2. Covers(<<"main", x>>, "main", x)
          BY CoversIt
        <5>. QED BY <5>1, <5>2
      <4>. QED BY <1>4, <4>1, <4>2
    <3>4. ~ (j < i) /\ v \notin EvictWorks /\ v # "fill"
      BY <1>2, <2>1, <3>1 DEF TrainingWorks, EvictWorks
    <3>. QED BY Zenon, <2>2, <3>2, <3>3, <3>4
  <2>4. ASSUME NEW q \in Queue(On(v)), Is(On(v), q, v, j), On(v) # On(w)
        PROVE  \E p \in W[On(w)][n].after : Covers(p, On(v), q)
    <3>1. PICK t \in Streams : t = On(v)
      BY <1>7
    <3>2. v = Piece(t, q).work /\ j = Piece(t, q).i /\ q \in Queue(t) /\ j < Turn(v)
      <4>1. v = Piece(t, q).work /\ j = Piece(t, q).i /\ q \in Queue(t)
        BY <2>4, <3>1 DEF Is
      <4>. QED BY <1>11, <4>1
    <3>3. CASE v = "fill" /\ w = IF pipeline THEN "unlock" ELSE "backward"
      <4>1. t = side /\ On(w) = "main" /\ side # "main"
        BY <2>4, <3>1, <3>3, StreamOf
      <4>2. w = "unlock" /\ pipeline /\ n = 1
        BY <1>5, <2>1, <3>3, <4>1
      <4>3. End(t) \in Nat /\ q \in Nat /\ q <= End(t)
        BY <1>6, <3>2
      <4>4. Covers(<<t, End(t)>>, t, q)
        BY <4>3, CoversIt
      <4>. QED BY <1>4, <3>1, <4>1, <4>2, <4>4
    <3>4. CASE v = "backward" /\ w = "sp_evict" /\ j = i
      <4>1. Turn(v) = now
        BY <1>7, <3>4 DEF TrainingWorks
      <4>. QED BY <1>2, <2>1, <3>2, <3>4, <4>1
    <3>5. /\ ~ (v \in MainWorks /\ w \in MainWorks) /\ ~ (v = "sp_evict" /\ w = "sp_evict")
          /\ ~ (v \in EvictWorks /\ w = "sp_evict")
      BY <2>4, StreamOf
    <3>. QED BY Zenon, <2>2, <3>3, <3>4, <3>5
  <2>. QED BY <2>3, <2>4
<1>14. /\ StreamsOK' /\ Contents' /\ Unique' /\ AllOrdered'
       /\ \A w \in Works, i \in Batches :
             Pending(w, i)' <=> Pending(w, i) /\ ~ (Turn(w) <= i /\ i < Turn(w)' /\ ~ Exists(w, i)')
  BY Zenon, <1>2, <1>3, <1>12, <1>13, Grows
<1>15. FlushLast'
  <2>1. Contents' /\ host' # "flush" => FlushLast'
    BY DEF Contents, FlushLast, ContentOf, Streams
  <2>. QED BY <1>2, <1>14, <2>1
<1>16. ASSUME NEW t \in Streams, NEW q \in Queue(t)'
       PROVE  /\ q \in Nat /\ End(t) \in Nat
              /\ \/ q \in Queue(t) /\ Piece(t, q)' = Piece(t, q) /\ q <= End(t)
                 \/ \E n \in Nat : /\ n \in 1..Len(W[t]) /\ q = End(t) + n /\ Piece(t, q)' = W[t][n]
  BY Zenon, <1>1, <1>2, <1>3, OldOrNew
<1>17. ASSUME NEW r \in Queue("main")', NEW z \in Queue("main")', z = r - 1,
              Piece("main", r)'.work = "backward", pipeline'
       PROVE  Piece("main", z)'.work = "unlock" /\ Piece("main", z)'.i = Piece("main", r)'.i
  <2>1. r \in Nat /\ z \in Nat /\ End("main") \in Nat
    BY <1>5, <1>16
  <2>2. CASE r \in Queue("main") /\ Piece("main", r)' = Piece("main", r) /\ r <= End("main")
    <3>1. z \in Queue("main") /\ Piece("main", z)' = Piece("main", z)
      <4>1. ~ \E n \in Nat : n \in 1..Len(W["main"]) /\ z = End("main") + n
        BY <1>17, <2>1, <2>2
      <4>. QED BY <1>5, <1>16, <4>1
    <3>2. Is("main", r - 1, "unlock", Piece("main", r).i)
      BY Zenon, <1>2, <1>17, <2>2, <3>1 DEF Order, UnlockBefore
    <3>. QED BY <1>17, <2>2, <3>1, <3>2 DEF Is
  <2>3. CASE \E n \in Nat : /\ n \in 1..Len(W["main"]) /\ r = End("main") + n
                            /\ Piece("main", r)' = W["main"][n]
    <3>1. PICK n \in Nat : /\ n \in 1..Len(W["main"]) /\ r = End("main") + n
                           /\ Piece("main", r)' = W["main"][n]
      BY <2>3
    <3>2. n = 2 /\ z = End("main") + 1 /\ Piece("main", r)'.i = now /\ pipeline
      <4>1. pipeline /\ at = 2 /\ Len(W["main"]) = 2
        BY <1>2, <1>4, <1>17
      <4>2. n = 1 \/ n = 2
        BY <3>1, <4>1
      <4>3. n # 1
        BY <1>4, <1>17, <3>1, <4>1
      <4>. QED BY <1>4, <1>17, <2>1, <3>1, <4>1, <4>2, <4>3
    <3>3. Piece("main", z)' = W["main"][1]
      <4>1. PICK t \in Streams : t = "main"
        BY <1>5
      <4>2. PICK m \in 1..Len(W[t]) : m = 1
        BY <1>4, <4>1
      <4>3. \A q \in Nat : q = End(t) + m => Piece(t, q)' = W[t][m]
        <5>1. todo' = [s \in Streams |-> todo[s] \o W[s]] /\ ran' = ran
          BY <1>2, <1>3
        <5>2. /\ \A k \in 1..Len(W[t]), q \in Nat :
                    q = End(t) + k => q \in Queue(t)' /\ Piece(t, q)' = W[t][k]
          BY <1>1, <5>1, Extend, Zenon
        <5>. QED BY <5>2
      <4>. QED BY <2>1, <3>2, <4>1, <4>2, <4>3
    <3>. QED BY <1>4, <3>2, <3>3
  <2>. QED BY <1>5, <1>16, <2>2, <2>3
<1>18. UnlockBefore'
  <2> SUFFICES ASSUME NEW r \in Queue("main")', Piece("main", r)'.work = "backward", pipeline',
                      r - 1 \in Queue("main")'
               PROVE  Is("main", r - 1, "unlock", Piece("main", r).i)'
    BY DEF UnlockBefore
  <2>. QED BY <1>17 DEF Is
<1>19. Waits'
  <2>1. ASSUME side' = "prefetch", NEW r \in Queue("main")' PROVE r <= gate'
    <3>1. gate' = End("main") + at
      BY Zenon, <1>2, <1>3, <1>5, <2>1 DEF Trains
    <3>2. End("main") \in Nat /\ r \in Nat
      BY <1>5, <1>16
    <3>3. CASE r <= End("main")
      BY <3>1, <3>2, <3>3
    <3>4. CASE \E n \in Nat : n \in 1..Len(W["main"]) /\ r = End("main") + n
      BY <1>4, <3>1, <3>2, <3>4
    <3>. QED BY <1>5, <1>16, <2>1, <3>3, <3>4
  <2>2. /\ event'["sp_evict"] = IF batch[now] = {} THEN event["sp_evict"] ELSE <<"evict", End("evict") + 1>>
        /\ event'["sp_idxq_insert"] = event["sp_idxq_insert"]
        /\ \A j : event'[EvictEvent(j)] = event[EvictEvent(j)]
    <3>1. event' = [event EXCEPT !["sp_evict"] =
                       IF batch[now] = {} THEN event["sp_evict"] ELSE <<"evict", End("evict") + 1>>]
          /\ DOMAIN event = Events
      BY <1>1, <1>3 DEF Trains, HostOK
    <3>2. "sp_evict" \in Events
      BY DEF Events
    <3>3. \A j : EvictEvent(j) # "sp_evict"
      BY DEF EvictEvent
    <3>4. \A j : EvictEvent(j) \in Events
      BY DEF EvictEvent, Events
    <3>5. "sp_idxq_insert" \in Events
      BY DEF Events
    <3>. QED BY <3>1, <3>2, <3>3, <3>4, <3>5
  <2>3. ASSUME NEW q \in Queue("evict")', NEW p, p = Piece("evict", q)'
        PROVE  /\ p.work = "evict" => Covers(event'[EvictEvent(p.i)], "evict", q)
               /\ p.work = "enqueue" => Covers(event'["sp_idxq_insert"], "evict", q)
               /\ p.work = "sp_evict" => Covers(event'["sp_evict"], "evict", q)
    <3>1. q \in Nat /\ End("evict") \in Nat
      BY <1>5, <1>16
    <3>2. CASE q \in Queue("evict") /\ p = Piece("evict", q) /\ q <= End("evict")
      <4>1. /\ p.work = "evict" => Covers(event[EvictEvent(p.i)], "evict", q)
            /\ p.work = "enqueue" => Covers(event["sp_idxq_insert"], "evict", q)
            /\ p.work = "sp_evict" => Covers(event["sp_evict"], "evict", q)
        BY <3>2 DEF Order, Waits
      <4>2. Covers(<<"evict", End("evict") + 1>>, "evict", q)
        BY <3>1, <3>2, CoversIt
      <4>. QED BY <2>2, <4>1, <4>2
    <3>3. CASE \E n \in Nat : n \in 1..Len(W["evict"]) /\ q = End("evict") + n /\ p = W["evict"][n]
      <4>1. q = End("evict") + 1 /\ p.work = "sp_evict" /\ batch[now] # {}
        BY <1>4, <3>3
      <4>2. Covers(<<"evict", End("evict") + 1>>, "evict", q)
        BY <3>1, <4>1, CoversIt
      <4>. QED BY <2>2, <4>1, <4>2
    <3>. QED BY Zenon, <1>5, <1>16, <2>3, <3>2, <3>3
  <2>4. PICK t \in Streams : t = side /\ t = side'
    BY <1>2, <1>5
  <2>5. ASSUME NEW q \in Queue(t)', Piece(t, q)'.work = "fill" PROVE q <= ready'[Piece(t, q)'.i]
    <3>1. q \in Queue(t) /\ Piece(t, q)' = Piece(t, q)
      <4>1. ASSUME NEW n \in Nat, n \in 1..Len(W[t]), Piece(t, q)' = W[t][n] PROVE FALSE
        <5>1. t = "main"
          BY <1>4, <1>5, <2>4, <4>1
        <5>2. W["main"][n].work = "fill" /\ n \in 1..Len(W["main"])
          BY <2>5, <4>1, <5>1
        <5>. QED BY <1>4, <5>2
      <4>. QED BY <1>16, <4>1
    <3>. QED BY <1>2, <2>4, <2>5, <3>1 DEF Order, Waits
  <2>6. \A q \in Queue(side)' : Piece(side, q)'.work = "fill" => q <= ready'[Piece(side, q)'.i]
    BY <2>4, <2>5
  <2>7. \A q \in Queue("evict")' :
          /\ Piece("evict", q)'.work = "evict" =>
                Covers(event'[EvictEvent(Piece("evict", q)'.i)], "evict", q)
          /\ Piece("evict", q)'.work = "enqueue" => Covers(event'["sp_idxq_insert"], "evict", q)
          /\ Piece("evict", q)'.work = "sp_evict" => Covers(event'["sp_evict"], "evict", q)
    BY <2>3
  <2>. QED BY <2>1, <2>6, <2>7 DEF Waits, Covers, EvictEvent
<1>20. ASSUME NEW w \in Works, NEW i \in Batches
       PROVE  Pending(w, i)' <=> Pending(w, i) /\ ~ (i = now /\ w \in TrainingWorks /\ ~ Exists(w, i))
  <2>1. i \in Nat /\ (Turn(w) <= i /\ i < Turn(w)' <=> i = now /\ w \in TrainingWorks)
        /\ (Exists(w, i)' <=> Exists(w, i))
    BY <1>2, <1>7 DEF Batches
  <2>. QED BY <1>14, <2>1
<1>. QED BY <1>2, <1>14, <1>15, <1>18, <1>19, <1>20 DEF Order

LEMMA KeepsOrdered ==
    ASSUME AllOrdered, UNCHANGED <<todo, ran, pipeline, side, nextP, nextF, nextB, batch>>
    PROVE  /\ AllOrdered'
           /\ \A w, i : (Queued(w, i)' <=> Queued(w, i)) /\ (Pending(w, i)' <=> Pending(w, i))
<1>1. /\ \A t : Queue(t)' = Queue(t)
      /\ \A t, q : Piece(t, q)' = Piece(t, q)
      /\ \A w : On(w)' = On(w) /\ Turn(w)' = Turn(w)
      /\ \A w, i : Exists(w, i)' <=> Exists(w, i)
      /\ Gap' = Gap
  BY DEF Queue, Piece, End, On, Turn, Exists, Gap
<1>2. \A t, q, w, i : Is(t, q, w, i)' <=> Is(t, q, w, i)
  BY <1>1 DEF Is
<1>3. ASSUME NEW w, NEW i PROVE (Queued(w, i)' <=> Queued(w, i)) /\ (Pending(w, i)' <=> Pending(w, i))
  <2>1. PICK t : t = On(w) /\ t = On(w)'
    BY <1>1
  <2>2. Queued(w, i)' <=> Queued(w, i)
    BY <1>1, <1>2, <2>1 DEF Queued
  <2>. QED BY <1>1, <2>2 DEF Pending
<1>4. \A v, j, w, i : First(v, j, w, i)' <=> First(v, j, w, i)
  BY <1>1 DEF First, InTurn
<1>5. \A s, q, t, r : Before(s, q, t, r)' <=> Before(s, q, t, r)
  BY <1>1 DEF Before, Covers
<1>6. ASSUME NEW v \in Works, NEW w \in Works, NEW j \in Batches, NEW i \in Batches, First(v, j, w, i)
      PROVE  Ordered(v, j, w, i)'
  <2>1. PICK s, t : s = On(v) /\ s = On(v)' /\ t = On(w) /\ t = On(w)'
    BY <1>1
  <2>2. Ordered(v, j, w, i)
    BY <1>6 DEF AllOrdered
  <2>3. \A q \in Queue(s), r \in Queue(t) : Is(s, q, v, j) /\ Is(t, r, w, i) => Before(s, q, t, r)
    BY <2>1, <2>2 DEF Ordered
  <2>4. \A q \in Queue(s)', r \in Queue(t)' : Is(s, q, v, j)' /\ Is(t, r, w, i)' => Before(s, q, t, r)'
    BY <1>1, <1>2, <1>5, <2>3
  <2>5. j >= Turn(v)' => i >= Turn(w)'
    BY <1>1, <2>2 DEF Ordered
  <2>6. Queued(v, j)' /\ Exists(w, i)' => Pending(w, i)'
    BY <1>1, <1>3, <2>2 DEF Ordered
  <2>. QED BY <2>1, <2>4, <2>5, <2>6 DEF Ordered
<1>7. AllOrdered'
  BY <1>4, <1>6 DEF AllOrdered
<1>. QED BY <1>3, <1>7

LEMMA FlushOrder ==
    ASSUME Order, Flush
    PROVE  /\ Order' /\ UNCHANGED <<pipeline, side, nextP, nextF, nextB, lastFlush, device>>
           /\ \A w \in Works, i \in Batches : Pending(w, i)' <=> Pending(w, i)
<1>1. StreamsOK /\ HostOK /\ Contents
  BY DEF Order
<1>2. /\ host # "flush" /\ host' \in {"train", "flush", "flushed"}
      /\ UNCHANGED <<pipeline, side, nextP, nextF, nextB, lastFlush, pads, moves, gate, ready, event,
                     ran, device>> /\ UNCHANGED batch
      /\ side \in Streams /\ "main" \in Streams /\ "evict" \in Streams
  BY <1>1 DEF Flush, HostOK, Streams, device, perBatch
<1>3. HostOK'
  <2>1. Gap' = Gap
    BY <1>2 DEF Gap
  <2>. QED BY <1>1, <1>2, <2>1 DEF HostOK
<1>4. /\ \A w : On(w)' = On(w) /\ Turn(w)' = Turn(w)
      /\ \A w, i : Exists(w, i)' <=> Exists(w, i)
  BY <1>2 DEF On, Turn, Exists
<1>5. ASSUME NEW w \in Works
      PROVE  Turn(w) \in Nat /\ Turn(w)' \in Nat /\ On(w) \in Streams /\ w # "flush"
  BY <1>1, <1>4, WorkFacts
<1>6. CASE UNCHANGED todo
  <2>1. \A t \in Streams : Queue(t)' = Queue(t) /\ \A q \in Queue(t) : Piece(t, q)' = Piece(t, q)
    BY <1>2, <1>6 DEF Queue, Piece, End
  <2>2. FlushLast'
    <3>1. \A t \in Streams : \A q \in Queue(t) : Piece(t, q).work # "flush"
      BY <1>1, <1>2 DEF Contents, ContentOf
    <3>. QED BY <1>2, <2>1, <3>1 DEF FlushLast
  <2>3. Contents'
    <3> SUFFICES ASSUME NEW t \in Streams, NEW q \in Queue(t)' PROVE ContentOf(t, Piece(t, q))'
      BY DEF Contents
    <3>1. Piece(t, q)' = Piece(t, q) /\ ContentOf(t, Piece(t, q)) /\ Piece(t, q).work # "flush"
      BY <1>1, <1>2, <2>1 DEF Contents, ContentOf
    <3>. QED BY <1>4, <3>1 DEF ContentOf
  <2>4. StreamsOK' /\ Unique' /\ UnlockBefore' /\ Waits' /\ AllOrdered'
    <3>1. StreamsOK'
      BY <1>1, <1>2, <1>6 DEF StreamsOK
    <3>2. Unique'
      BY <1>2, <1>6 DEF Order, Unique, Queue, On, Is, Piece, End
    <3>3. UnlockBefore'
      BY Zenon, <1>2, <1>6 DEF Order, UnlockBefore, Queue, Is, Piece, End
    <3>4. Waits'
      BY Zenon, <1>2, <1>6 DEF Order, Waits, Queue, Piece, End, Covers, EvictEvent
    <3>5. AllOrdered'
      BY <1>2, <1>6, KeepsOrdered DEF Order
    <3>. QED BY <3>1, <3>2, <3>3, <3>4, <3>5
  <2>5. \A w \in Works, i \in Batches : Pending(w, i)' <=> Pending(w, i)
    BY <1>2, <1>6, KeepsOrdered DEF Order
  <2>. QED BY <1>2, <1>3, <2>2, <2>3, <2>4, <2>5 DEF Order
<1>7. CASE ~ UNCHANGED todo
  <2>1. PICK p \in Pieces : p = Work("flush", 0, 0, {})
    BY DEF Pieces, Work
  <2>2. p.work = "flush" /\ p.after = {}
    BY <2>1 DEF Work
  <2>3. host' = "flush" /\ todo' = [todo EXCEPT !["main"] = Append(todo["main"], p)]
    BY <1>7, <2>1 DEF Flush
  <2>4. "main" \in Streams /\ p \in Pieces /\ StreamsOK
    BY <1>1, <1>2
  <2>5. PICK W \in [Streams -> Seq(Pieces)] :
            /\ Adds(W) /\ Len(W["main"]) = 1 /\ W["main"][1] = p
            /\ \A t \in Streams \ {"main"} : Len(W[t]) = 0
    BY Zenon, <2>3, <2>4, AppendTo
  <2>6. todo' = [t \in Streams |-> todo[t] \o W[t]]
    BY <2>5 DEF Adds
  <2>7. ASSUME NEW t \in Streams, NEW n \in 1..Len(W[t]) PROVE t = "main" /\ n = 1 /\ W[t][n] = p
    <3>1. t = "main"
      <4>1. SUFFICES ASSUME t # "main" PROVE FALSE
        OBVIOUS
      <4>2. Len(W[t]) = 0
        BY <2>5, <4>1
      <4>. QED BY <2>7, <4>2
    <3>2. n \in 1..1
      BY <2>5, <2>7, <3>1
    <3>. QED BY <2>5, <3>1, <3>2
  <2>8. ASSUME NEW w \in Works, NEW i, NEW n, Gives(W, w, i, n) PROVE FALSE
    <3>1. PICK t \in Streams : t = On(w)
      BY <1>5
    <3>2. n \in 1..Len(W[t]) /\ W[t][n].work = w
      BY <2>8, <3>1 DEF Gives
    <3>. QED BY <1>5, <2>2, <2>7, <3>2
  <2>9. \A t \in Streams : \A q \in Queue(t) : ContentOf(t, Piece(t, q))' /\ Piece(t, q)' = Piece(t, q)
    <3> SUFFICES ASSUME NEW t \in Streams, NEW q \in Queue(t)
        PROVE  ContentOf(t, Piece(t, q))' /\ Piece(t, q)' = Piece(t, q)
      OBVIOUS
    <3>1. Piece(t, q)' = Piece(t, q)
      BY Zenon, <1>1, <1>2, <2>6, Extend
    <3>2. \A w \in Works : Turn(w) <= Turn(w)' /\ Turn(w)' \in Nat
      BY <1>4, <1>5
    <3>. QED BY <1>2, <3>1, <3>2, OldContents
  <2>10. Orderly(W)
    <3>1. \A w \in Works : Turn(w) <= Turn(w)'
      BY <1>4, <1>5
    <3>2. ASSUME NEW t \in Streams, NEW n \in 1..Len(W[t]) PROVE ContentOf(t, W[t][n])'
      BY <2>2, <2>3, <2>7, <3>2 DEF ContentOf
    <3>3. \A v, w \in Works, j, i \in Batches : First(v, j, w, i) /\ j >= Turn(v)' => i >= Turn(w)'
      BY <1>4 DEF Order, AllOrdered, Ordered
    <3>4. ASSUME NEW w \in Works, NEW i \in Batches
          PROVE  /\ i < Turn(w) => (Exists(w, i)' <=> Exists(w, i))
                 /\ ~ (Turn(w) <= i /\ i < Turn(w)')
                 /\ \A n : ~ Gives(W, w, i, n)
      <4>1. i \in Nat
        BY DEF Batches
      <4>. QED BY <1>4, <1>5, <2>8, <4>1
    <3>. QED BY <2>9, <3>1, <3>2, <3>3, <3>4 DEF Orderly
  <2>11. AfterFirst(W)
    BY <2>8 DEF AfterFirst
  <2>12. /\ StreamsOK' /\ Contents' /\ Unique' /\ AllOrdered'
         /\ \A w \in Works, i \in Batches :
               Pending(w, i)' <=> Pending(w, i) /\ ~ (Turn(w) <= i /\ i < Turn(w)' /\ ~ Exists(w, i)')
    BY Zenon, <1>2, <1>3, <2>6, <2>10, <2>11, Grows
  <2>13. ASSUME NEW t \in Streams, NEW q \in Queue(t)', Piece(t, q)'.work # "flush"
         PROVE  q \in Queue(t) /\ Piece(t, q)' = Piece(t, q)
    <3>1. \/ q \in Queue(t) /\ Piece(t, q)' = Piece(t, q)
          \/ \E n \in Nat : n \in 1..Len(W[t]) /\ Piece(t, q)' = W[t][n]
      BY Zenon, <1>1, <1>2, <2>6, OldOrNew
    <3>. QED BY <2>2, <2>7, <2>13, <3>1
  <2>14. FlushLast'
    <3> SUFFICES ASSUME NEW r \in Queue("main")', Piece("main", r)'.work = "flush" PROVE r = End("main")'
      BY DEF FlushLast
    <3>1. End("main")' = End("main") + 1
      <4>1. PICK t \in Streams : t = "main"
        BY <1>2
      <4>2. End(t)' = End(t) + Len(W[t])
        BY Zenon, <1>1, <1>2, <2>6, Extend
      <4>. QED BY <2>5, <4>1, <4>2
    <3>2. CASE r \in Queue("main") /\ Piece("main", r)' = Piece("main", r)
      BY <1>1, <1>2, <3>2 DEF Contents, ContentOf
    <3>3. CASE \E n \in Nat : n \in 1..Len(W["main"]) /\ r = End("main") + n
      BY <1>2, <2>7, <3>1, <3>3
    <3>. QED BY Zenon, <1>1, <1>2, <2>6, <3>2, <3>3, OldOrNew
  <2>15. UnlockBefore' /\ \A r \in Queue("main")' : Piece("main", r)'.work = "backward" =>
                              r \in Queue("main") /\ Piece("main", r)' = Piece("main", r)
    <3>1. \A n \in 1..Len(W["main"]) : W["main"][n].work # "backward"
      BY <1>2, <2>2, <2>7
    <3>. QED BY Zenon, <1>2, <2>6, <3>1, KeepsUnlock
  <2>16. Waits'
    <3>1. side' = "prefetch" => \A r \in Queue("main")' : Piece("main", r)'.work = "backward" => r <= gate'
      BY <1>2, <2>15 DEF Order, Waits
    <3>3. ASSUME NEW q \in Queue("evict")', NEW p1, p1 = Piece("evict", q)'
          PROVE  /\ p1.work = "evict" => Covers(event'[EvictEvent(p1.i)], "evict", q)
                 /\ p1.work = "enqueue" => Covers(event'["sp_idxq_insert"], "evict", q)
                 /\ p1.work = "sp_evict" => Covers(event'["sp_evict"], "evict", q)
      BY <1>2, <2>13, <3>3 DEF Order, Waits
    <3>4. PICK t \in Streams : t = side /\ t = side'
      BY <1>2
    <3>5. \A q \in Queue(t)' : Piece(t, q)'.work = "fill" => q <= ready'[Piece(t, q)'.i]
      BY <1>2, <2>13, <3>4 DEF Order, Waits
    <3>6. \A q \in Queue(side)' : Piece(side, q)'.work = "fill" => q <= ready'[Piece(side, q)'.i]
      BY <3>4, <3>5
    <3>7. \A q \in Queue("evict")' :
            /\ Piece("evict", q)'.work = "evict" =>
                  Covers(event'[EvictEvent(Piece("evict", q)'.i)], "evict", q)
            /\ Piece("evict", q)'.work = "enqueue" => Covers(event'["sp_idxq_insert"], "evict", q)
            /\ Piece("evict", q)'.work = "sp_evict" => Covers(event'["sp_evict"], "evict", q)
      BY <3>3
    <3>. QED BY <3>1, <3>6, <3>7 DEF Waits, Covers, EvictEvent
  <2>17. ASSUME NEW w \in Works, NEW i \in Batches PROVE Pending(w, i)' <=> Pending(w, i)
    <3>1. i \in Nat
      BY DEF Batches
    <3>. QED BY <1>4, <1>5, <2>12, <3>1
  <2>. QED BY <1>2, <1>3, <2>12, <2>14, <2>15, <2>16, <2>17 DEF Order
<1>. QED BY <1>6, <1>7

(* Nothing is queued. *)
LEMMA EmptyOrder ==
    ASSUME StreamsOK, HostOK, Idle, \A v, w \in Works : \A j, i \in Batches :
               First(v, j, w, i) /\ j >= Turn(v) => i >= Turn(w)
    PROVE  Order
<1>1. \A t \in Streams : Queue(t) = {} /\ On(t) \in Streams
  <2>1. \A t \in Streams : todo[t] = <<>>
    BY DEF Idle, StreamsOK
  <2>2. \A t \in Streams : Queue(t) = {}
    BY <2>1, QueueFacts
  <2>3. \A t : On(t) \in Streams
    BY DEF On, HostOK, Streams
  <2>. QED BY <2>2, <2>3
<1>2. side \in Streams /\ "main" \in Streams /\ "evict" \in Streams /\ \A w \in Works : On(w) \in Streams
  BY WorkFacts DEF Streams, HostOK
<1>3. Contents /\ Unique /\ FlushLast /\ UnlockBefore /\ Waits
  BY <1>1, <1>2 DEF Contents, Unique, FlushLast, UnlockBefore, Waits
<1>4. AllOrdered
  <2>1. \A w \in Works : \A i : ~ Queued(w, i)
    BY <1>1, <1>2 DEF Queued
  <2> SUFFICES ASSUME NEW v \in Works, NEW w \in Works, NEW j \in Batches, NEW i \in Batches, First(v, j, w, i)
      PROVE Ordered(v, j, w, i)
    BY DEF AllOrdered
  <2>2. j >= Turn(v) => i >= Turn(w)
    OBVIOUS
  <2>3. Queue(On(v)) = {}
    BY <1>1, <1>2
  <2>. QED BY <2>1, <2>2, <2>3 DEF Ordered
<1>. QED BY <1>3, <1>4 DEF Order

LEMMA FlushWriteOrder ==
    ASSUME Order, FlushWrite
    PROVE  /\ Order' /\ UNCHANGED <<pipeline, side, nextP, nextF, nextB, todo, ran>>
           /\ \A w \in Works, i \in Batches : Pending(w, i)' <=> Pending(w, i)
<1>1. /\ UNCHANGED <<pipeline, side, nextP, nextF, nextB, pads, moves, gate, ready, event, todo, ran, batch>>
      /\ host' = "flushed" /\ lastFlush' = step /\ Idle
  BY DEF FlushWrite, Synchronized, perBatch
<1>2. HostOK'
  <2>1. Gap' = Gap
    BY <1>1 DEF Gap
  <2>. QED BY <1>1, <2>1 DEF Order, HostOK, step
<1>3. StreamsOK' /\ Idle'
  BY <1>1 DEF Order, StreamsOK, Idle
<1>4. AllOrdered' /\ \A w, i : Pending(w, i)' <=> Pending(w, i)
  BY <1>1, KeepsOrdered DEF Order
<1>5. \A t \in Streams : Queue(t)' = {}
  <2>1. \A t \in Streams : todo[t] = <<>>
    BY <1>1 DEF Idle, Order, StreamsOK
  <2>2. \A t \in Streams : Queue(t) = {}
    BY <2>1, QueueFacts DEF Order
  <2>. QED BY <1>1, <2>2 DEF Queue, End
<1>6. Contents' /\ Unique' /\ FlushLast' /\ UnlockBefore' /\ Waits'
  <2>1. /\ side' = side /\ side \in Streams /\ "main" \in Streams /\ "evict" \in Streams
        /\ \A w \in Works : On(w)' \in Streams
    BY <1>1 DEF Order, HostOK, Streams, On
  <2>2. Queue(side)' = {}
    <3>1. PICK t \in Streams : t = side /\ t = side'
      BY <2>1
    <3>2. Queue(t)' = {}
      BY <1>5
    <3>. QED BY <3>1, <3>2
  <2>3. \A w \in Works : Queue(On(w))' = {}
    <3> SUFFICES ASSUME NEW w \in Works PROVE Queue(On(w))' = {}
      OBVIOUS
    <3>1. PICK t \in Streams : t = On(w)'
      BY <2>1
    <3>. QED BY <1>5, <3>1
  <2>. QED BY <1>5, <2>1, <2>2, <2>3 DEF Contents, Unique, FlushLast, UnlockBefore, Waits
<1>. QED BY <1>1, <1>2, <1>3, <1>4, <1>6 DEF Order

LEMMA InitOrder ==
    ASSUME Init
    PROVE  Order /\ \A w \in Works, i \in Batches : Pending(w, i)
<1>1. /\ pipeline \in BOOLEAN /\ side \in {"main", "prefetch"} /\ (side = "prefetch" => pipeline)
      /\ nextP = 1 /\ nextF = 1 /\ nextB = 1 /\ lastFlush = -1 /\ host = "train"
      /\ pads = <<>> /\ moves = <<>>
      /\ gate = 0 /\ ready = [i \in Batches |-> 0] /\ event = [e \in Events |-> Start]
      /\ StreamsInit(Streams) /\ batch = [i \in Batches |-> {}]
  BY DEF Init
<1>2. StreamsOK /\ Idle
  BY <1>1 DEF StreamsInit, StreamsOK, Idle
<1>3. HostOK
  <2>1. Start \in Streams \X Nat
    BY DEF Start, Streams
  <2>2. event \in [Events -> Streams \X Nat] /\ ready \in [Batches -> Nat]
    BY <1>1, <2>1
  <2>3. batch \in [Batches -> SUBSET Idx] /\ \A i \in Batches : batch[i] = {} /\ i >= nextP
    BY <1>1 DEF Batches
  <2>4. nextP <= nextB + Gap /\ MaxBatches \in Nat
    BY <1>1, SSDConstants DEF Gap
  <2>. QED BY <1>1, <2>2, <2>3, <2>4 DEF HostOK
<1>4. \A w \in Works, i \in Batches : i >= Turn(w)
  BY <1>1 DEF Turn, Batches
<1>. QED BY <1>2, <1>3, <1>4, EmptyOrder DEF Pending

-----------------------------------------------------------------------------
(* What is first of pending work is pending, and the work there is not is   *)
(* pending until its turn.                                                  *)
LEMMA Kept ==
    ASSUME Order, NEW v \in Works, NEW w \in Works, NEW j \in Batches, NEW i \in Batches,
           First(v, j, w, i), Pending(v, j), Exists(w, i)
    PROVE  Pending(w, i)
<1>1. Ordered(v, j, w, i)
  BY DEF Order, AllOrdered
<1>2. CASE j >= Turn(v)
  BY <1>1, <1>2 DEF Ordered, Pending
<1>3. CASE Queued(v, j)
  BY <1>1, <1>3 DEF Ordered
<1>. QED BY <1>2, <1>3 DEF Pending

(* The chains of Chains are chains of the order. *)
LEMMA OrderChains ==
    ASSUME Order
    PROVE  Chains
<1>0. HostOK /\ Batches \subseteq Nat \ {0}
  BY DEF Order, Batches
<1>1. \A v, w \in Works, j, i \in Batches : First(v, j, w, i) /\ Pending(v, j) /\ Exists(w, i) => Pending(w, i)
  BY Kept
<1>2. {"populate", "compact", "select", "lookup", "get", "fill", "copy", "evict", "spill", "enqueue",
       "forward", "unlock", "backward", "sp_evict"} \subseteq Works
  BY DEF Works, SideWorks, EvictWorks, MainWorks
<1>3. ASSUME NEW i \in Batches PROVE ChainOf(i)
  <2>1. \A w \in {"populate", "compact", "select", "get", "fill", "copy", "spill", "forward", "backward"} : Exists(w, i)
    BY DEF Exists
  <2>2. /\ pipeline => Exists("unlock", i) /\ Exists("enqueue", i)
        /\ pipeline /\ i > 1 => Exists("lookup", i)
        /\ batch[i] # {} => Exists("evict", i) /\ Exists("sp_evict", i)
    BY DEF Exists
  <2>3. /\ First("populate", i, "compact", i) /\ First("compact", i, "select", i)
        /\ First("compact", i, "copy", i) /\ First("select", i, "get", i)
        /\ First("copy", i, "get", i) /\ First("get", i, "fill", i)
        /\ First("select", i, "lookup", i) /\ First("copy", i, "lookup", i)
        /\ First("lookup", i, "get", i) /\ First("lookup", i, "enqueue", i)
    BY DEF First, InTurn, SideWorks, EvictWorks, MainWorks, Rank
  <2>4. /\ First("fill", i, "spill", i) /\ First("fill", i, "forward", i)
        /\ First("forward", i, "backward", i) /\ First("forward", i, "unlock", i)
        /\ First("unlock", i, "backward", i) /\ First("spill", i, "enqueue", i)
        /\ First("get", i, "evict", i) /\ First("backward", i, "sp_evict", i)
    BY DEF First, InTurn, SideWorks, EvictWorks, MainWorks, Rank
  <2>5. First("evict", i, "sp_evict", i) /\ First("spill", i, "sp_evict", i)
    BY <1>0 DEF First, EvictWorks, Gap
  <2>. QED BY <1>1, <1>2, <2>1, <2>2, <2>3, <2>4, <2>5 DEF ChainOf
<1>4. ASSUME NEW j \in Batches, NEW i \in Batches, j < i PROVE ApartOf(j, i)
  <2>1. \A w \in InStep : w \in Works /\ Exists(w, i)
    BY <1>2 DEF Exists, InStep
  <2>2. /\ pipeline => Exists("unlock", i) /\ Exists("enqueue", i) /\ Exists("unlock", j)
        /\ pipeline => Exists("lookup", i)
        /\ batch[i] # {} => Exists("evict", i) /\ Exists("sp_evict", i)
        /\ batch[j] # {} => Exists("sp_evict", j)
        /\ Exists("compact", i) /\ Exists("populate", i) /\ Exists("get", i)
    BY <1>0, <1>4 DEF Exists
  <2>3. \A w \in Works : First(w, j, w, i)
    BY <1>4 DEF First
  <2>4. /\ First("fill", j, "populate", i) /\ First("enqueue", j, "lookup", i) /\ First("backward", j, "unlock", i)
        /\ pipeline /\ i = j + 1 => First("fill", i, "unlock", j)
        /\ j + Gap <= i => First("backward", j, "populate", i) /\ First("sp_evict", j, "get", i)
        /\ j % 2 = i % 2 => First("evict", j, "compact", i)
        /\ pipeline /\ i = j + 1 => First("evict", i, "sp_evict", j)
    <3>1. First("fill", j, "populate", i) /\ First("enqueue", j, "lookup", i) /\ First("backward", j, "unlock", i)
      BY <1>4 DEF First, InTurn, SideWorks, EvictWorks, MainWorks
    <3>2. pipeline /\ i = j + 1 => First("fill", i, "unlock", j) /\ First("evict", i, "sp_evict", j)
      BY <1>0, <1>4 DEF First, Gap, EvictWorks
    <3>3. /\ j + Gap <= i => First("backward", j, "populate", i) /\ First("sp_evict", j, "get", i)
          /\ j % 2 = i % 2 => First("evict", j, "compact", i)
      BY <1>4 DEF First
    <3>. QED BY <3>1, <3>2, <3>3
  <2>5. \A w \in InStep : Pending(w, j) => Pending(w, i)
    BY <1>1, <2>1, <2>3
  <2>6. pipeline => \A w \in {"lookup", "enqueue", "unlock"} : Pending(w, j) => Pending(w, i)
    BY <1>1, <1>2, <2>2, <2>3
  <2>7. ASSUME j # 1, Pending("evict", j), ~ Pending("populate", j) PROVE Pending("get", i)
    <3>1. j < nextP
      BY <1>0, <2>7 DEF Pending, Turn, HostOK
    <3>2. Queued("evict", j)
      BY <1>0, <2>7, <3>1 DEF Pending, Turn, HostOK
    <3>3. batch[j] # {} /\ Exists("sp_evict", j)
      <4>1. PICK q \in Queue("evict") : Is("evict", q, "evict", j)
        BY <3>2 DEF Queued, On, SideWorks, EvictWorks
      <4>2. ContentOf("evict", Piece("evict", q))
        BY <4>1 DEF Order, Contents, Streams
      <4>3. Exists("evict", j)
        BY <4>1, <4>2 DEF ContentOf, Is
      <4>. QED BY <4>3 DEF Exists
    <3>4. CASE ~ pipeline
      <4>1. First("evict", j, "sp_evict", j) /\ First("sp_evict", j, "get", i)
        BY <1>0, <1>4, <3>4 DEF First, EvictWorks, Gap
      <4>. QED BY <1>1, <1>2, <2>2, <2>7, <3>3, <4>1
    <3>5. CASE pipeline
      <4>1. CASE i >= nextP
        BY <4>1 DEF Pending, Turn
      <4>2. CASE i < nextP
        <5>1. PICK k \in Batches : k = i - 2
          BY <1>0, <1>4, <2>7, SSDConstants DEF Batches
        <5>2. Exists("sp_evict", k)
          BY <1>0, <3>5, <4>2, <5>1 DEF Exists, HostOK
        <5>3. First("evict", j, "sp_evict", k) /\ First("sp_evict", k, "get", i)
          BY <1>0, <1>4, <3>5, <5>1 DEF First, EvictWorks, Gap
        <5>. QED BY <1>1, <1>2, <2>2, <2>7, <5>2, <5>3
      <4>. QED BY <1>0, <4>1, <4>2 DEF HostOK
    <3>. QED BY <3>4, <3>5
  <2>. QED BY <1>1, <1>2, <2>2, <2>4, <2>5, <2>6, <2>7 DEF ApartOf
<1>. QED BY <1>3, <1>4 DEF Chains

LEMMA OrderChainsNext == Order' => Chains'
<1>1. Order => Chains
  BY OrderChains
<1>. QED BY <1>1, PTL

-----------------------------------------------------------------------------
(* Work that ends: it alone is pending no more. *)
Same(w)     == \A j \in Batches : Pending(w, j)' <=> Pending(w, j)
Ended(w, i) == /\ Pending(w, i) /\ ~ Pending(w, i)' /\ i \in Batches
               /\ \A j \in Batches : j # i => (Pending(w, j)' <=> Pending(w, j))
               /\ \A v \in Works \ {w} : Same(v)

\* A step of a stream: work w of batch i ends.
Steps(w, i) ==
    /\ Ended(w, i) /\ i \in Batches /\ Exists(w, i) /\ Chains /\ Chains' /\ HostOK
    /\ UNCHANGED <<pipeline, side, nextP, nextF, nextB, host, lastFlush, batch>>
    /\ FlushQueue' /\ (FlushReads' => FlushReads)
    /\ FlushReads => FillingAhead /\ w \notin MainWorks
    /\ ~ Idle

\* When flush has read, nothing of the training is left.
LEMMA ReadsLast ==
    ASSUME Order, FlushQueue, FlushReads
    PROVE  FillingAhead
<1>1. HostOK /\ StreamsOK /\ Chains /\ Batches \subseteq Nat \ {0}
  BY OrderChains DEF Order, Batches
<1>2. Queue("main") = {}
  BY <1>1 DEF Queue, End, FlushReads, StreamsOK, Streams
<1>3. \A i \in Batches : /\ Pending("forward", i) <=> i >= nextF
                         /\ Pending("unlock", i) <=> i >= nextB
                         /\ side = "main" => (Pending("fill", i) <=> i >= nextP)
  BY <1>1, <1>2 DEF Pending, Queued, On, Turn, SideWorks, EvictWorks
<1>4. SUFFICES ASSUME NEW i \in Batches, i < nextP, Pending("fill", i)
      PROVE  i = nextP - 1 /\ nextP = nextB + 2
  BY DEF FillingAhead
<1>5. pipeline /\ Pending("forward", i) /\ Gap = 2
  BY <1>1, <1>3, <1>4 DEF HostOK, Chains, ChainOf, Gap
<1>6. i >= nextF
  BY <1>3, <1>5
<1>7. CASE i = nextB
  <2>1. nextF = nextB /\ nextB \in Nat /\ nextB >= 1
    BY <1>1, <1>6, <1>7 DEF HostOK
  <2>2. nextB # 1
    BY <1>1, <1>4, <1>7, <2>1 DEF FlushQueue, FlushReads, HostOK
  <2>3. nextB - 1 \in Batches
    BY <1>7, <2>1, <2>2, SSDConstants DEF Batches
  <2>4. PICK j \in Batches : j = nextB - 1 /\ i = j + 1 /\ j < i
    BY <1>1, <1>7, <2>1, <2>3
  <2>5. Pending("unlock", j)
    BY <1>1, <1>4, <1>5, <2>4 DEF Chains, ApartOf
  <2>. QED BY <1>1, <1>3, <2>1, <2>4, <2>5
<1>8. CASE i # nextB
  BY <1>1, <1>4, <1>5, <1>6, <1>8 DEF HostOK
<1>. QED BY <1>7, <1>8

LEMMA ReadsLastNext == Order' /\ FlushQueue' /\ FlushReads' => FillingAhead'
<1>1. Order /\ FlushQueue /\ FlushReads => FillingAhead
  BY ReadsLast
<1>. QED BY <1>1, PTL

LEMMA Running ==
    ASSUME Order, Order', NEW s \in Streams, NEW w \in Works, Runs(s, w), Done(s), UNCHANGED batch,
           NEW i, i = Head(todo[s]).i, Flushing
    PROVE  /\ Steps(w, i) /\ ContentOf(s, Head(todo[s])) /\ Head(todo[s]).work = w
<1>1. PICK h : h = Head(todo[s])
  OBVIOUS
<1>2. Ready(s) /\ h.work = w /\ h.i = i /\ w # "flush"
  BY <1>1, WorkFacts DEF Runs, Ready, Order
<1>3. /\ ContentOf(s, h) /\ ran[s] + 1 \in Queue(s) /\ Piece(s, ran[s] + 1) = h
      /\ i \in Batches /\ On(w) = s /\ Exists(w, i) /\ Pending(w, i)
  BY <1>1, <1>2, HeadFacts
<1>4. \A v \in Works, j \in Batches : Pending(v, j)' <=> Pending(v, j) /\ ~ (h.work = v /\ h.i = j)
  BY <1>1, <1>2, DonePending
<1>5. Ended(w, i)
  BY <1>2, <1>3, <1>4 DEF Ended, Same
<1>6. Chains /\ Chains'
  BY OrderChains, OrderChainsNext
<1>7. UNCHANGED <<pipeline, side, nextP, nextF, nextB, host, lastFlush, batch>>
  BY DEF Done, trainer
<1>8. s \in DOMAIN todo /\ todo[s] # <<>>
  BY <1>2 DEF Order, StreamsOK, Ready
<1>9. FlushQueue' /\ (FlushReads' => FlushReads)
  <2>0. FlushQueue'
    <3>1. SUFFICES ASSUME host = "flush", todo'["main"] # <<>> PROVE Piece("main", End("main"))'.work = "flush"
      BY <1>7 DEF FlushQueue, Flushing
    <3>2. /\ End("main")' = End("main") /\ \A q \in Queue("main")' : Piece("main", q)' = Piece("main", q)
          /\ StreamsOK'
      BY <1>2, Shrink DEF Done, Order, Ready, Streams
    <3>3. End("main")' \in Queue("main")'
      <4>1. ran'["main"] \in Nat /\ todo'["main"] \in Seq(Pieces)
        BY <3>2 DEF StreamsOK, Streams
      <4>2. PICK t \in Seq(Pieces) : t = todo'["main"]
        BY <4>1
      <4>3. Len(t) \in Nat /\ Len(t) # 0
        BY <3>1, <4>2
      <4>. QED BY <4>1, <4>2, <4>3 DEF End, Queue
    <3>4. todo["main"] # <<>>
      BY <1>8, <3>1 DEF Done, Finish, Order, StreamsOK, Streams
    <3>. QED BY <3>1, <3>2, <3>3, <3>4 DEF Flushing, FlushQueue
  <2>1. SUFFICES ASSUME FlushReads' PROVE todo["main"] = <<>>
    BY <1>7, <2>0 DEF FlushReads
  <2>2. SUFFICES ASSUME todo["main"] # <<>> PROVE FALSE
    OBVIOUS
  <2>3. s = "main"
    BY <2>1, <2>2 DEF FlushReads, Done, Finish, Order, StreamsOK
  <2>4. Len(todo["main"]) = 1
    <3>1. todo["main"] \in Seq(Pieces) /\ Tail(todo["main"]) = <<>>
      BY <2>1, <2>3 DEF FlushReads, Done, Finish, Order, StreamsOK
    <3>2. PICK t \in Seq(Pieces) : t = todo["main"]
      BY <3>1
    <3>3. t # <<>> /\ Tail(t) = <<>> /\ Len(t) \in Nat
      BY <2>2, <3>1, <3>2
    <3>4. Len(Tail(t)) = Len(t) - 1
      BY <3>3
    <3>5. Len(<<>>) = 0
      OBVIOUS
    <3>6. Len(t) = 1
      BY <3>3, <3>4, <3>5
    <3>. QED BY <3>2, <3>6
  <2>5. Piece("main", End("main")) = Head(todo["main"])
    BY <1>3, <2>3, <2>4, <1>1 DEF End
  <2>6. h.work = "flush"
    BY <1>1, <1>7, <2>1, <2>2, <2>3, <2>5 DEF Flushing, FlushQueue, FlushReads
  <2>. QED BY <1>2, <2>0, <2>6
<1>11. FlushReads => FillingAhead /\ w \notin MainWorks
  <2>1. w \in MainWorks => s = "main"
    BY <1>3 DEF On, MainWorks, SideWorks, EvictWorks
  <2>. QED BY <1>8, <2>1, ReadsLast DEF Flushing, FlushReads
<1>. QED BY <1>1, <1>2, <1>3, <1>5, <1>6, <1>7, <1>8, <1>9, <1>11 DEF Steps, Idle, Order

-----------------------------------------------------------------------------
(* What is left as it was. *)
LEMMA SameLatest ==
    ASSUME UNCHANGED batch, Same("backward")
    PROVE  \A x : Latest(x)' = Latest(x)
<1>1. ASSUME NEW x PROVE Latest(x)' = Latest(x)
  <2>1. {j \in Batches : IsTrained(j)' /\ x \in batch'[j]} = {j \in Batches : IsTrained(j) /\ x \in batch[j]}
    BY DEF Same, IsTrained
  <2>. QED BY <2>1 DEF Latest
<1>. QED BY <1>1

LEMMA SlotsStay ==
    ASSUME Slots, UNCHANGED <<pipeline, batch, slot, out, cache>>, Same("populate"),
           \A j \in Batches : Pending("backward", j)' => Pending("backward", j)
    PROVE  Slots'
BY DEF Slots, SlotsOf, Same

LEMMA RecordsStay ==
    ASSUME Records, UNCHANGED <<pipeline, batch, loc, ptr, conflict, found>>,
           Same("populate"), Same("backward"), Same("fill"), Same("lookup")
    PROVE  Records'
BY DEF Records, RecordsOf, Live, Same

LEMMA FillingsStay ==
    ASSUME Fillings, UNCHANGED <<batch, loc, slot, fetch, found, cache>>,
           Same("populate"), Same("fill"), Same("copy")
    PROVE  Fillings'
BY DEF Fillings, FillingOf, Filling, Missed, NoWays, Same

LEMMA LocatedStays ==
    ASSUME Located, UNCHANGED <<pipeline, batch, loc, slot, cache>>,
           Same("populate"), Same("backward"), Same("unlock")
    PROVE  Located'
BY DEF Located, LocatedOf, Live, Unlocked, Same

LEMMA ConflictsStay ==
    ASSUME Conflicts, UNCHANGED <<pipeline, batch, loc, conflict, found, spill>>,
           Same("populate"), Same("backward"), Same("unlock"), Same("fill"), Same("lookup"), Same("spill")
    PROVE  Conflicts'
BY DEF Conflicts, ConflictOf, Live, Unlocked, TakenOver, Same

LEMMA PointersStay ==
    ASSUME Pointers, UNCHANGED <<pipeline, batch, loc, ptr, found>>,
           Same("populate"), Same("backward"), Same("unlock"), Same("fill")
    PROVE  Pointers'
BY DEF Pointers, PointersOf, Live, Unlocked, TakenOver, Same

LEMMA IndexQueueStays ==
    ASSUME IndexQueue, HostOK, UNCHANGED <<pipeline, conflict, idxq>>, Same("enqueue"), Same("lookup")
    PROVE  IndexQueue'
<1>1. \A j \in Batches : InQueue(j)' <=> InQueue(j)
  BY DEF InQueue, Same
<1>. QED BY <1>1 DEF IndexQueue

LEMMA LocksStay ==
    ASSUME Locks, UNCHANGED <<pipeline, loc, cache>>, Same("unlock")
    PROVE  Locks'
<1>1. \A w : Users(w)' = Users(w)
  BY DEF Users, Same
<1>. QED BY <1>1 DEF Locks

LEMMA TimesStay ==
    ASSUME Times, UNCHANGED cache, \A j \in Batches : Pending("populate", j)' => Pending("populate", j)
    PROVE  Times'
BY DEF Times

LEMMA InWayStays ==
    ASSUME UNCHANGED <<cache, slot>>, Same("populate"), Same("fill")
    PROVE  \A x, w : InWay(x, w)' <=> InWay(x, w)
<1>1. \A w : BeingFilled(w)' <=> BeingFilled(w)
  BY DEF BeingFilled, Filling, Same
<1>. QED BY <1>1 DEF InWay

LEMMA InPadStays ==
    ASSUME UNCHANGED <<batch, slot, loc, conflict, found>>, Same("populate"), Same("fill"), Same("get"),
           Same("sp_evict")
    PROVE  \A i \in Batches : \A x : InPad(x, i)' <=> InPad(x, i)
<1>1. \A i \in Batches : Missed(i)' = Missed(i) /\ TakenOver(i)' = TakenOver(i)
  BY DEF Missed, NoWays, TakenOver, Same
<1>. QED BY <1>1 DEF InPad, Same

LEMMA LeavingStays ==
    ASSUME UNCHANGED out, Same("evict")
    PROVE  \A i \in Batches : \A x : Leaving(x, i)' <=> Leaving(x, i)
BY DEF Leaving, Same

LEMMA BuffersStay ==
    ASSUME Buffers, UNCHANGED <<batch, buffer, out>>, Same("evict"), Same("compact"), Same("select"), Same("backward")
    PROVE  Buffers'
<1>1. \A x : Latest(x)' = Latest(x)
  BY SameLatest
<1>. QED BY <1>1 DEF Buffers, BufferOf, Same

LEMMA RowsKept ==
    ASSUME Values, UNCHANGED <<pipeline, batch, slot, loc, out, conflict, found, cache, l1, pad, store>>,
           Same("populate"), Same("fill"), Same("get"), Same("sp_evict"), Same("evict"), Same("backward"),
           Same("unlock"), \A j \in Batches : Pending("select", j)' => Pending("select", j)
    PROVE  WayValues' /\ PadValues' /\ OldPads' /\ LeftValues' /\ StoreValues'
<1>2. \A x : Latest(x)' = Latest(x)
  BY SameLatest
<1>3. \A x, w : InWay(x, w)' <=> InWay(x, w)
  BY InWayStays
<1>4. \A i \in Batches : \A x : InPad(x, i)' <=> InPad(x, i)
  BY InPadStays
<1>5. \A i \in Batches : \A x : Leaving(x, i)' <=> Leaving(x, i)
  BY LeavingStays
<1>6. \A x : InStore(x)' <=> InStore(x)
  BY <1>3, <1>4, <1>5 DEF InStore
<1>7. WayValues' /\ PadValues' /\ LeftValues' /\ StoreValues'
  BY <1>2, <1>3, <1>4, <1>5, <1>6 DEF Values, WayValues, PadValues, LeftValues, StoreValues
<1>8. OldPads'
  BY <1>2 DEF Values, OldPads, Live, Unlocked, TakenOver, Same
<1>. QED BY <1>7, <1>8

LEMMA ValuesStay ==
    ASSUME Values, UNCHANGED <<pipeline, batch, slot, loc, out, conflict, found, cache, l1, pad, store, buffer>>,
           \A v \in Works \ {"copy", "spill", "enqueue", "lookup", "forward"} : Same(v)
    PROVE  Values'
<1>1. /\ Same("populate") /\ Same("fill") /\ Same("get") /\ Same("sp_evict") /\ Same("evict")
      /\ Same("compact") /\ Same("select") /\ Same("backward") /\ Same("unlock")
  BY DEF Works, SideWorks, EvictWorks, MainWorks
<1>2. WayValues' /\ PadValues' /\ OldPads' /\ LeftValues' /\ StoreValues'
  BY <1>1, RowsKept DEF Same
<1>3. Buffers'
  BY <1>1, BuffersStay DEF Values
<1>. QED BY <1>2, <1>3 DEF Values

(* While a stream works, flush has nothing to write. *)
LEMMA FlushedStays ==
    ASSUME NEW w, NEW i, Steps(w, i), Flushed
    PROVE  Flushed'
BY DEF Steps, Flushed, step


LEMMA FlushingStays ==
    ASSUME NEW w, NEW i, Steps(w, i), Flushing, UNCHANGED <<cache, slot, flushed>>
    PROVE  Flushing'
<1>1. FlushReads' => /\ \A x \in DOMAIN flushed' : FlushOf(x)'
                     /\ nextP' = nextB' => Cached(cache') \subseteq DOMAIN flushed'
  <2>1. SUFFICES ASSUME FlushReads, w \notin MainWorks
                 PROVE  /\ \A x \in DOMAIN flushed : FlushOf(x)'
                        /\ nextP = nextB => Cached(cache) \subseteq DOMAIN flushed
    BY DEF Steps
  <2>2. Same("backward")
    BY <2>1 DEF Steps, Ended, Works, MainWorks
  <2>3. \A x : Latest(x)' = Latest(x)
    BY <2>2, SameLatest DEF Steps
  <2>4. \A x : FlushOf(x)' <=> FlushOf(x)
    BY <2>3 DEF FlushOf, Steps
  <2>. QED BY <2>1, <2>4 DEF Flushing
<1>2. FlushQueue'
  BY DEF Steps
<1>3. DOMAIN flushed' \subseteq Idx /\ \A x \in DOMAIN flushed' : flushed'[x] \in Int
  BY DEF Flushing
<1>. QED BY <1>1, <1>2, <1>3 DEF Flushing

-----------------------------------------------------------------------------
(* The steps that move no row.                                             *)
LEMMA SameBut ==
    ASSUME NEW w, NEW i, Steps(w, i)
    PROVE  /\ i \in Batches /\ Pending(w, i) /\ ~ Pending(w, i)' /\ Chains /\ Chains' /\ HostOK
           /\ Chains => ChainOf(i) /\ \A j \in Batches : (j < i => ApartOf(j, i)) /\ (i < j => ApartOf(i, j))
           /\ Chains' => ChainOf(i)' /\ \A j \in Batches : (j < i => ApartOf(j, i)') /\ (i < j => ApartOf(i, j)')
           /\ \A j \in Batches : j # i => (Pending(w, j)' <=> Pending(w, j))
           /\ \A v \in Works \ {w} : Same(v)
           /\ w # "populate" => Same("populate")
           /\ w # "compact" => Same("compact")
           /\ w # "select" => Same("select")
           /\ w # "lookup" => Same("lookup")
           /\ w # "get" => Same("get")
           /\ w # "fill" => Same("fill")
           /\ w # "copy" => Same("copy")
           /\ w # "evict" => Same("evict")
           /\ w # "spill" => Same("spill")
           /\ w # "enqueue" => Same("enqueue")
           /\ w # "forward" => Same("forward")
           /\ w # "unlock" => Same("unlock")
           /\ w # "backward" => Same("backward")
           /\ w # "sp_evict" => Same("sp_evict")
<1>1. /\ i \in Batches /\ Pending(w, i) /\ ~ Pending(w, i)' /\ Chains /\ Chains' /\ HostOK
      /\ \A j \in Batches : j # i => (Pending(w, j)' <=> Pending(w, j))
      /\ \A v \in Works \ {w} : Same(v)
  BY DEF Steps, Ended
<1>2. {"populate", "compact", "select", "lookup", "get", "fill", "copy", "evict", "spill", "enqueue",
       "forward", "unlock", "backward", "sp_evict"} \subseteq Works
  BY DEF Works, SideWorks, EvictWorks, MainWorks
<1>3. Chains => ChainOf(i) /\ \A j \in Batches : (j < i => ApartOf(j, i)) /\ (i < j => ApartOf(i, j))
  BY <1>1 DEF Chains
<1>4. Chains' => ChainOf(i)' /\ \A j \in Batches : (j < i => ApartOf(j, i)') /\ (i < j => ApartOf(i, j)')
  BY <1>1 DEF Chains
<1>. QED BY <1>1, <1>2, <1>3, <1>4

LEMMA RowsStay ==
    ASSUME Arrays, Rows, UNCHANGED <<cache, l1, store, pad>>
    PROVE  Rows'
BY DEF Rows, UniqueTags

LEMMA ForwardDevice ==
    ASSUME ForwardRun, NEW i, Steps("forward", i), Device
    PROVE  Device'
<1>1. /\ UNCHANGED <<cache, l1, buffer, store, idxq, flushed, loc, slot, out, fetch, conflict, spill, found, pad, ptr>>
      /\ UNCHANGED <<pipeline, batch>>
  BY DEF ForwardRun, device, perBatch, Steps
<1>2. \A v \in Works \ {"forward"} : Same(v)
  BY SameBut
<1>3. /\ Same("populate") /\ Same("fill") /\ Same("backward") /\ Same("unlock") /\ Same("lookup")
      /\ Same("copy") /\ Same("spill") /\ Same("enqueue") /\ HostOK
  BY SameBut
<1>4. Layout'
  BY <1>1, <1>3, SlotsStay, RecordsStay, FillingsStay, LocatedStays, ConflictsStay, PointersStay, RowsStay
     DEF Device, Layout, Arrays, Same
<1>5. IndexQueue' /\ Locks' /\ Times'
  BY <1>1, <1>3, IndexQueueStays, LocksStay, TimesStay DEF Device, Same
<1>6. Values'
  BY <1>1, <1>2, ValuesStay DEF Device
<1>7. Flushing' /\ Flushed'
  BY <1>1, FlushingStays, FlushedStays DEF Device
<1>. QED BY <1>4, <1>5, <1>6, <1>7 DEF Device

(* The copy of what to fetch: what is not in a way yet. *)
LEMMA CopyDevice ==
    ASSUME Copy, NEW i, i = Head(todo["copy"]).i, Steps("copy", i), Device
    PROVE  Device'
<1>1. /\ UNCHANGED <<cache, l1, buffer, store, idxq, flushed, loc, slot, out, conflict, spill, found, pad, ptr>>
      /\ UNCHANGED <<pipeline, batch>>
      /\ fetch' = [fetch EXCEPT ![i] = DOMAIN slot[i] \cup NoWays(i)]
  BY DEF Copy, Steps, NoWays
<1>2. \A v \in Works \ {"copy"} : Same(v)
  BY SameBut
<1>3. /\ Same("populate") /\ Same("fill") /\ Same("backward") /\ Same("unlock") /\ Same("lookup")
      /\ Same("spill") /\ Same("enqueue") /\ HostOK
  BY SameBut
<1>4. Fillings'
  <2> SUFFICES ASSUME NEW j \in Batches PROVE FillingOf(j)'
    BY DEF Fillings
  <2>0. FillingOf(j)
    BY DEF Device, Layout, Fillings
  <2>1. CASE j # i
    <3>1. fetch'[j] = fetch[j] /\ (Pending("copy", j)' <=> Pending("copy", j))
      BY <1>1, <2>1, SameBut DEF Device, Layout, Arrays
    <3>2. Missed(j)' = Missed(j) /\ (Filling(j)' <=> Filling(j))
      BY <1>1, <1>3 DEF Missed, NoWays, Filling, Same
    <3>. QED BY Zenon, <1>1, <2>0, <3>1, <3>2 DEF FillingOf
  <2>2. CASE j = i
    <3>1. fetch'[j] = DOMAIN slot[j] \cup NoWays(j)
      BY <1>1, <2>2 DEF Device, Layout, Arrays
    <3>2. Missed(j)' = Missed(j) /\ (Filling(j)' <=> Filling(j))
      BY <1>1, <1>3 DEF Missed, NoWays, Filling, Same
    <3>3. Filling(j) => Missed(j) = DOMAIN slot[j] \cup NoWays(j)
      BY DEF Missed, Filling
    <3>4. found[j] = {}
      <4>1. pipeline /\ j > 1 => Pending("lookup", j)
        BY <2>2, SameBut DEF ChainOf
      <4>. QED BY <4>1 DEF Device, Layout, Records, RecordsOf, Batches
    <3>. QED BY Zenon, <1>1, <2>0, <3>1, <3>2, <3>3, <3>4 DEF FillingOf
  <2>. QED BY <2>1, <2>2
<1>5. Layout'
  BY <1>1, <1>3, <1>4, SlotsStay, RecordsStay, LocatedStays, ConflictsStay, PointersStay, RowsStay
     DEF Device, Layout, Arrays, Same
<1>6. IndexQueue' /\ Locks' /\ Times'
  BY <1>1, <1>3, IndexQueueStays, LocksStay, TimesStay DEF Device, Same
<1>7. Values'
  BY <1>1, <1>2, ValuesStay DEF Device
<1>8. Flushing' /\ Flushed'
  BY <1>1, FlushingStays, FlushedStays DEF Device
<1>. QED BY <1>5, <1>6, <1>7, <1>8 DEF Device

(* The two buffers of evicted rows: a batch's is not written before the     *)
(* rows of the batch before the last are stored.                            *)
LEMMA OtherBuffers ==
    ASSUME NEW w \in {"compact", "select"}, NEW i, Steps(w, i), UNCHANGED <<batch, out>>, Buffers,
           \A b \in 0..1 : b # i % 2 => buffer'[b] = buffer[b],
           Pending("evict", i) => /\ DOMAIN buffer'[i % 2] = DOMAIN out[i]
                                  /\ w = "select" => \A y \in DOMAIN out[i] : buffer'[i % 2][y] = Latest(y)
    PROVE  Buffers'
<1>1. /\ Same("evict") /\ Same("backward") /\ Same("fill") /\ Same("populate")
      /\ (w = "compact" => Same("select")) /\ (w = "select" => Same("compact"))
  BY SameBut
<1>2. \A x : Latest(x)' = Latest(x)
  BY <1>1, SameLatest
<1>3. i \in Batches /\ Batches \subseteq Nat \ {0}
  BY SameBut DEF Batches
<1>4. ~ Pending("compact", i)'
  BY SameBut DEF ChainOf
<1>5. SUFFICES ASSUME NEW j \in Batches PROVE BufferOf(j)'
  BY DEF Buffers
<1>6. CASE j = i
  <2>1. w = "compact" => Pending("select", i)'
    <3>1. w = "compact" => Pending("select", i)
      BY SameBut DEF ChainOf
    <3>. QED BY <1>1, <1>3, <3>1 DEF Same
  <2>. QED BY <1>1, <1>2, <1>3, <1>6, <2>1 DEF BufferOf, Same
<1>7. CASE j # i /\ j % 2 # i % 2
  <2>1. j % 2 \in 0..1
    BY <1>3
  <2>2. buffer'[j % 2] = buffer[j % 2]
    BY <1>7, <2>1
  <2>3. (Pending("compact", j)' <=> Pending("compact", j)) /\ (Pending("select", j)' <=> Pending("select", j))
    BY <1>1, <1>7, SameBut DEF Same
  <2>. QED BY <1>1, <1>2, <2>2, <2>3 DEF Buffers, BufferOf, Same
<1>8. CASE j < i /\ j % 2 = i % 2
  <2>1. ~ Pending("evict", j)'
    BY <1>4, <1>8, SameBut DEF ApartOf
  <2>. QED BY <2>1 DEF BufferOf
<1>9. CASE i < j
  <2>1. Pending("fill", i)
    BY SameBut DEF ChainOf
  <2>2. Pending("populate", j)
    BY <1>9, <2>1, SameBut DEF ApartOf
  <2>3. Pending("compact", j)
    BY Zenon, <2>2, SameBut DEF Chains, ChainOf
  <2>4. Pending("compact", j)'
    BY <1>1, <1>9, <2>3, <1>3, SameBut DEF Same
  <2>. QED BY <2>4 DEF BufferOf
<1>. QED BY <1>3, <1>6, <1>7, <1>8, <1>9

LEMMA CompactDevice ==
    ASSUME Compact, NEW i, i = Head(todo[side]).i, Steps("compact", i), Device
    PROVE  Device'
<1>1. /\ UNCHANGED <<cache, l1, store, idxq, flushed, loc, slot, out, fetch, conflict, spill, found, pad, ptr>>
      /\ UNCHANGED <<pipeline, batch>>
      /\ buffer' = [buffer EXCEPT ![i % 2] = [x \in DOMAIN out[i] |-> Garbage]]
  BY DEF Compact, Steps, perBatch
<1>2. \A v \in Works \ {"compact"} : Same(v)
  BY SameBut
<1>3. /\ Same("populate") /\ Same("fill") /\ Same("backward") /\ Same("unlock") /\ Same("lookup")
      /\ Same("copy") /\ Same("spill") /\ Same("enqueue") /\ Same("get") /\ Same("evict") /\ Same("sp_evict")
      /\ Same("select") /\ HostOK /\ i \in Batches
  BY SameBut
<1>4. i % 2 \in 0..1 /\ DOMAIN buffer' = 0..1
  BY <1>1, <1>3 DEF Batches, Device, Layout, Arrays
<1>5. Layout'
  BY Zenon, <1>1, <1>3, <1>4, SlotsStay, RecordsStay, FillingsStay, LocatedStays, ConflictsStay, PointersStay, RowsStay
     DEF Device, Layout, Arrays, Same
<1>6. IndexQueue' /\ Locks' /\ Times'
  BY <1>1, <1>3, IndexQueueStays, LocksStay, TimesStay DEF Device, Same
<1>7. Buffers'
  <2>1. /\ \A b \in 0..1 : b # i % 2 => buffer'[b] = buffer[b]
        /\ DOMAIN buffer'[i % 2] = DOMAIN out[i]
    BY Zenon, <1>1, <1>4 DEF Device, Layout, Arrays
  <2>. QED BY Zenon, <1>1, <2>1, OtherBuffers DEF Device, Values
<1>8. WayValues' /\ PadValues' /\ OldPads' /\ LeftValues' /\ StoreValues'
  BY <1>1, <1>3, RowsKept DEF Device, Same
<1>9. Flushing' /\ Flushed'
  BY <1>1, FlushingStays, FlushedStays DEF Device
<1>. QED BY <1>5, <1>6, <1>7, <1>8, <1>9 DEF Device, Values

(* The rows to evict are still in their ways. *)
LEMMA SelectDevice ==
    ASSUME Select, NEW i, i = Head(todo[side]).i, Steps("select", i), Device
    PROVE  Device'
<1>0. /\ UNCHANGED <<cache, l1, store, idxq, flushed, loc, slot, out, fetch, conflict, spill, found, pad, ptr>>
      /\ UNCHANGED <<pipeline, batch>>
  BY DEF Select, Steps, perBatch
<1>1. buffer' = [buffer EXCEPT ![i % 2] = [x \in DOMAIN @ |-> l1[out[i][x]]]]
  BY Zenon DEF Select, Steps, perBatch
<1>2. \A v \in Works \ {"select"} : Same(v)
  BY SameBut
<1>3. /\ Same("populate") /\ Same("fill") /\ Same("backward") /\ Same("unlock") /\ Same("lookup")
      /\ Same("copy") /\ Same("spill") /\ Same("enqueue") /\ Same("get") /\ Same("evict") /\ Same("sp_evict")
      /\ Same("compact") /\ HostOK /\ i \in Batches
  <2>1. HostOK /\ i \in Batches
    BY SameBut
  <2>. QED BY <1>2, <2>1 DEF Works, SideWorks, EvictWorks, MainWorks
<1>4. i % 2 \in 0..1 /\ DOMAIN buffer' = 0..1
  <2>1. i \in Nat
    BY <1>3 DEF Batches
  <2>2. DOMAIN buffer = 0..1
    BY DEF Device, Layout, Arrays
  <2>3. DOMAIN buffer' = DOMAIN buffer
    BY Zenon, <1>1
  <2>. QED BY <2>1, <2>2, <2>3
<1>5. Layout'
  BY <1>0, <1>3, <1>4, SlotsStay, RecordsStay, FillingsStay, LocatedStays, ConflictsStay, PointersStay, RowsStay
     DEF Device, Layout, Arrays, Same
<1>6. IndexQueue' /\ Locks' /\ Times'
  BY <1>0, <1>3, IndexQueueStays, LocksStay, TimesStay DEF Device, Same
<1>7. Buffers'
  <2>1. /\ \A b \in 0..1 : b # i % 2 => buffer'[b] = buffer[b]
        /\ buffer'[i % 2] = [x \in DOMAIN buffer[i % 2] |-> l1[out[i][x]]]
    BY Zenon, <1>1, <1>4 DEF Device, Layout, Arrays
  <2>2. ASSUME Pending("evict", i)
        PROVE  /\ DOMAIN buffer'[i % 2] = DOMAIN out[i]
               /\ \A y \in DOMAIN out[i] : buffer'[i % 2][y] = Latest(y)
    <3>1. ~ Pending("compact", i)
      <4>1. ~ Pending("compact", i)'
        BY SameBut DEF ChainOf
      <4>. QED BY <1>3, <4>1 DEF Same
    <3>2. DOMAIN buffer[i % 2] = DOMAIN out[i]
      BY <1>3, <2>2, <3>1 DEF Device, Values, Buffers, BufferOf
    <3>3. \A y \in DOMAIN out[i] : y \in Idx /\ l1[out[i][y]] = Latest(y)
      BY Zenon, <1>3, <2>2, SameBut DEF Device, Values, LeftValues, Leaving, Layout, Slots, SlotsOf
    <3>. QED BY Zenon, <2>1, <3>2, <3>3
  <2>3. PICK w \in {"compact", "select"} : w = "select"
    OBVIOUS
  <2>4. Steps(w, i) /\ Buffers /\ UNCHANGED <<batch, out>>
    BY <1>0, <2>3 DEF Device, Values
  <2>. QED BY Zenon, <2>1, <2>2, <2>3, <2>4, OtherBuffers
<1>8. WayValues' /\ PadValues' /\ OldPads' /\ LeftValues' /\ StoreValues'
  BY <1>0, <1>3, RowsKept, SameBut DEF Device
<1>9. Flushing' /\ Flushed'
  BY <1>0, FlushingStays, FlushedStays DEF Device
<1>. QED BY Zenon, <1>5, <1>6, <1>7, <1>8, <1>9 DEF Device, Values

(* The copy of the rows without a way, less those the next batch took,      *)
(* which none has yet.                                                      *)
LEMMA SpillDevice ==
    ASSUME Spill, NEW i, i = Head(todo["evict"]).i, Steps("spill", i), Device
    PROVE  Device'
<1>1. /\ UNCHANGED <<cache, l1, buffer, store, idxq, flushed, loc, slot, out, fetch, conflict, found, pad, ptr>>
      /\ UNCHANGED <<pipeline, batch>>
      /\ spill' = [spill EXCEPT ![i] = conflict[i]]
  BY DEF Spill, Steps
<1>2. \A v \in Works \ {"spill"} : Same(v)
  BY SameBut
<1>3. /\ Same("populate") /\ Same("fill") /\ Same("backward") /\ Same("unlock") /\ Same("lookup")
      /\ Same("copy") /\ Same("enqueue") /\ HostOK /\ i \in Batches /\ Batches \subseteq Nat \ {0}
  BY SameBut DEF Batches
<1>4. TakenOver(i) = {}
  <2>1. ASSUME i + 1 \in Batches, pipeline PROVE Pending("lookup", i + 1)
    <3>1. Pending("enqueue", i)
      BY <2>1, SameBut DEF ChainOf
    <3>2. PICK j \in Batches : j = i + 1 /\ i < j
      BY <1>3, <2>1
    <3>. QED BY <2>1, <3>1, <3>2, SameBut DEF ApartOf
  <2>. QED BY <2>1 DEF TakenOver, Device, Layout, Records, RecordsOf
<1>5. Conflicts'
  <2> SUFFICES ASSUME NEW j \in Batches PROVE ConflictOf(j)'
    BY DEF Conflicts
  <2>1. ConflictOf(j) /\ TakenOver(j)' = TakenOver(j)
    BY <1>1 DEF Device, Layout, Conflicts, TakenOver
  <2>2. ~ Pending("spill", j)' => spill'[j] = conflict[j] \ TakenOver(j)
    <3>1. CASE j = i
      BY <1>1, <1>4, <3>1 DEF Device, Layout, Arrays
    <3>2. CASE j # i
      BY <1>1, <2>1, <3>2, SameBut DEF Device, Layout, Arrays, ConflictOf
    <3>. QED BY <3>1, <3>2
  <2>. QED BY <1>1, <1>3, <2>1, <2>2 DEF ConflictOf, Live, Unlocked, Same
<1>6. Layout'
  BY <1>1, <1>3, <1>5, SlotsStay, RecordsStay, FillingsStay, LocatedStays, PointersStay, RowsStay
     DEF Device, Layout, Arrays, Same
<1>7. IndexQueue' /\ Locks' /\ Times'
  BY <1>1, <1>3, IndexQueueStays, LocksStay, TimesStay DEF Device, Same
<1>8. Values'
  BY <1>1, <1>2, ValuesStay DEF Device
<1>9. Flushing' /\ Flushed'
  BY <1>1, FlushingStays, FlushedStays DEF Device
<1>. QED BY <1>6, <1>7, <1>8, <1>9 DEF Device

(* The queue of maps is empty when a map is inserted: its lookup comes       *)
(* before the next insertion.                                               *)
LEMMA EnqueueDevice ==
    ASSUME Enqueue, NEW i, i = Head(todo["evict"]).i, Steps("enqueue", i), Device
    PROVE  Device'
<1>1. /\ UNCHANGED <<cache, l1, buffer, store, flushed, loc, slot, out, fetch, conflict, spill, found, pad, ptr>>
      /\ UNCHANGED <<pipeline, batch>>
      /\ idxq' = Append(idxq, spill[i])
  BY DEF Enqueue, Steps, perBatch, Inserted
<1>2. \A v \in Works \ {"enqueue"} : Same(v)
  BY SameBut
<1>3. /\ Same("populate") /\ Same("fill") /\ Same("backward") /\ Same("unlock") /\ Same("lookup")
      /\ Same("copy") /\ Same("spill") /\ HostOK /\ i \in Batches /\ Batches \subseteq Nat \ {0}
      /\ pipeline
  BY SameBut DEF Batches, Steps, Exists
<1>4. i + 1 \in Batches => Pending("lookup", i + 1)
  <2>1. SUFFICES ASSUME NEW j \in Batches, j = i + 1 PROVE Pending("lookup", j)
    OBVIOUS
  <2>2. i < j
    BY <1>3, <2>1
  <2>. QED BY <1>3, <2>2, SameBut DEF ApartOf
<1>5. spill[i] = conflict[i]
  <2>1. TakenOver(i) = {}
    BY <1>4 DEF TakenOver, Device, Layout, Records, RecordsOf
  <2>2. ~ Pending("spill", i)'
    BY <1>1, <1>3, SameBut DEF ChainOf
  <2>3. ~ Pending("spill", i)
    BY <1>3, <2>2 DEF Same
  <2>. QED BY <1>3, <2>1, <2>3 DEF Device, Layout, Conflicts, ConflictOf
<1>6. \A j \in Batches : ~ InQueue(j) /\ (InQueue(j)' <=> j = i)
  <2> SUFFICES ASSUME NEW j \in Batches PROVE ~ InQueue(j) /\ (InQueue(j)' <=> j = i)
    OBVIOUS
  <2>1. CASE j = i
    BY <1>1, <1>3, <1>4, <2>1, SameBut DEF InQueue, Same
  <2>2. CASE i < j
    <3>1. Pending("enqueue", j)
      BY <1>3, <2>2, SameBut DEF ApartOf
    <3>. QED BY <1>3, <2>2, <3>1, SameBut DEF InQueue
  <2>3. CASE j < i
    <3>1. j + 1 \in Batches /\ j + 1 <= i
      BY <1>3, <2>3, SSDConstants DEF Batches
    <3>2. ~ Pending("lookup", i)
      BY <1>1, <1>3, <2>3, SameBut DEF ChainOf, Same
    <3>3. ~ Pending("lookup", j + 1)
      <4>1. PICK k \in Batches : k = j + 1
        BY <3>1
      <4>2. k = i \/ k < i
        BY <1>3, <3>1, <4>1
      <4>. QED BY <1>3, <3>2, <4>1, <4>2, SameBut DEF ApartOf
    <3>. QED BY <1>3, <3>1, <3>3 DEF InQueue, Same
  <2>. QED BY <1>3, <2>1, <2>2, <2>3
<1>7. IndexQueue'
  <2>1. idxq = <<>>
    BY <1>6 DEF Device, IndexQueue
  <2>2. idxq' = <<conflict[i]>>
    BY <1>1, <1>5, <2>1
  <2>. QED BY <1>1, <1>3, <1>6, <2>2 DEF IndexQueue
<1>8. Layout'
  BY <1>1, <1>3, SlotsStay, RecordsStay, FillingsStay, LocatedStays, ConflictsStay, PointersStay, RowsStay
     DEF Device, Layout, Arrays, Same
<1>9. Locks' /\ Times'
  BY <1>1, <1>3, LocksStay, TimesStay DEF Device, Same
<1>10. Values'
  BY <1>1, <1>2, ValuesStay DEF Device
<1>11. Flushing' /\ Flushed'
  BY <1>1, FlushingStays, FlushedStays DEF Device
<1>. QED BY <1>7, <1>8, <1>9, <1>10, <1>11 DEF Device

-----------------------------------------------------------------------------
(* The steps of the eviction stream that store rows.                       *)
LEMMA LatestIsNat ==
    ASSUME NEW x
    PROVE  Latest(x) \in Nat /\ Latest(x) \in Int
<1>1. IsFiniteSet(Batches)
  BY SSDConstants, FS_Interval DEF Batches
<1>2. {j \in Batches : IsTrained(j) /\ x \in batch[j]} \in SUBSET Batches
  OBVIOUS
<1>3. IsFiniteSet({j \in Batches : IsTrained(j) /\ x \in batch[j]})
  BY <1>1, <1>2, FS_Subset
<1>. QED BY <1>3, FS_CardinalityType DEF Latest

LEMMA EvictDevice ==
    ASSUME Evict, NEW i, i = Head(todo["evict"]).i, Steps("evict", i), Device
    PROVE  Device'
<1>1. /\ UNCHANGED <<cache, l1, buffer, idxq, flushed, loc, slot, out, fetch, conflict, spill, found, pad, ptr>>
      /\ UNCHANGED <<pipeline, batch>>
      /\ store' = [x \in Idx |-> IF x \in DOMAIN buffer[i % 2] THEN buffer[i % 2][x] ELSE store[x]]
  BY DEF Evict, Steps, perBatch
<1>2. \A v \in Works \ {"evict"} : Same(v)
  BY SameBut
<1>3. /\ Same("populate") /\ Same("fill") /\ Same("backward") /\ Same("unlock") /\ Same("lookup")
      /\ Same("copy") /\ Same("spill") /\ Same("enqueue") /\ Same("get") /\ Same("sp_evict") /\ Same("compact")
      /\ Same("select") /\ HostOK /\ i \in Batches /\ batch[i] # {}
  BY SameBut DEF Steps, Exists
<1>4. /\ DOMAIN buffer[i % 2] = DOMAIN out[i]
      /\ \A y \in DOMAIN out[i] : buffer[i % 2][y] = Latest(y)
  <2>1. ~ Pending("select", i)' /\ ~ Pending("compact", i)'
    BY Zenon, <1>1, <1>3, SameBut DEF ChainOf
  <2>2. Pending("evict", i) /\ ~ Pending("select", i) /\ ~ Pending("compact", i)
    BY <1>3, <2>1, SameBut DEF Same
  <2>. QED BY Zenon, <1>3, <2>2 DEF Device, Values, Buffers, BufferOf
<1>5. \A x \in Idx : store'[x] = IF x \in DOMAIN out[i] THEN Latest(x) ELSE store[x]
  BY Zenon, <1>1, <1>4
<1>6. Rows'
  <2>1. store' \in [Idx -> Int]
    <3>1. \A x \in Idx : store[x] \in Int
      BY DEF Device, Layout, Rows
    <3>2. \A x \in Idx : store'[x] \in Int
      BY <1>5, <3>1, LatestIsNat
    <3>. QED BY Zenon, <1>1, <3>2
  <2>. QED BY Zenon, <1>1, <2>1 DEF Device, Layout, Rows, UniqueTags
<1>7. Layout'
  BY Zenon, <1>1, <1>3, <1>6, SlotsStay, RecordsStay, FillingsStay, LocatedStays, ConflictsStay, PointersStay
     DEF Device, Layout, Arrays, Same
<1>8. IndexQueue' /\ Locks' /\ Times'
  BY <1>1, <1>3, IndexQueueStays, LocksStay, TimesStay DEF Device, Same
<1>9. \A x : Latest(x)' = Latest(x)
  BY <1>1, <1>3, SameLatest
<1>10. \A x, w : InWay(x, w)' <=> InWay(x, w)
  BY <1>1, <1>3, InWayStays
<1>11. \A j \in Batches : \A x : InPad(x, j)' <=> InPad(x, j)
  BY Zenon, <1>1, <1>3, InPadStays
<1>12. \A j \in Batches : \A x : Leaving(x, j)' <=> Leaving(x, j) /\ j # i
  BY Zenon, <1>1, SameBut DEF Leaving
<1>13. StoreValues'
  <2> SUFFICES ASSUME NEW x \in Idx, InStore(x)' PROVE store'[x] = Latest(x)
    BY <1>9 DEF StoreValues
  <2>1. CASE x \in DOMAIN out[i]
    BY <1>5, <2>1
  <2>2. CASE x \notin DOMAIN out[i]
    <3>1. ~ Leaving(x, i)
      BY <2>2 DEF Leaving
    <3>2. InStore(x)
      BY <1>10, <1>11, <1>12, <3>1 DEF InStore
    <3>. QED BY <1>5, <2>2, <3>2 DEF Device, Values, StoreValues
  <2>. QED BY <2>1, <2>2
<1>14. WayValues' /\ PadValues' /\ LeftValues'
  BY Zenon, <1>1, <1>3, <1>9, <1>10, <1>11, <1>12 DEF Device, Values, WayValues, PadValues, LeftValues, Same
<1>15. OldPads'
  BY Zenon, <1>1, <1>3, <1>9 DEF Device, Values, OldPads, Live, Unlocked, TakenOver, Same
<1>16. Buffers'
  <2> SUFFICES ASSUME NEW j \in Batches PROVE BufferOf(j)'
    BY DEF Buffers
  <2>1. BufferOf(j) /\ (Pending("evict", j)' => Pending("evict", j))
    BY SameBut DEF Device, Values, Buffers
  <2>. QED BY <1>1, <1>3, <1>9, <2>1 DEF BufferOf, Same
<1>17. Flushing' /\ Flushed'
  BY <1>1, FlushingStays, FlushedStays DEF Device
<1>. QED BY <1>7, <1>8, <1>13, <1>14, <1>15, <1>16, <1>17 DEF Device, Values

(* The pad's rows that the next batch did not take over are stored. *)
LEMMA EvictPadDevice ==
    ASSUME EvictPad, NEW i, i = Head(todo["evict"]).i, Steps("sp_evict", i), Device
    PROVE  Device'
<1>1. /\ UNCHANGED <<cache, l1, buffer, idxq, flushed, loc, slot, out, fetch, conflict, spill, found, pad, ptr>>
      /\ UNCHANGED <<pipeline, batch>>
      /\ store' = [x \in Idx |-> IF x \in spill[i] THEN pad[i][x] ELSE store[x]]
  BY DEF EvictPad, Steps, perBatch
<1>2. \A v \in Works \ {"sp_evict"} : Same(v)
  BY SameBut
<1>3. /\ Same("populate") /\ Same("fill") /\ Same("backward") /\ Same("unlock") /\ Same("lookup")
      /\ Same("copy") /\ Same("spill") /\ Same("enqueue") /\ Same("get") /\ Same("evict") /\ Same("compact")
      /\ Same("select") /\ HostOK /\ i \in Batches /\ batch[i] # {}
  BY SameBut DEF Steps, Exists
<1>4. ~ Pending("populate", i) /\ ~ Pending("get", i) /\ ~ Pending("fill", i) /\ ~ Pending("spill", i)
  <2>1. ~ Pending("spill", i)' /\ ~ Pending("fill", i)'
    BY <1>1, <1>3, SameBut DEF ChainOf
  <2>2. ~ Pending("spill", i) /\ ~ Pending("fill", i)
    BY <1>3, <2>1 DEF Same
  <2>3. ~ Pending("populate", i) /\ ~ Pending("get", i)
    BY <2>2, SameBut DEF ChainOf
  <2>. QED BY <2>2, <2>3
<1>5. spill[i] = conflict[i] \ TakenOver(i) /\ spill[i] = Missed(i) \ TakenOver(i)
  BY <1>3, <1>4 DEF Device, Layout, Conflicts, ConflictOf, Missed
<1>6. \A x : InPad(x, i) <=> x \in spill[i]
  BY <1>4, <1>5, SameBut DEF InPad
<1>7. \A x \in Idx : x \in spill[i] => store'[x] = Latest(x)
  BY <1>1, <1>3, <1>6 DEF Device, Values, PadValues
<1>8. Rows'
  <2>1. store' \in [Idx -> Int]
    BY Zenon, <1>1, <1>3 DEF Device, Layout, Rows
  <2>. QED BY Zenon, <1>1, <2>1 DEF Device, Layout, Rows, UniqueTags
<1>9. Layout'
  BY <1>1, <1>3, <1>8, SlotsStay, RecordsStay, FillingsStay, LocatedStays, ConflictsStay, PointersStay
     DEF Device, Layout, Arrays, Same
<1>10. IndexQueue' /\ Locks' /\ Times'
  BY <1>1, <1>3, IndexQueueStays, LocksStay, TimesStay DEF Device, Same
<1>11. \A x : Latest(x)' = Latest(x)
  BY <1>1, <1>3, SameLatest
<1>12. \A x, w : InWay(x, w)' <=> InWay(x, w)
  BY <1>1, <1>3, InWayStays
<1>13. \A j \in Batches : \A x : InPad(x, j)' <=> InPad(x, j) /\ j # i
  <2>1. \A j \in Batches : Missed(j)' = Missed(j) /\ TakenOver(j)' = TakenOver(j)
    BY <1>1, <1>3 DEF Missed, NoWays, TakenOver, Same
  <2>. QED BY <1>1, <1>3, <2>1, SameBut DEF InPad, Same
<1>14. \A j \in Batches : \A x : Leaving(x, j)' <=> Leaving(x, j)
  BY <1>1, <1>3, LeavingStays
<1>15. StoreValues'
  <2> SUFFICES ASSUME NEW x \in Idx, InStore(x)' PROVE store'[x] = Latest(x)
    BY <1>11 DEF StoreValues
  <2>1. CASE x \in spill[i]
    BY <1>7, <2>1
  <2>2. CASE x \notin spill[i]
    <3>1. InStore(x)
      BY <1>6, <1>12, <1>13, <1>14, <2>2 DEF InStore
    <3>. QED BY <1>1, <2>2, <3>1 DEF Device, Values, StoreValues
  <2>. QED BY <2>1, <2>2
<1>16. WayValues' /\ PadValues' /\ LeftValues'
  BY <1>1, <1>3, <1>11, <1>12, <1>13, <1>14 DEF Device, Values, WayValues, PadValues, LeftValues, Same
<1>17. OldPads'
  BY <1>1, <1>3, <1>11 DEF Device, Values, OldPads, Live, Unlocked, TakenOver, Same
<1>18. Buffers'
  BY <1>1, <1>3, BuffersStay DEF Device, Values
<1>19. Flushing' /\ Flushed'
  BY <1>1, FlushingStays, FlushedStays DEF Device
<1>. QED BY <1>9, <1>10, <1>15, <1>16, <1>17, <1>18, <1>19 DEF Device, Values

-----------------------------------------------------------------------------
(* The prefetch: rows come from the store, or from the pad before.         *)
LEMMA LocationFacts ==
    ASSUME NEW c \in Caches, UniqueTags(c), NEW x \in Idx
    PROVE  /\ x # NoIdx /\ NoWay \notin Ways
           /\ Location(c, x) \in Ways \cup {NoWay}
           /\ Location(c, x) = NoWay <=> x \notin Cached(c)
           /\ \A w \in Ways : (Location(c, x) = w <=> c.tag[w] = x) /\ (c.tag[w] = x => x \in Cached(c))
<1>1. x # NoIdx /\ Ways \subseteq Nat \ {0} /\ NoWay \notin Ways
  BY SSDConstants DEF NoWay
<1>2. CASE x \notin Cached(c)
  <2>1. \A w \in Ways : c.tag[w] # x /\ w # NoWay
    BY <1>1, <1>2 DEF Cached
  <2>. QED BY <1>1, <1>2, <2>1 DEF Location
<1>3. CASE x \in Cached(c)
  <2>1. PICK v \in Ways : c.tag[v] = x
    BY <1>3 DEF Cached
  <2>2. {w \in Ways : c.tag[w] = x} = {v}
    BY <1>1, <2>1 DEF UniqueTags
  <2>3. v <= v
    BY <1>1
  <2>4. Min({v}) = v
    BY <2>3 DEF Min
  <2>5. Location(c, x) = v /\ v # NoWay
    BY <1>1, <1>3, <2>1, <2>2, <2>4 DEF Location
  <2>. QED BY <1>1, <1>3, <2>1, <2>2, <2>5
<1>. QED BY <1>2, <1>3

\* One batch fills at a time; the batches after it are not looked up.
LEMMA OneFills ==
    ASSUME Chains, Layout, HostOK, NEW i \in Batches, Pending("fill", i)
    PROVE  /\ \A j \in Batches : i < j => Pending("populate", j) /\ DOMAIN slot[j] = {} /\ DOMAIN out[j] = {}
           /\ TakenOver(i) = {}
           /\ ~ Pending("populate", i) => \A j \in Batches : (Filling(j) <=> j = i) /\ (j < i => ~ Pending("fill", j))
<1>0. Batches \subseteq Nat \ {0}
  BY DEF Batches
<1>1. ASSUME NEW j \in Batches, i < j
      PROVE  Pending("populate", j) /\ DOMAIN slot[j] = {} /\ DOMAIN out[j] = {}
             /\ (pipeline => Pending("lookup", j)) /\ found[j] = {}
  <2>1. Pending("populate", j)
    BY <1>1 DEF Chains, ApartOf
  <2>2. pipeline => Pending("lookup", j)
    BY <1>0, <1>1, <2>1 DEF Chains, ChainOf
  <2>. QED BY <2>1, <2>2 DEF Layout, Slots, SlotsOf, Records, RecordsOf
<1>2. TakenOver(i) = {}
  <2>1. ASSUME NEW j \in Batches, j = i + 1 PROVE found[j] = {}
    <3>1. i < j
      BY <1>0, <2>1
    <3>. QED BY <1>1, <3>1
  <2>. QED BY <2>1 DEF TakenOver
<1>3. ASSUME ~ Pending("populate", i), NEW j \in Batches
      PROVE  (Filling(j) <=> j = i) /\ (j < i => ~ Pending("fill", j))
  <2>1. j < i => ~ Pending("fill", j)
    BY <1>3 DEF Chains, ApartOf
  <2>2. i < j => Pending("populate", j)
    BY <1>1
  <2>. QED BY <1>0, <1>3, <2>1, <2>2 DEF Filling
<1>. QED BY <1>1, <1>2, <1>3

\* A row that the batch misses is nowhere but in the store or the pad before.
LEMMA FetchedFromStore ==
    ASSUME NEW i, Steps("get", i), Layout, NEW x \in Missed(i), x \notin found[i], ~ Pending("populate", i),
           pipeline /\ i > 1 => ~ Pending("lookup", i)
    PROVE  InStore(x)
<1>0. /\ Pending("fill", i) /\ Filling(i) /\ HostOK /\ i \in Batches /\ Batches \subseteq Nat \ {0} /\ Chains
      /\ Same("populate") /\ Same("fill") /\ Same("evict") /\ Same("sp_evict")
  <2>1. Pending("fill", i)
    BY SameBut DEF ChainOf
  <2>. QED BY <2>1, SameBut DEF Filling, Batches
<1>1. x \in batch[i] /\ x \in Idx
  BY <1>0 DEF Missed, NoWays, Layout, Slots, SlotsOf, HostOK
<1>2. ASSUME NEW w \in Ways, InWay(x, w) PROVE FALSE
  <2>1. cache.tag[w] = x /\ x \in Cached(cache) /\ x # NoIdx /\ Location(cache, x) # NoWay
    BY <1>1, <1>2, LocationFacts DEF InWay, Layout, Rows
  <2>2. x \in DOMAIN slot[i]
    BY <1>0, <1>1, <2>1 DEF Missed, NoWays, Layout, Fillings, FillingOf
  <2>3. cache.tag[slot[i][x]] = x /\ slot[i][x] \in Ways
    BY <1>0, <2>2 DEF Layout, Fillings, FillingOf, Slots, SlotsOf
  <2>4. slot[i][x] = w
    BY <2>1, <2>3 DEF Layout, Rows, UniqueTags
  <2>. QED BY <1>0, <1>2, <2>2, <2>4 DEF InWay, BeingFilled
<1>3. ASSUME NEW j \in Batches, InPad(x, j) PROVE FALSE
  <2>1. j # i
    BY <1>3, SameBut DEF InPad
  <2>2. ~ (i < j)
    BY <1>0, <1>3, OneFills DEF InPad
  <2>3. j < i
    BY <1>0, <2>1, <2>2
  <2>4. ~ (j + Gap <= i)
    <3>1. Pending("sp_evict", j)' /\ ~ Pending("get", i)'
      BY <1>0, <1>3, SameBut DEF InPad, Same
    <3>2. j + Gap' <= i => (Pending("sp_evict", j)' => Pending("get", i)')
      BY <2>3, SameBut DEF ApartOf
    <3>3. Gap' = Gap
      BY DEF Steps, Gap
    <3>. QED BY <3>1, <3>2, <3>3
  <2>5. pipeline /\ i = j + 1 /\ i > 1
    BY <1>0, <2>3, <2>4 DEF Gap
  <2>6. ~ Pending("fill", j)
    BY <1>0, <2>3, OneFills DEF Filling
  <2>7. x \in conflict[j]
    BY <1>3, <2>6 DEF InPad, Missed
  <2>8. found[i] = conflict[j] \cap batch[i]
    <3>1. ConflictOf(j) /\ ~ Pending("lookup", j + 1) /\ j + 1 \in Batches
      BY <1>0, <2>5 DEF Layout, Conflicts
    <3>. QED BY <1>0, <2>5, <3>1 DEF ConflictOf
  <2>. QED BY <1>1, <2>7, <2>8
<1>4. ASSUME NEW j \in Batches, Leaving(x, j) PROVE FALSE
  <2>1. j # i
    BY <1>1, <1>4 DEF Leaving, Layout, Slots, SlotsOf
  <2>2. ~ (i < j)
    BY <1>0, <1>4, OneFills DEF Leaving
  <2>3. j < i /\ j # 1
    BY <1>0, <1>4, <2>1, <2>2 DEF Leaving, Layout, Slots, SlotsOf
  <2>4. ~ Pending("populate", j)
    BY <1>4 DEF Leaving, Layout, Slots, SlotsOf
  <2>5. Pending("get", i)'
    BY <1>0, <1>4, <2>3, <2>4, SameBut DEF ApartOf, Leaving, Same
  <2>. QED BY <2>5, SameBut
<1>. QED BY <1>2, <1>3, <1>4 DEF InStore

LEMMA GetDevice ==
    ASSUME Get, NEW i, i = Head(todo[side]).i, Steps("get", i), Device
    PROVE  Device'
<1>0. /\ UNCHANGED <<cache, l1, buffer, store, idxq, flushed, loc, slot, out, fetch, conflict, spill, found, ptr>>
      /\ UNCHANGED <<pipeline, batch>>
  BY DEF Get, Steps
<1>1. pad' = [pad EXCEPT ![i] = [x \in Idx |-> IF x \in fetch[i] THEN store[x] ELSE @[x]]]
  BY DEF Get, Steps
<1>2. \A v \in Works \ {"get"} : Same(v)
  BY SameBut
<1>3. /\ Same("populate") /\ Same("fill") /\ Same("backward") /\ Same("unlock") /\ Same("lookup")
      /\ Same("copy") /\ Same("spill") /\ Same("enqueue") /\ Same("evict") /\ Same("sp_evict") /\ Same("compact")
      /\ Same("select") /\ HostOK /\ i \in Batches /\ Chains /\ Batches \subseteq Nat
  BY SameBut DEF Batches
<1>4. /\ ~ Pending("populate", i) /\ ~ Pending("copy", i) /\ Pending("fill", i) /\ Filling(i)
      /\ (pipeline /\ i > 1 => ~ Pending("lookup", i))
  <2>1. ~ Pending("copy", i)' /\ ~ Pending("select", i)' /\ ~ Pending("compact", i)' /\ ~ Pending("populate", i)'
        /\ (pipeline /\ i > 1 => ~ Pending("lookup", i)')
    BY <1>0, SameBut DEF ChainOf
  <2>2. Pending("fill", i)
    BY SameBut DEF ChainOf
  <2>. QED BY <1>3, <2>1, <2>2 DEF Same, Filling
<1>5. fetch[i] = Missed(i) \ found[i]
  BY <1>3, <1>4 DEF Device, Layout, Fillings, FillingOf
<1>6. /\ pad' \in [Batches -> [Idx -> Int]]
      /\ \A j \in Batches : j # i => pad'[j] = pad[j]
      /\ \A x \in Idx : pad'[i][x] = IF x \in fetch[i] THEN store[x] ELSE pad[i][x]
  <2>1. pad \in [Batches -> [Idx -> Int]] /\ store \in [Idx -> Int]
    BY DEF Device, Layout, Rows
  <2>2. [x \in Idx |-> IF x \in fetch[i] THEN store[x] ELSE pad[i][x]] \in [Idx -> Int]
    BY <1>3, <2>1
  <2>. QED BY Zenon, <1>1, <1>3, <2>1, <2>2
<1>7. Rows'
  BY <1>0, <1>6 DEF Device, Layout, Rows, UniqueTags
<1>8. Layout'
  BY <1>0, <1>3, <1>7, SlotsStay, RecordsStay, FillingsStay, LocatedStays, ConflictsStay, PointersStay
     DEF Device, Layout, Arrays, Same
<1>9. IndexQueue' /\ Locks' /\ Times'
  BY <1>0, <1>3, IndexQueueStays, LocksStay, TimesStay DEF Device, Same
<1>10. \A x : Latest(x)' = Latest(x)
  BY <1>0, <1>3, SameLatest
<1>11. \A x, w : InWay(x, w)' <=> InWay(x, w)
  BY <1>0, <1>3, InWayStays
<1>12. \A j \in Batches : \A x : Leaving(x, j)' <=> Leaving(x, j)
  BY <1>0, <1>3, LeavingStays
<1>13. \A j \in Batches : Missed(j)' = Missed(j) /\ TakenOver(j)' = TakenOver(j)
  BY <1>0, <1>3 DEF Missed, NoWays, TakenOver, Same
<1>14. \A j \in Batches : \A x : /\ j # i => (InPad(x, j)' <=> InPad(x, j))
                                 /\ InPad(x, j) => InPad(x, j)'
  <2> SUFFICES ASSUME NEW j \in Batches
               PROVE  \A x : /\ j # i => (InPad(x, j)' <=> InPad(x, j))
                             /\ InPad(x, j) => InPad(x, j)'
    OBVIOUS
  <2>1. /\ (Pending("populate", j)' <=> Pending("populate", j)) /\ (Pending("sp_evict", j)' <=> Pending("sp_evict", j))
        /\ Missed(j)' = Missed(j) /\ TakenOver(j)' = TakenOver(j) /\ found'[j] = found[j]
    BY <1>0, <1>3, <1>13 DEF Same
  <2>2. ~ Pending("get", i)' /\ (j # i => (Pending("get", j)' <=> Pending("get", j)))
    BY SameBut
  <2>. QED BY Zenon, <2>1, <2>2 DEF InPad
<1>15. \A x : /\ InPad(x, i)' => x \in Missed(i)
              /\ InPad(x, i)' /\ x \in found[i] => InPad(x, i)
  BY <1>0, <1>3, <1>4, <1>13 DEF InPad, Same
<1>16. PadValues'
  <2> SUFFICES ASSUME NEW j \in Batches, NEW x \in Idx, InPad(x, j)' PROVE pad'[j][x] = Latest(x)
    BY <1>10 DEF PadValues
  <2>1. CASE j # i
    <3>1. InPad(x, j) /\ pad'[j] = pad[j]
      BY Zenon, <1>6, <1>14, <2>1
    <3>. QED BY Zenon, <3>1 DEF Device, Values, PadValues
  <2>2. CASE j = i /\ x \in found[i]
    BY Zenon, <1>5, <1>6, <1>15, <2>2 DEF Device, Values, PadValues
  <2>3. CASE j = i /\ x \notin found[i]
    <3>1. x \in Missed(i) /\ x \in fetch[i]
      BY <1>5, <1>15, <2>3
    <3>2. InStore(x)
      BY <1>4, <2>3, <3>1, FetchedFromStore DEF Device
    <3>. QED BY Zenon, <1>6, <2>3, <3>1, <3>2 DEF Device, Values, StoreValues
  <2>. QED BY <2>1, <2>2, <2>3
<1>17. StoreValues'
  <2> SUFFICES ASSUME NEW x \in Idx, InStore(x)' PROVE store[x] = Latest(x)
    BY <1>0, <1>10 DEF StoreValues
  <2>1. InStore(x)
    <3>1. \A w \in Ways : ~ InWay(x, w)
      BY Zenon, <1>11 DEF InStore
    <3>2. \A j \in Batches : ~ InPad(x, j)
      BY Zenon, <1>14 DEF InStore
    <3>3. \A j \in Batches : ~ Leaving(x, j)
      BY Zenon, <1>12 DEF InStore
    <3>. QED BY Zenon, <3>1, <3>2, <3>3 DEF InStore
  <2>. QED BY <2>1 DEF Device, Values, StoreValues
<1>18. WayValues' /\ LeftValues'
  BY <1>0, <1>3, <1>10, <1>11, <1>12 DEF Device, Values, WayValues, LeftValues, Same
<1>19. OldPads'
  <2> SUFFICES ASSUME NEW j \in Batches, NEW x \in Idx, Live(j)', ~ Unlocked(j)', x \in TakenOver(j)',
                      x \in conflict'[j]
               PROVE  pad'[j][x] = Latest(x)
    BY <1>10 DEF OldPads
  <2>1. Live(j) /\ ~ Unlocked(j) /\ x \in TakenOver(j) /\ x \in conflict[j]
    BY <1>0, <1>3, <1>13 DEF Live, Unlocked, Same
  <2>2. j # i
    BY <1>3, <1>4, <2>1, OneFills DEF Device
  <2>. QED BY <1>6, <2>1, <2>2 DEF Device, Values, OldPads
<1>20. Buffers'
  BY <1>0, <1>3, BuffersStay DEF Device, Values
<1>21. Flushing' /\ Flushed'
  BY <1>0, FlushingStays, FlushedStays DEF Device
<1>. QED BY <1>8, <1>9, <1>16, <1>17, <1>18, <1>19, <1>20, <1>21 DEF Device, Values

LEMMA ConflictStays ==
    ASSUME NEW j \in Batches, ConflictOf(j), UNCHANGED <<pipeline, batch, found>>, conflict'[j] = conflict[j],
           loc'[j] = loc[j], spill'[j] = spill[j], Live(j)' <=> Live(j), Unlocked(j)' <=> Unlocked(j),
           Pending("fill", j)' <=> Pending("fill", j), Same("lookup"), Same("spill")
    PROVE  ConflictOf(j)'
<1>1. TakenOver(j)' = TakenOver(j)
  BY DEF TakenOver
<1>. QED BY <1>1 DEF ConflictOf, Same

LEMMA PointerStays ==
    ASSUME NEW j \in Batches, PointersOf(j), UNCHANGED batch, TakenOver(j)' = TakenOver(j), ptr'[j] = ptr[j],
           loc'[j] = loc[j], Live(j)' <=> Live(j), Unlocked(j)' <=> Unlocked(j),
           Pending("fill", j)' <=> Pending("fill", j)
    PROVE  PointersOf(j)'
BY DEF PointersOf

(* The rows fetched are put in their ways; those without one stay in the    *)
(* pad.                                                                     *)
LEMMA FillDevice ==
    ASSUME Fill, NEW i, i = Head(todo[side]).i, Steps("fill", i), Device
    PROVE  Device'
<1> DEFINE row(w) == {x \in DOMAIN slot[i] : slot[i][x] = w}
<1>0. /\ UNCHANGED <<cache, buffer, store, idxq, flushed, loc, slot, out, fetch, spill, found, pad>>
      /\ UNCHANGED <<pipeline, batch>>
  BY DEF Fill, Steps
<1>1. /\ l1' = [w \in Ways |-> IF row(w) = {} THEN l1[w] ELSE pad[i][CHOOSE x \in row(w) : TRUE]]
      /\ ptr' = [ptr EXCEPT ![i] = [x \in batch[i] |-> IF loc[i][x] = NoWay THEN [at |-> "pad", n |-> i]
                                                       ELSE [at |-> "l1", n |-> loc[i][x]]]]
      /\ conflict' = [conflict EXCEPT ![i] = {x \in batch[i] \ DOMAIN slot[i] : loc[i][x] = NoWay}]
  BY DEF Fill, Steps
<1>2. \A v \in Works \ {"fill"} : Same(v)
  BY SameBut
<1>3. /\ Same("populate") /\ Same("backward") /\ Same("unlock") /\ Same("lookup") /\ Same("get")
      /\ Same("copy") /\ Same("spill") /\ Same("enqueue") /\ Same("evict") /\ Same("sp_evict") /\ Same("compact")
      /\ Same("select") /\ HostOK /\ i \in Batches /\ Chains /\ Batches \subseteq Nat \ {0}
      /\ Pending("fill", i) /\ ~ Pending("fill", i)'
      /\ \A j \in Batches : j # i => (Pending("fill", j)' <=> Pending("fill", j))
  BY SameBut DEF Batches
<1>4. /\ ~ Pending("populate", i) /\ ~ Pending("get", i) /\ Filling(i) /\ Live(i)
      /\ ~ Pending("select", i) /\ ~ Unlocked(i)
      /\ Pending("spill", i) /\ Pending("backward", i)
  <2>1. ~ Pending("get", i)' /\ ~ Pending("select", i)' /\ ~ Pending("compact", i)' /\ ~ Pending("populate", i)'
    BY <1>0, SameBut DEF ChainOf
  <2>2. Pending("spill", i) /\ Pending("backward", i) /\ ~ Unlocked(i)
    BY SameBut DEF ChainOf, Unlocked
  <2>. QED BY <1>3, <2>1, <2>2 DEF Same, Filling, Live
<1>5. /\ \A j \in Batches : (Filling(j) <=> j = i) /\ (j < i => ~ Pending("fill", j)) /\ ~ Filling(j)'
      /\ \A j \in Batches : i < j => Pending("populate", j) /\ DOMAIN slot[j] = {} /\ DOMAIN out[j] = {}
      /\ TakenOver(i) = {}
  <2>1. /\ \A j \in Batches : (Filling(j) <=> j = i) /\ (j < i => ~ Pending("fill", j))
        /\ \A j \in Batches : i < j => Pending("populate", j) /\ DOMAIN slot[j] = {} /\ DOMAIN out[j] = {}
        /\ TakenOver(i) = {}
    BY <1>3, <1>4, OneFills DEF Device
  <2>2. \A j \in Batches : ~ Filling(j)'
    BY <1>3, <2>1 DEF Filling, Same
  <2>. QED BY <2>1, <2>2
<1>6. /\ \A x \in batch[i] : x \in Idx /\ loc[i][x] = Location(cache, x) /\ loc[i][x] \in Ways \cup {NoWay}
      /\ \A x \in DOMAIN slot[i] : x \in batch[i] /\ slot[i][x] \in Ways /\ cache.tag[slot[i][x]] = x
      /\ cache \in Caches /\ UniqueTags(cache) /\ NoWay \notin Ways /\ NoIdx \notin Idx
  <2>1. /\ \A x \in batch[i] : x \in Idx /\ loc[i][x] = Location(cache, x)
        /\ \A x \in DOMAIN slot[i] : x \in batch[i] /\ slot[i][x] \in Ways /\ cache.tag[slot[i][x]] = x
    <3>1. FillingOf(i) /\ SlotsOf(i)
      BY Zenon, <1>3 DEF Device, Layout, Fillings, Slots
    <3>2. batch[i] \subseteq Idx
      BY Zenon, <1>3 DEF HostOK
    <3>. QED BY Zenon, <1>4, <3>1, <3>2 DEF FillingOf, SlotsOf
  <2>2. cache \in Caches /\ UniqueTags(cache) /\ NoWay \notin Ways /\ NoIdx \notin Idx
    BY SSDConstants DEF Device, Layout, Rows, NoWay
  <2>3. \A x \in Idx : Location(cache, x) \in Ways \cup {NoWay}
    BY <2>2, LocationFacts
  <2>4. \A x \in batch[i] : loc[i][x] \in Ways \cup {NoWay}
    BY <2>1, <2>3
  <2>. QED BY <2>1, <2>2, <2>4
<1>7. \A x \in DOMAIN slot[i] : loc[i][x] = slot[i][x] /\ loc[i][x] # NoWay /\ x \in Cached(cache)
  BY <1>6, LocationFacts
<1>8. /\ \A j \in Batches : j # i => conflict'[j] = conflict[j] /\ ptr'[j] = ptr[j]
      /\ conflict'[i] = NoWays(i)
      /\ DOMAIN ptr'[i] = batch[i]
      /\ \A x \in batch[i] : ptr'[i][x] = IF loc[i][x] = NoWay THEN [at |-> "pad", n |-> i]
                                          ELSE [at |-> "l1", n |-> loc[i][x]]
  <2>1. conflict'[i] = {x \in batch[i] \ DOMAIN slot[i] : loc[i][x] = NoWay}
    BY Zenon, <1>1, <1>3 DEF Device, Layout, Arrays
  <2>2. conflict'[i] = NoWays(i)
    BY Zenon, <1>7, <2>1 DEF NoWays
  <2>. QED BY Zenon, <1>1, <1>3, <2>2 DEF Device, Layout, Arrays
<1>9. /\ \A w \in Ways : (\A x \in DOMAIN slot[i] : slot[i][x] # w) => l1'[w] = l1[w]
      /\ \A x \in DOMAIN slot[i] : l1'[slot[i][x]] = pad[i][x]
  <2>1. ASSUME NEW w \in Ways, \A x \in DOMAIN slot[i] : slot[i][x] # w PROVE l1'[w] = l1[w]
    <3>1. row(w) = {}
      BY <2>1
    <3>. QED BY Zenon, <1>1, <3>1
  <2>2. ASSUME NEW x \in DOMAIN slot[i] PROVE l1'[slot[i][x]] = pad[i][x]
    <3>1. PICK w \in Ways : w = slot[i][x]
      BY Zenon, <1>6
    <3>2. row(w) = {x}
      BY <1>6, <3>1
    <3>3. (CHOOSE y \in row(w) : TRUE) = x
      BY <3>2
    <3>. QED BY Zenon, <1>1, <3>1, <3>2, <3>3
  <2>. QED BY Zenon, <2>1, <2>2
<1> HIDE DEF row
<1>10. Rows'
  <2>1. ASSUME NEW w \in Ways PROVE l1'[w] \in Int
    <3>1. CASE \A x \in DOMAIN slot[i] : slot[i][x] # w
      <4>1. l1 \in [Ways -> Int]
        BY Zenon DEF Device, Layout, Rows
      <4>2. l1[w] \in Int
        BY <4>1
      <4>. QED BY Zenon, <1>9, <3>1, <4>2
    <3>2. CASE \E x \in DOMAIN slot[i] : slot[i][x] = w
      <4>1. PICK x \in DOMAIN slot[i] : slot[i][x] = w
        BY <3>2
      <4>2. l1'[w] = pad[i][x] /\ x \in Idx
        BY Zenon, <1>6, <1>9, <4>1
      <4>3. pad \in [Batches -> [Idx -> Int]]
        BY Zenon DEF Device, Layout, Rows
      <4>. QED BY <1>3, <4>2, <4>3
    <3>. QED BY <3>1, <3>2
  <2>2. l1' \in [Ways -> Int]
    BY Zenon, <1>1, <2>1
  <2>. QED BY <1>0, <2>2 DEF Device, Layout, Rows, UniqueTags
<1>11. Arrays'
  BY Zenon, <1>0, <1>1 DEF Device, Layout, Arrays
<1>12. Slots' /\ Located'
  BY <1>0, <1>3, SlotsStay, LocatedStays DEF Device, Layout, Same
<1>13. Fillings'
  BY <1>5 DEF Fillings, FillingOf
<1>14. \A j \in Batches : (Live(j)' <=> Live(j)) /\ (Unlocked(j)' <=> Unlocked(j)) /\ TakenOver(j)' = TakenOver(j)
  BY <1>0, <1>3 DEF Live, Unlocked, TakenOver, Same
<1>15. Records'
  <2> SUFFICES ASSUME NEW j \in Batches PROVE RecordsOf(j)'
    BY DEF Records
  <2>1. RecordsOf(j)
    BY DEF Device, Layout, Records
  <2>2. CASE j # i
    BY Zenon, <1>0, <1>3, <1>8, <1>14, <2>1, <2>2 DEF RecordsOf, Same
  <2>3. CASE j = i
    <3>1. conflict'[i] \subseteq batch[i]
      BY Zenon, <1>8 DEF NoWays
    <3>. QED BY Zenon, <1>0, <1>3, <1>4, <1>8, <1>14, <2>1, <2>3, <3>1 DEF RecordsOf, Same
  <2>. QED BY <2>2, <2>3
<1>16. pipeline /\ i + 1 \in Batches => Pending("lookup", i + 1)
  <2>1. ASSUME pipeline, NEW j \in Batches, j = i + 1 PROVE Pending("lookup", j)
    <3>1. Pending("populate", j) /\ j > 1
      BY <1>3, <1>5, <2>1
    <3>. QED BY <1>3, <2>1, <3>1 DEF Chains, ChainOf
  <2>. QED BY <2>1
<1>17. Conflicts'
  <2> SUFFICES ASSUME NEW j \in Batches PROVE ConflictOf(j)'
    BY DEF Conflicts
  <2>1. ConflictOf(j)
    BY DEF Device, Layout, Conflicts
  <2>2. CASE j # i
    <3>1. conflict'[j] = conflict[j] /\ (Pending("fill", j)' <=> Pending("fill", j))
      BY Zenon, <1>3, <1>8, <2>2
    <3>. QED BY <1>0, <1>3, <1>14, <2>1, <3>1, ConflictStays
  <2>3. CASE j = i
    <3>1. \A x \in batch[i] : x \in conflict'[i] <=> loc[i][x] = NoWay
      BY Zenon, <1>8 DEF NoWays
    <3>2. pipeline' /\ i + 1 \in Batches => Pending("lookup", i + 1)'
      BY <1>0, <1>3, <1>16 DEF Same
    <3>3. Pending("spill", i)'
      BY <1>3, <1>4 DEF Same
    <3>. QED BY Zenon, <1>0, <2>3, <3>1, <3>2, <3>3 DEF ConflictOf
  <2>. QED BY <2>2, <2>3
<1>18. Pointers'
  <2> SUFFICES ASSUME NEW j \in Batches PROVE PointersOf(j)'
    BY DEF Pointers
  <2>1. CASE j # i
    <3>1. ptr'[j] = ptr[j] /\ (Pending("fill", j)' <=> Pending("fill", j))
      BY Zenon, <1>3, <1>8, <2>1
    <3>2. PointersOf(j)
      BY DEF Device, Layout, Pointers
    <3>. QED BY <1>0, <1>14, <3>1, <3>2, PointerStays
  <2>2. CASE j = i
    <3>1. ~ Unlocked(i)'
      BY <1>4, <1>14, <2>2
    <3>2. \A x \in batch'[i] : ptr'[i][x] = IF loc'[i][x] # NoWay THEN [at |-> "l1", n |-> loc'[i][x]]
                                            ELSE [at |-> "pad", n |-> i]
      BY Zenon, <1>0, <1>8
    <3>. QED BY Zenon, <2>2, <3>1, <3>2 DEF PointersOf
  <2>. QED BY <2>1, <2>2
<1>19. Layout'
  BY <1>10, <1>11, <1>12, <1>13, <1>15, <1>17, <1>18 DEF Layout
<1>20. IndexQueue'
  <2>1. \A j \in Batches : InQueue(j)' <=> InQueue(j)
    BY <1>0, <1>3 DEF InQueue, Same
  <2>2. ~ InQueue(i)
    BY <1>3, <1>4, SameBut DEF InQueue, ChainOf
  <2>. QED BY Zenon, <1>0, <1>8, <2>1, <2>2 DEF Device, IndexQueue
<1>21. Locks' /\ Times'
  BY <1>0, <1>3, LocksStay, TimesStay DEF Device, Same
<1>22. \A x : Latest(x)' = Latest(x)
  BY <1>0, <1>3, SameLatest
<1>23. \A x, w : InWay(x, w)' <=> cache.tag[w] = x
  BY <1>0, <1>5 DEF InWay, BeingFilled
<1>24. \A x, w : InWay(x, w) <=> cache.tag[w] = x /\ \A y \in DOMAIN slot[i] : slot[i][y] # w
  BY <1>3, <1>5 DEF InWay, BeingFilled
<1>25. /\ \A j \in Batches : j # i => Missed(j)' = Missed(j)
       /\ Missed(i)' = NoWays(i) /\ Missed(i) = NoWays(i) \cup DOMAIN slot[i]
  BY Zenon, <1>0, <1>3, <1>8 DEF Missed, NoWays
<1>26. \A x : /\ \A j \in Batches : j # i => (InPad(x, j)' <=> InPad(x, j))
              /\ InPad(x, i)' => InPad(x, i)
              /\ InPad(x, i) => InPad(x, i)' \/ x \in DOMAIN slot[i]
  BY <1>0, <1>3, <1>14, <1>25 DEF InPad, Same
<1>27. \A x \in DOMAIN slot[i] : InPad(x, i)
  <2>1. ASSUME NEW x \in DOMAIN slot[i] PROVE Pending("sp_evict", i)
    <3>1. batch[i] # {}
      BY Zenon, <1>6
    <3>. QED BY <1>4, <3>1, SameBut DEF ChainOf
  <2>. QED BY Zenon, <1>4, <1>5, <1>25, <2>1 DEF InPad
<1>28. \A j \in Batches : \A x : Leaving(x, j)' <=> Leaving(x, j)
  BY <1>0, <1>3, LeavingStays
<1>29. WayValues'
  <2> SUFFICES ASSUME NEW w \in Ways, NEW x \in Idx, cache.tag[w] = x PROVE l1'[w] = Latest(x)
    BY <1>22, <1>23 DEF WayValues
  <2>1. CASE \A y \in DOMAIN slot[i] : slot[i][y] # w
    BY Zenon, <1>9, <1>24, <2>1 DEF Device, Values, WayValues
  <2>2. CASE \E y \in DOMAIN slot[i] : slot[i][y] = w
    <3>1. x \in DOMAIN slot[i] /\ slot[i][x] = w
      BY Zenon, <1>6, <2>2
    <3>2. pad[i][x] = Latest(x)
      BY <1>3, <1>27, <3>1 DEF Device, Values, PadValues
    <3>. QED BY <1>9, <3>1, <3>2
  <2>. QED BY <2>1, <2>2
<1>30. PadValues'
  BY <1>0, <1>22, <1>26 DEF Device, Values, PadValues
<1>31. LeftValues'
  <2> SUFFICES ASSUME NEW j \in Batches, NEW y \in Idx, Leaving(y, j), Pending("select", j) PROVE FALSE
    BY <1>3, <1>28 DEF LeftValues, Same
  <2>1. j # i
    BY <1>4
  <2>2. ~ (i < j)
    BY <1>5 DEF Leaving
  <2>3. j < i
    BY <1>3, <2>1, <2>2
  <2>4. Pending("select", i)
    BY <1>3, <2>3, SameBut DEF ApartOf, InStep
  <2>. QED BY <1>4, <2>4
<1>32. OldPads'
  <2> SUFFICES ASSUME NEW j \in Batches, NEW x \in Idx, Live(j), ~ Unlocked(j), x \in TakenOver(j), x \in conflict'[j]
               PROVE  pad[j][x] = Latest(x)
    BY <1>0, <1>14, <1>22 DEF OldPads
  <2>1. j # i
    BY <1>5
  <2>. QED BY Zenon, <1>8, <2>1 DEF Device, Values, OldPads
<1>33. StoreValues'
  <2> SUFFICES ASSUME NEW x \in Idx, InStore(x)' PROVE store[x] = Latest(x)
    BY <1>0, <1>22 DEF StoreValues
  <2>1. \A w \in Ways : ~ InWay(x, w)
    BY <1>23, <1>24 DEF InStore
  <2>2. x \notin DOMAIN slot[i]
    BY Zenon, <1>6, <1>23 DEF InStore
  <2>3. InStore(x)
    BY <1>26, <1>28, <2>1, <2>2 DEF InStore
  <2>. QED BY <2>3 DEF Device, Values, StoreValues
<1>34. Buffers'
  BY <1>0, <1>3, BuffersStay DEF Device, Values
<1>35. Flushing' /\ Flushed'
  BY <1>0, FlushingStays, FlushedStays DEF Device
<1>. QED BY <1>19, <1>20, <1>21, <1>29, <1>30, <1>31, <1>32, <1>33, <1>34, <1>35 DEF Device, Values

(* A row in the pad before that the batch needs is copied from it: no other *)
(* batch has it.                                                            *)
LEMMA LookupDevice ==
    ASSUME LookupPad, NEW i, i = Head(todo[side]).i, NEW k, k = Head(todo[side]).k, k = i - 1,
           Steps("lookup", i), Device
    PROVE  Device'
<1>0. /\ UNCHANGED <<cache, l1, buffer, store, flushed, loc, slot, out, conflict, ptr>>
      /\ UNCHANGED <<pipeline, batch>>
  BY Zenon DEF LookupPad, Steps
<1>1. PICK hit :
      /\ hit = fetch[i] \cap Head(idxq)
      /\ idxq' = Tail(idxq) /\ fetch' = [fetch EXCEPT ![i] = @ \ hit]
      /\ spill' = [spill EXCEPT ![k] = @ \ hit] /\ found' = [found EXCEPT ![i] = hit]
      /\ pad' = [pad EXCEPT ![i] = [x \in Idx |-> IF x \in hit THEN pad[k][x] ELSE @[x]]]
  BY Zenon DEF LookupPad
<1>2. \A v \in Works \ {"lookup"} : Same(v)
  BY SameBut
<1>3. /\ Same("populate") /\ Same("backward") /\ Same("unlock") /\ Same("fill") /\ Same("get")
      /\ Same("copy") /\ Same("spill") /\ Same("enqueue") /\ Same("evict") /\ Same("sp_evict") /\ Same("compact")
      /\ Same("select") /\ HostOK /\ i \in Batches /\ Chains /\ Batches \subseteq Nat \ {0}
      /\ Pending("lookup", i) /\ ~ Pending("lookup", i)'
      /\ \A j \in Batches : j # i => (Pending("lookup", j)' <=> Pending("lookup", j))
  BY SameBut DEF Batches
<1>4. pipeline /\ i > 1 /\ k \in Batches /\ k < i /\ i = k + 1
  <2>1. pipeline /\ i > 1
    BY DEF Steps, Exists
  <2>. QED BY <1>3, <2>1, SSDConstants DEF Batches
<1>5. /\ Pending("get", i) /\ Pending("fill", i) /\ Pending("enqueue", i)
      /\ ~ Pending("populate", i) /\ ~ Pending("copy", i) /\ Filling(i)
  <2>1. Pending("get", i) /\ Pending("fill", i) /\ Pending("enqueue", i)
    BY <1>4, SameBut DEF ChainOf
  <2>2. ~ Pending("populate", i)' /\ ~ Pending("copy", i)'
    BY <1>0, <1>4, SameBut DEF ChainOf
  <2>. QED BY <1>3, <2>1, <2>2 DEF Same, Filling
<1>6. /\ \A j \in Batches : (Filling(j) <=> j = i) /\ (j < i => ~ Pending("fill", j))
      /\ TakenOver(i) = {}
  BY <1>3, <1>5, OneFills DEF Device
<1>7. /\ ~ Pending("fill", k) /\ Live(k) /\ ~ Unlocked(k) /\ Pending("backward", k) /\ ~ Pending("get", k)
      /\ ~ Pending("populate", k) /\ ~ Pending("enqueue", k) /\ ~ Pending("spill", k)
  <2>1. ~ Pending("fill", k) /\ ChainOf(k)
    BY <1>3, <1>4, <1>6 DEF Chains
  <2>2. Pending("unlock", k)
    BY <1>4, <1>5, SameBut DEF ApartOf
  <2>3. ~ Pending("enqueue", k)
    BY Zenon, <1>0, <1>3, <1>4, SameBut DEF ApartOf, Same
  <2>. QED BY <1>4, <2>1, <2>2, <2>3 DEF ChainOf, Live, Unlocked
<1>8. found[i] = {} /\ TakenOver(k) = {}
  <2>1. found[i] = {}
    BY <1>3 DEF Device, Layout, Records, RecordsOf
  <2>. QED BY <1>3, <1>4, <2>1 DEF TakenOver
<1>9. idxq = <<conflict[k]>> /\ spill[k] = conflict[k] /\ fetch[i] = Missed(i)
      /\ Missed(i) = DOMAIN slot[i] \cup NoWays(i) /\ Missed(k) = conflict[k]
  <2>1. InQueue(k)
    BY <1>3, <1>4, <1>7 DEF InQueue
  <2>2. idxq = <<conflict[k]>>
    BY <1>4, <2>1 DEF Device, IndexQueue
  <2>3. spill[k] = conflict[k]
    <3>1. ConflictOf(k)
      BY Zenon, <1>4 DEF Device, Layout, Conflicts
    <3>2. ~ Pending("spill", k)
      BY <1>7
    <3>. QED BY <1>8, <3>1, <3>2 DEF ConflictOf
  <2>4. fetch[i] = Missed(i)
    BY Zenon, <1>3, <1>5, <1>8 DEF Device, Layout, Fillings, FillingOf
  <2>. QED BY Zenon, <1>5, <1>7, <2>2, <2>3, <2>4 DEF Missed
<1>10. hit = Missed(i) \cap conflict[k] /\ hit = conflict[k] \cap batch[i]
  <2>1. hit = Missed(i) \cap conflict[k]
    BY <1>1, <1>9
  <2>2. Missed(i) \subseteq batch[i]
    BY Zenon, <1>3, <1>9 DEF NoWays, Device, Layout, Slots, SlotsOf
  <2>3. ASSUME NEW x \in conflict[k] \cap batch[i], x \notin Missed(i) PROVE FALSE
    <3>1. x \in batch[k] /\ x \in Idx
      BY Zenon, <1>3, <1>4, <2>3 DEF Device, Layout, Records, RecordsOf, HostOK
    <3>2. loc[k][x] = NoWay
      BY <1>4, <1>7, <2>3, <3>1 DEF Device, Layout, Conflicts, ConflictOf
    <3>3. Location(cache, x) # NoWay
      BY Zenon, <1>3, <1>5, <1>9, <2>3 DEF NoWays, Device, Layout, Fillings, FillingOf
    <3>4. x \in Cached(cache)
      BY <3>1, <3>3, LocationFacts DEF Device, Layout, Rows
    <3>5. x \in DOMAIN slot[k + 1]
      BY <1>4, <1>7, <3>1, <3>2, <3>4 DEF Device, Layout, Located, LocatedOf
    <3>. QED BY Zenon, <1>3, <1>4, <1>9, <2>3, <3>5
  <2>. QED BY <2>1, <2>2, <2>3
<1>11. /\ \A j \in Batches : /\ j # i => found'[j] = found[j] /\ fetch'[j] = fetch[j] /\ pad'[j] = pad[j]
                             /\ j # k => spill'[j] = spill[j]
       /\ found'[i] = hit /\ fetch'[i] = Missed(i) \ hit /\ spill'[k] = conflict[k] \ hit
       /\ \A x \in hit \cap Idx : pad'[i][x] = pad[k][x]
       /\ pad' \in [Batches -> [Idx -> Int]]
  <2>1. /\ \A j \in Batches : /\ j # i => found'[j] = found[j] /\ fetch'[j] = fetch[j]
                              /\ j # k => spill'[j] = spill[j]
        /\ found'[i] = hit /\ fetch'[i] = Missed(i) \ hit /\ spill'[k] = conflict[k] \ hit
    BY Zenon, <1>1, <1>3, <1>4, <1>9 DEF Device, Layout, Arrays
  <2>2. pad \in [Batches -> [Idx -> Int]]
    BY DEF Device, Layout, Rows
  <2>3. [x \in Idx |-> IF x \in hit THEN pad[k][x] ELSE pad[i][x]] \in [Idx -> Int]
    BY Zenon, <1>3, <1>4, <2>2
  <2>. QED BY Zenon, <1>1, <1>3, <2>1, <2>2, <2>3
<1>12. Arrays' /\ Rows'
  <2>1. Arrays'
    BY Zenon, <1>0, <1>1 DEF Device, Layout, Arrays
  <2>2. Rows'
    BY <1>0, <1>11 DEF Device, Layout, Rows, UniqueTags
  <2>. QED BY <2>1, <2>2
<1>13. Slots' /\ Located' /\ Locks' /\ Times'
  BY <1>0, <1>3, SlotsStay, LocatedStays, LocksStay, TimesStay DEF Device, Layout, Same
<1>14. \A j \in Batches : /\ (Live(j)' <=> Live(j)) /\ (Unlocked(j)' <=> Unlocked(j)) /\ (Filling(j)' <=> Filling(j))
                          /\ Missed(j)' = Missed(j)
  BY Zenon, <1>0, <1>3 DEF Live, Unlocked, Filling, Missed, NoWays, Same
<1>15. /\ TakenOver(k)' = hit
       /\ \A j \in Batches : j # k => TakenOver(j)' = TakenOver(j)
  <2>1. TakenOver(k)' = hit
    BY Zenon, <1>3, <1>4, <1>11 DEF TakenOver
  <2>2. ASSUME NEW j \in Batches, j # k PROVE j + 1 # i
    BY <1>3, <1>4, <2>2
  <2>. QED BY Zenon, <1>11, <2>1, <2>2 DEF TakenOver
<1>16. Records'
  <2> SUFFICES ASSUME NEW j \in Batches PROVE RecordsOf(j)'
    BY DEF Records
  <2>1. RecordsOf(j)
    BY DEF Device, Layout, Records
  <2>2. ~ pipeline \/ j = 1 \/ Pending("lookup", j)' => found'[j] = {}
    BY <1>3, <1>4, <1>11, <2>1 DEF RecordsOf
  <2>. QED BY <1>0, <1>3, <1>14, <2>1, <2>2 DEF RecordsOf, Same
<1>17. Fillings'
  <2> SUFFICES ASSUME NEW j \in Batches, j = i PROVE FillingOf(j)'
    BY <1>6, <1>14 DEF Fillings, FillingOf
  <2>1. FillingOf(i)
    BY <1>3 DEF Device, Layout, Fillings
  <2>. QED BY Zenon, <1>0, <1>11, <1>14, <2>1 DEF FillingOf
<1>18. Conflicts'
  <2> SUFFICES ASSUME NEW j \in Batches PROVE ConflictOf(j)'
    BY DEF Conflicts
  <2>1. ConflictOf(j)
    BY DEF Device, Layout, Conflicts
  <2>2. CASE j = k
    <3>1. \A x \in batch[k] : /\ loc[k][x] = NoWay => x \in conflict[k]
                              /\ x \in conflict[k] => loc[k][x] = NoWay
      BY Zenon, <1>7, <2>1, <2>2 DEF ConflictOf
    <3>2. found'[k + 1] = conflict[k] \cap batch[k + 1]
      BY Zenon, <1>3, <1>4, <1>10, <1>11
    <3>. QED BY Zenon, <1>0, <1>11, <1>15, <2>2, <3>1, <3>2 DEF ConflictOf
  <2>3. CASE j # k
    <3>1. j + 1 \in Batches => found'[j + 1] = found[j + 1] /\ (Pending("lookup", j + 1)' <=> Pending("lookup", j + 1))
      <4>1. j + 1 # i
        BY <1>3, <1>4, <2>3
      <4>. QED BY Zenon, <1>3, <1>11, <4>1
    <3>2. TakenOver(j)' = TakenOver(j) /\ spill'[j] = spill[j]
      BY <1>11, <1>15, <2>3
    <3>. QED BY <1>0, <1>3, <1>14, <2>1, <3>1, <3>2 DEF ConflictOf, Same
  <2>. QED BY <2>2, <2>3
<1>19. Pointers'
  <2> SUFFICES ASSUME NEW j \in Batches PROVE PointersOf(j)'
    BY DEF Pointers
  <2>1. PointersOf(j)
    BY DEF Device, Layout, Pointers
  <2>2. CASE j = k
    <3>1. ~ Unlocked(j) /\ ~ Unlocked(j)'
      BY <1>7, <1>14, <2>2
    <3>. QED BY <1>0, <1>3, <1>14, <2>1, <3>1 DEF PointersOf, Same
  <2>3. CASE j # k
    <3>1. TakenOver(j)' = TakenOver(j) /\ (Pending("fill", j)' <=> Pending("fill", j))
      BY <1>3, <1>15, <2>3 DEF Same
    <3>. QED BY <1>0, <1>14, <2>1, <3>1, PointerStays
  <2>. QED BY <2>2, <2>3
<1>20. IndexQueue'
  <2>1. ASSUME NEW j \in Batches PROVE ~ InQueue(j)'
    <3>1. CASE i <= j
      <4>1. Pending("enqueue", j)
        BY <1>3, <1>4, <1>5, <3>1, SameBut DEF ApartOf
      <4>. QED BY <1>3, <4>1 DEF InQueue, Same
    <3>2. CASE j = k
      BY <1>3, <1>4, <3>2 DEF InQueue
    <3>3. CASE j < k
      <4>1. PICK h \in Batches : h = j + 1 /\ h < i /\ h > 1 /\ h # i
        BY <1>3, <1>4, <3>3, SSDConstants DEF Batches
      <4>2. ~ Pending("lookup", h)
        BY <1>3, <1>4, <1>6, <4>1 DEF Chains, ChainOf
      <4>. QED BY <1>3, <4>1, <4>2 DEF InQueue
    <3>. QED BY <1>3, <1>4, <3>1, <3>2, <3>3
  <2>2. idxq' = <<>>
    BY <1>1, <1>9
  <2>. QED BY <2>1, <2>2 DEF IndexQueue
<1>21. \A x : Latest(x)' = Latest(x)
  BY <1>0, <1>3, SameLatest
<1>22. \A x, w : InWay(x, w)' <=> InWay(x, w)
  BY <1>0, <1>3, InWayStays
<1>23. \A j \in Batches : \A x : Leaving(x, j)' <=> Leaving(x, j)
  BY <1>0, <1>3, LeavingStays
<1>24. \A x : /\ \A j \in Batches : j # i /\ j # k => (InPad(x, j)' <=> InPad(x, j))
              /\ InPad(x, k)' <=> InPad(x, k) /\ x \notin hit
              /\ ~ InPad(x, i) /\ (InPad(x, i)' => x \in hit)
  <2>1. \A x : \A j \in Batches : j # i /\ j # k => (InPad(x, j)' <=> InPad(x, j))
    <3>1. ASSUME NEW j \in Batches, j # i, j # k PROVE \A x : InPad(x, j)' <=> InPad(x, j)
      <4>1. /\ (Pending("populate", j)' <=> Pending("populate", j)) /\ (Pending("get", j)' <=> Pending("get", j))
            /\ (Pending("sp_evict", j)' <=> Pending("sp_evict", j))
        BY Zenon, <1>3 DEF Same
      <4>2. Missed(j)' = Missed(j) /\ TakenOver(j)' = TakenOver(j) /\ found'[j] = found[j]
        BY Zenon, <1>11, <1>14, <1>15, <3>1
      <4>. QED BY Zenon, <4>1, <4>2 DEF InPad
    <3>. QED BY Zenon, <3>1
  <2>2. \A x : InPad(x, k)' <=> InPad(x, k) /\ x \notin hit
    BY Zenon, <1>3, <1>4, <1>7, <1>8, <1>14, <1>15 DEF InPad, Same
  <2>3. \A x : ~ InPad(x, i) /\ (InPad(x, i)' => x \in hit)
    BY Zenon, <1>3, <1>5, <1>8, <1>11 DEF InPad, Same
  <2>. QED BY <2>1, <2>2, <2>3
<1>25. \A x \in hit : x \in Idx /\ InPad(x, k) /\ InPad(x, i)'
  <2> SUFFICES ASSUME NEW x \in hit PROVE x \in Idx /\ InPad(x, k) /\ InPad(x, i)'
    OBVIOUS
  <2>1. x \in batch[i] /\ x \in batch[k] /\ x \in Idx
    BY Zenon, <1>3, <1>4, <1>10 DEF Device, Layout, Records, RecordsOf, HostOK
  <2>2. Pending("sp_evict", k)
    BY Zenon, <1>3, <1>4, <1>7, <2>1 DEF Chains, ChainOf
  <2>3. Pending("sp_evict", i)
    BY Zenon, <1>5, <2>1, SameBut DEF ChainOf
  <2>4. InPad(x, k)
    BY Zenon, <1>7, <1>8, <1>9, <1>10, <2>2 DEF InPad
  <2>5. ~ Pending("populate", i)' /\ Pending("sp_evict", i)'
    BY <1>3, <1>5, <2>3 DEF Same
  <2>6. x \in Missed(i)' /\ x \notin TakenOver(i)' /\ x \in found'[i]
    BY <1>3, <1>4, <1>6, <1>10, <1>11, <1>14, <1>15
  <2>7. InPad(x, i)'
    BY <2>5, <2>6 DEF InPad
  <2>. QED BY <2>1, <2>4, <2>7
<1>26. \A x \in hit : x \in Idx /\ pad[k][x] = Latest(x) /\ pad'[i][x] = Latest(x) /\ pad'[k][x] = Latest(x)
  <2> SUFFICES ASSUME NEW x \in hit
               PROVE  x \in Idx /\ pad[k][x] = Latest(x) /\ pad'[i][x] = Latest(x) /\ pad'[k][x] = Latest(x)
    OBVIOUS
  <2>1. x \in Idx /\ InPad(x, k)
    BY <1>25
  <2>2. pad[k][x] = Latest(x)
    BY <1>4, <2>1 DEF Device, Values, PadValues
  <2>3. pad'[k] = pad[k] /\ pad'[i][x] = pad[k][x]
    BY <1>3, <1>4, <1>11, <2>1
  <2>. QED BY <2>1, <2>2, <2>3
<1>27. PadValues'
  <2> SUFFICES ASSUME NEW j \in Batches, NEW x \in Idx, InPad(x, j)' PROVE pad'[j][x] = Latest(x)
    BY <1>21 DEF PadValues
  <2>1. CASE j = i
    BY Zenon, <1>24, <1>26, <2>1
  <2>2. CASE j # i
    <3>1. InPad(x, j) /\ pad'[j] = pad[j]
      BY Zenon, <1>11, <1>24, <2>2
    <3>. QED BY <3>1 DEF Device, Values, PadValues
  <2>. QED BY <2>1, <2>2
<1>28. OldPads'
  <2> SUFFICES ASSUME NEW j \in Batches, NEW x \in Idx, Live(j), ~ Unlocked(j), x \in TakenOver(j)', x \in conflict[j]
               PROVE  pad'[j][x] = Latest(x)
    BY <1>0, <1>14, <1>21 DEF OldPads
  <2>1. CASE j = k
    BY Zenon, <1>15, <1>26, <2>1
  <2>2. CASE j # k
    <3>1. x \in TakenOver(j)
      BY <1>15, <2>2
    <3>2. j # i
      BY <1>6, <3>1
    <3>. QED BY <1>11, <3>1, <3>2 DEF Device, Values, OldPads
  <2>. QED BY <2>1, <2>2
<1>29. StoreValues'
  <2> SUFFICES ASSUME NEW x \in Idx, InStore(x)' PROVE store[x] = Latest(x)
    BY <1>0, <1>21 DEF StoreValues
  <2>1. x \notin hit
    BY <1>3, <1>25 DEF InStore
  <2>2. InStore(x)
    BY <1>22, <1>23, <1>24, <2>1 DEF InStore
  <2>. QED BY <2>2 DEF Device, Values, StoreValues
<1>30. WayValues' /\ LeftValues'
  BY <1>0, <1>3, <1>21, <1>22, <1>23 DEF Device, Values, WayValues, LeftValues, Same
<1>31. Buffers'
  BY <1>0, <1>3, BuffersStay DEF Device, Values
<1>32. Flushing' /\ Flushed'
  BY <1>0, FlushingStays, FlushedStays DEF Device
<1>33. Layout'
  BY <1>12, <1>13, <1>16, <1>17, <1>18, <1>19 DEF Layout
<1>. QED BY <1>13, <1>20, <1>27, <1>28, <1>29, <1>30, <1>31, <1>32, <1>33 DEF Device, Values

-----------------------------------------------------------------------------
(* The rows of a batch get their ways.                                     *)
LEMMA WaysGiven ==
    ASSUME NEW c, NEW missed, NEW now, NEW locking, NEW a \in SSDAssignments(c, missed, now, locking)
    PROVE  /\ DOMAIN a \subseteq missed /\ \A x, y \in DOMAIN a : a[x] = a[y] => x = y
           /\ \A x \in DOMAIN a : /\ a[x] \in Ways /\ ~ (locking /\ c.lock[a[x]] > 0)
                                  /\ ~ (c.tag[a[x]] # NoIdx /\ c.time[a[x]] = now)
<1> DEFINE free == {w \in Ways : /\ ~ (locking /\ c.lock[w] > 0)
                                 /\ ~ (c.tag[w] # NoIdx /\ c.time[w] = now)}
           k == Min({Cardinality(missed), Cardinality(free)})
<1>1. PICK W \in OldestWays(c, free, k) : a \in Assignments(missed, W)
  BY Zenon DEF SSDAssignments
<1>2. W \subseteq free
  BY <1>1 DEF OldestWays, kSubset
<1>3. PICK S \in kSubset(Cardinality(W), missed) :
          a \in {f \in [S -> W] : \A x, y \in S : f[x] = f[y] => x = y}
  BY <1>1 DEF Assignments
<1>4. S \subseteq missed /\ a \in [S -> W] /\ DOMAIN a = S /\ \A x, y \in S : a[x] = a[y] => x = y
  BY <1>3 DEF kSubset
<1>. QED BY <1>2, <1>4

\* The cache after an insertion of the rows of a into c, and what it evicts.
WellInserted(c, B, now, locking, a, new) ==
    /\ new \in Caches /\ UniqueTags(new)
    /\ DOMAIN a \subseteq B \ Cached(c) /\ \A x, y \in DOMAIN a : a[x] = a[y] => x = y
    /\ \A x \in DOMAIN a : /\ a[x] \in Ways /\ new.tag[a[x]] = x /\ c.tag[a[x]] \notin B
                           /\ locking => c.lock[a[x]] = 0
    /\ \A w \in Ways : (\A x \in DOMAIN a : a[x] # w) => new.tag[w] = c.tag[w]
    /\ \A w \in Ways : new.time[w] \in {c.time[w], now}
    /\ \A w \in Ways : new.lock[w] = IF locking /\ new.tag[w] \in B THEN c.lock[w] + 1 ELSE c.lock[w]

WellEvicted(c, B, a, rows) ==
    /\ DOMAIN rows \subseteq Idx \ B /\ DOMAIN rows \subseteq Cached(c)
    /\ \A y \in DOMAIN rows : rows[y] \in Ways /\ c.tag[rows[y]] = y /\ \E x \in DOMAIN a : a[x] = rows[y]
    /\ \A x \in DOMAIN a : c.tag[a[x]] # NoIdx => c.tag[a[x]] \in DOMAIN rows

LEMMA InsertFacts ==
    ASSUME NEW c \in Caches, UniqueTags(c), NEW B \in SUBSET Idx, NEW now \in Nat, NEW locking \in BOOLEAN,
           \A w \in Ways : c.time[w] < now,
           NEW a \in SSDAssignments(Touch(c, B, now, locking), B \ Cached(c), now, locking),
           NEW new, new = Insert(Touch(c, B, now, locking), a, now, locking)
    PROVE  WellInserted(c, B, now, locking, a, new)
<1> DEFINE c1 == Touch(c, B, now, locking)
           taken == {a[x] : x \in DOMAIN a}
           owner(w) == CHOOSE x \in DOMAIN a : a[x] = w
<1>0. /\ NoIdx \notin Idx /\ NoIdx \notin B
      /\ c = [tag |-> c.tag, time |-> c.time, lock |-> c.lock]
      /\ c.tag \in [Ways -> Idx \cup {NoIdx}] /\ c.time \in [Ways -> Nat] /\ c.lock \in [Ways -> Nat]
  BY SSDConstants DEF Caches
<1>1. /\ c1.tag = c.tag
      /\ c1.time = [w \in Ways |-> IF c.tag[w] \in B THEN now ELSE c.time[w]]
      /\ c1.lock = [w \in Ways |-> IF locking /\ c.tag[w] \in B /\ c.time[w] # now THEN c.lock[w] + 1 ELSE c.lock[w]]
  BY <1>0 DEF Touch
<1>2. \A w \in Ways : c1.lock[w] = IF locking /\ c.tag[w] \in B THEN c.lock[w] + 1 ELSE c.lock[w]
  BY <1>0, <1>1
<1>3. /\ new.tag = [w \in Ways |-> IF w \in taken THEN owner(w) ELSE c.tag[w]]
      /\ new.time = [w \in Ways |-> IF w \in taken THEN now ELSE c1.time[w]]
      /\ new.lock = [w \in Ways |-> IF locking /\ w \in taken THEN c1.lock[w] + 1 ELSE c1.lock[w]]
      /\ new = [tag |-> new.tag, time |-> new.time, lock |-> new.lock]
  BY <1>1 DEF Insert
<1>4. /\ DOMAIN a \subseteq B \ Cached(c) /\ \A x, y \in DOMAIN a : a[x] = a[y] => x = y
      /\ \A x \in DOMAIN a : /\ a[x] \in Ways /\ ~ (locking /\ c1.lock[a[x]] > 0)
                             /\ ~ (c1.tag[a[x]] # NoIdx /\ c1.time[a[x]] = now)
  <2> HIDE DEF c1
  <2>. QED BY WaysGiven DEF c1
<1>5. \A x \in DOMAIN a : c.tag[a[x]] \notin B /\ (locking => c.lock[a[x]] = 0)
  BY <1>0, <1>1, <1>2, <1>4
<1>6. \A x \in DOMAIN a : owner(a[x]) = x
  BY <1>4
<1>7. \A x \in DOMAIN a : new.tag[a[x]] = x
  BY <1>3, <1>4, <1>6
<1>8. \A w \in Ways : (\A x \in DOMAIN a : a[x] # w) => new.tag[w] = c.tag[w]
  BY <1>3
<1> HIDE DEF owner, c1
<1>9. \A w \in Ways : w \in taken \/ w \notin taken
  OBVIOUS
<1>10. \A w \in Ways : new.lock[w] = IF locking /\ new.tag[w] \in B THEN c.lock[w] + 1 ELSE c.lock[w]
  <2>1. ASSUME NEW w \in Ways, w \notin taken
        PROVE  new.lock[w] = IF locking /\ new.tag[w] \in B THEN c.lock[w] + 1 ELSE c.lock[w]
    BY <1>2, <1>3, <1>8, <2>1
  <2>2. ASSUME NEW x \in DOMAIN a
        PROVE  new.lock[a[x]] = IF locking /\ new.tag[a[x]] \in B THEN c.lock[a[x]] + 1 ELSE c.lock[a[x]]
    <3>1. PICK w \in Ways : w = a[x]
      BY <1>4
    <3>2. w \in taken /\ new.tag[w] \in B /\ c.tag[w] \notin B
      BY <1>4, <1>5, <1>7, <3>1
    <3>3. c1.lock[w] = c.lock[w]
      BY <1>2, <3>2
    <3>. QED BY <1>3, <3>1, <3>2, <3>3
  <2>. QED BY <2>1, <2>2
<1>11. \A w \in Ways : new.time[w] \in {c.time[w], now}
  BY <1>1, <1>3
<1>12. new \in Caches
  <2>1. \A w \in Ways : new.tag[w] \in Idx \cup {NoIdx}
    BY <1>0, <1>4, <1>7, <1>8
  <2>2. \A w \in Ways : new.lock[w] \in Nat /\ new.time[w] \in Nat
    BY <1>0, <1>10, <1>11
  <2>3. new.tag \in [Ways -> Idx \cup {NoIdx}]
    BY <1>3, <2>1
  <2>4. new.time \in [Ways -> Nat] /\ new.lock \in [Ways -> Nat]
    BY <1>3, <2>2
  <2>. QED BY <1>3, <2>3, <2>4 DEF Caches
<1>13. UniqueTags(new)
  <2>1. ASSUME NEW v \in Ways, NEW w \in Ways, new.tag[v] = new.tag[w], new.tag[v] # NoIdx, v # w,
               NEW x \in DOMAIN a, a[x] = v
        PROVE  FALSE
    <3>1. new.tag[v] = x /\ x \notin Cached(c) /\ x \in B
      BY <1>4, <1>7, <2>1
    <3>2. \A y \in DOMAIN a : a[y] # w
      BY Zenon, <1>7, <2>1, <3>1
    <3>3. c.tag[w] = x
      BY Zenon, <1>8, <2>1, <3>1, <3>2
    <3>. QED BY <1>0, <2>1, <3>1, <3>3 DEF Cached
  <2>2. ASSUME NEW v \in Ways, NEW w \in Ways, new.tag[v] = new.tag[w], new.tag[v] # NoIdx,
               \A x \in DOMAIN a : a[x] # v, \A x \in DOMAIN a : a[x] # w
        PROVE  v = w
    BY <1>8, <2>2 DEF UniqueTags
  <2>. QED BY <2>1, <2>2 DEF UniqueTags
<1>. QED BY <1>4, <1>5, <1>7, <1>8, <1>10, <1>11, <1>12, <1>13 DEF WellInserted

LEMMA EvictedFacts ==
    ASSUME NEW c \in Caches, UniqueTags(c), NEW B \in SUBSET Idx, NEW now, NEW locking, NEW a,
           \A x \in DOMAIN a : a[x] \in Ways /\ c.tag[a[x]] \notin B,
           NEW rows, rows = [y \in Evicted(Touch(c, B, now, locking), a) |-> Location(Touch(c, B, now, locking), y)]
    PROVE  WellEvicted(c, B, a, rows)
<1>1. PICK c1 : c1 = Touch(c, B, now, locking)
  OBVIOUS
<1>2. c1.tag = c.tag /\ c.tag \in [Ways -> Idx \cup {NoIdx}]
  BY Zenon, <1>1 DEF Touch, Caches
<1>3. \A y : Location(c1, y) = Location(c, y)
  BY <1>2 DEF Location, Cached
<1>4. DOMAIN rows = {c.tag[a[x]] : x \in DOMAIN a} \ {NoIdx} /\ \A y \in DOMAIN rows : rows[y] = Location(c, y)
  BY <1>1, <1>2, <1>3 DEF Evicted
<1>5. ASSUME NEW y \in DOMAIN rows
      PROVE  /\ y \in Idx \ B /\ y \in Cached(c)
             /\ rows[y] \in Ways /\ c.tag[rows[y]] = y /\ \E x \in DOMAIN a : a[x] = rows[y]
  <2>1. PICK x \in DOMAIN a : y = c.tag[a[x]] /\ y # NoIdx
    BY <1>4
  <2>2. PICK w \in Ways : w = a[x] /\ c.tag[w] = y
    BY <2>1
  <2>3. y \in Idx /\ y \notin B
    BY <1>2, <2>1, <2>2
  <2>4. Location(c, y) = w /\ y \in Cached(c)
    BY <2>2, <2>3, LocationFacts
  <2>. QED BY <1>4, <2>2, <2>3, <2>4
<1>. QED BY <1>4, <1>5 DEF WellEvicted

\* A way in use is locked.
LEMMA UsersFinite ==
    ASSUME NEW w
    PROVE  IsFiniteSet(Users(w)) /\ Cardinality(Users(w)) \in Nat /\ (Cardinality(Users(w)) = 0 <=> Users(w) = {})
<1>1. IsFiniteSet(Batches)
  BY SSDConstants, FS_Interval DEF Batches
<1>2. Users(w) \in SUBSET Batches
  BY DEF Users
<1>3. IsFiniteSet(Users(w))
  BY <1>1, <1>2, FS_Subset
<1>. QED BY <1>3, FS_CardinalityType, FS_EmptySet

(* When a batch is given its ways, at most the batch before it is not       *)
(* trained yet, and that one's ways are locked.                             *)
LEMMA BeforePopulate ==
    ASSUME NEW i, Steps("populate", i), Layout, Locks
    PROVE  /\ \A j \in Batches : (j < i => ~ Pending("populate", j) /\ ~ Pending("fill", j))
                                 /\ (i < j => Pending("populate", j)) /\ ~ Filling(j)
           /\ \A j \in Batches : Live(j) => pipeline /\ i = j + 1 /\ j < i /\ ~ Unlocked(j)
           /\ \A j \in Batches : \A x : Live(j) /\ x \in batch[j] /\ loc[j][x] # NoWay => cache.lock[loc[j][x]] > 0
           /\ ~ Live(i) /\ DOMAIN slot[i] = {} /\ DOMAIN out[i] = {} /\ DOMAIN loc[i] = {} /\ found[i] = {}
           /\ TakenOver(i) = {} /\ \A j \in Batches : i < j => DOMAIN slot[j] = {} /\ DOMAIN out[j] = {}
           /\ Pending("compact", i) /\ Pending("select", i) /\ Pending("copy", i) /\ Pending("get", i)
           /\ Pending("fill", i) /\ Pending("backward", i) /\ (pipeline => Pending("unlock", i))
           /\ batch[i] # {} => Pending("evict", i)
<1>1. /\ i \in Batches /\ Pending("populate", i) /\ ~ Pending("populate", i)' /\ HostOK /\ Chains
      /\ Same("fill") /\ Same("backward") /\ Same("unlock") /\ UNCHANGED <<pipeline, batch>>
      /\ \A j \in Batches : j # i => (Pending("populate", j)' <=> Pending("populate", j))
      /\ Batches \subseteq Nat \ {0}
  BY SameBut DEF Batches, Steps
<1>2. /\ Pending("compact", i) /\ Pending("select", i) /\ Pending("copy", i) /\ Pending("get", i)
      /\ Pending("fill", i) /\ Pending("backward", i) /\ (pipeline => Pending("unlock", i))
      /\ (batch[i] # {} => Pending("evict", i)) /\ (pipeline /\ i > 1 => Pending("lookup", i))
  BY <1>1, SameBut DEF ChainOf
<1>3. ASSUME NEW j \in Batches
      PROVE  /\ j < i => ~ Pending("populate", j) /\ ~ Pending("fill", j)
             /\ i < j => Pending("populate", j)
  <2>1. CASE j < i
    <3>1. ~ Pending("populate", j)'
      BY <1>1, <2>1, SameBut DEF ApartOf, InStep
    <3>2. ~ Pending("fill", j)'
      BY <1>1, <2>1, SameBut DEF ApartOf
    <3>. QED BY <1>1, <2>1, <3>1, <3>2 DEF Same
  <2>2. CASE i < j
    BY <1>1, <2>2, SameBut DEF ApartOf, InStep
  <2>. QED BY <1>1, <2>1, <2>2
<1>4. \A j \in Batches : ~ Filling(j)
  BY <1>1, <1>3 DEF Filling
<1>5. ASSUME NEW j \in Batches, Live(j)
      PROVE  pipeline /\ i = j + 1 /\ j < i /\ ~ Unlocked(j)
  <2>1. j < i
    BY <1>1, <1>3, <1>5 DEF Live
  <2>2. ~ (j + Gap <= i)
    <3>1. Pending("backward", j)'
      BY <1>1, <1>5 DEF Live, Same
    <3>2. Gap' = Gap
      BY <1>1 DEF Gap
    <3>. QED BY <1>1, <2>1, <3>1, <3>2, SameBut DEF ApartOf
  <2>3. pipeline /\ i = j + 1
    BY <1>1, <2>1, <2>2 DEF Gap
  <2>. QED BY <1>1, <1>2, <2>1, <2>3, SameBut DEF ApartOf, Unlocked
<1>6. ASSUME NEW j \in Batches, NEW x, Live(j), x \in batch[j], loc[j][x] # NoWay PROVE cache.lock[loc[j][x]] > 0
  <2>1. Pending("unlock", j) /\ pipeline
    BY <1>5, <1>6 DEF Unlocked
  <2>2. x \in DOMAIN loc[j] /\ loc[j][x] \in Ways
    BY <1>6 DEF Layout, Records, RecordsOf
  <2>3. PICK w \in Ways : w = loc[j][x] /\ j \in Users(w)
    BY <2>1, <2>2 DEF Users
  <2>4. cache.lock[w] = Cardinality(Users(w))
    BY <2>1, <2>3 DEF Locks
  <2>5. Cardinality(Users(w)) \in Nat /\ Cardinality(Users(w)) # 0
    BY <2>3, UsersFinite
  <2>. QED BY <2>3, <2>4, <2>5
<1>7. ~ Live(i) /\ DOMAIN slot[i] = {} /\ DOMAIN out[i] = {} /\ DOMAIN loc[i] = {} /\ found[i] = {}
  <2>1. ~ pipeline \/ i = 1 \/ Pending("lookup", i)
    BY <1>1, <1>2
  <2>. QED BY <1>1, <2>1 DEF Live, Layout, Slots, SlotsOf, Records, RecordsOf
<1>8. TakenOver(i) = {} /\ \A j \in Batches : i < j => DOMAIN slot[j] = {} /\ DOMAIN out[j] = {}
  BY <1>1, <1>2, OneFills
<1>. QED BY <1>2, <1>3, <1>4, <1>5, <1>6, <1>7, <1>8

(* The batch is given ways that no batch before it uses; the rows in them   *)
(* leave the cache.                                                         *)
LEMMA PopulateDevice ==
    ASSUME Populate, NEW i, i = Head(todo[side]).i, Steps("populate", i), Device
    PROVE  Device'
<1>1. /\ UNCHANGED <<l1, buffer, store, idxq, flushed, fetch, conflict, spill, found, pad, ptr>>
      /\ UNCHANGED <<pipeline, batch>>
  BY Zenon DEF Populate, Steps
<1>2. PICK a \in SSDAssignments(Touch(cache, batch[i], i, pipeline), batch[i] \ Cached(cache), i, pipeline) :
        /\ cache' = Insert(Touch(cache, batch[i], i, pipeline), a, i, pipeline)
        /\ slot' = [slot EXCEPT ![i] = a]
        /\ loc' = [loc EXCEPT ![i] = Lookup(cache', batch[i])]
        /\ out' = [out EXCEPT ![i] = [y \in Evicted(Touch(cache, batch[i], i, pipeline), a) |->
                                          Location(Touch(cache, batch[i], i, pipeline), y)]]
  <2> DEFINE As(j)    == SSDAssignments(Touch(cache, batch[j], j, pipeline), batch[j] \ Cached(cache), j, pipeline)
             Does(j, a) ==
                 /\ cache' = Insert(Touch(cache, batch[j], j, pipeline), a, j, pipeline)
                 /\ slot' = [slot EXCEPT ![j] = a]
                 /\ loc' = [loc EXCEPT ![j] = Lookup(cache', batch[j])]
                 /\ out' = [out EXCEPT ![j] = [y \in Evicted(Touch(cache, batch[j], j, pipeline), a) |->
                                          Location(Touch(cache, batch[j], j, pipeline), y)]]
  <2>1. \E a \in As(Head(todo[side]).i) : Does(Head(todo[side]).i, a)
    BY Zenon DEF Populate
  <2>2. \E a \in As(i) : Does(i, a)
    <3> HIDE DEF As, Does
    <3>. QED BY <2>1
  <2>. QED BY Zenon, <2>2
<1>3. /\ Same("compact") /\ Same("backward") /\ Same("unlock") /\ Same("fill") /\ Same("lookup") /\ Same("get")
      /\ Same("copy") /\ Same("spill") /\ Same("enqueue") /\ Same("evict") /\ Same("sp_evict")
      /\ Same("select") /\ HostOK /\ i \in Batches /\ Chains /\ Batches \subseteq Nat \ {0}
      /\ Pending("populate", i) /\ ~ Pending("populate", i)'
      /\ \A j \in Batches : j # i => (Pending("populate", j)' <=> Pending("populate", j))
  BY SameBut DEF Batches
<1>4. /\ \A j \in Batches : (j < i => ~ Pending("populate", j) /\ ~ Pending("fill", j))
                            /\ (i < j => Pending("populate", j)) /\ ~ Filling(j)
      /\ \A j \in Batches : Live(j) => pipeline /\ i = j + 1 /\ j < i /\ ~ Unlocked(j)
      /\ \A j \in Batches : \A x : Live(j) /\ x \in batch[j] /\ loc[j][x] # NoWay => cache.lock[loc[j][x]] > 0
      /\ ~ Live(i) /\ DOMAIN slot[i] = {} /\ DOMAIN out[i] = {} /\ DOMAIN loc[i] = {} /\ found[i] = {}
      /\ TakenOver(i) = {} /\ \A j \in Batches : i < j => DOMAIN slot[j] = {} /\ DOMAIN out[j] = {}
      /\ Pending("compact", i) /\ Pending("select", i) /\ Pending("copy", i) /\ Pending("get", i)
      /\ Pending("fill", i) /\ Pending("backward", i) /\ (pipeline => Pending("unlock", i))
      /\ batch[i] # {} => Pending("evict", i)
  BY BeforePopulate DEF Device
<1>5. /\ cache \in Caches /\ UniqueTags(cache) /\ batch[i] \subseteq Idx /\ i \in Nat /\ pipeline \in BOOLEAN
      /\ \A w \in Ways : cache.time[w] < i
      /\ NoWay \notin Ways /\ NoIdx \notin Idx
  BY Zenon, <1>3, SSDConstants DEF Device, Layout, Rows, HostOK, Times, NoWay
<1>6. PICK out1 : out1 = [y \in Evicted(Touch(cache, batch[i], i, pipeline), a) |->
                              Location(Touch(cache, batch[i], i, pipeline), y)]
  OBVIOUS
<1>7. /\ cache' \in Caches /\ UniqueTags(cache')
      /\ DOMAIN a \subseteq batch[i] \ Cached(cache) /\ \A x, y \in DOMAIN a : a[x] = a[y] => x = y
      /\ \A x \in DOMAIN a : /\ a[x] \in Ways /\ cache'.tag[a[x]] = x /\ cache.tag[a[x]] \notin batch[i]
                             /\ pipeline => cache.lock[a[x]] = 0
      /\ \A w \in Ways : (\A x \in DOMAIN a : a[x] # w) => cache'.tag[w] = cache.tag[w]
      /\ \A w \in Ways : cache'.time[w] \in {cache.time[w], i}
      /\ \A w \in Ways : cache'.lock[w] = IF pipeline /\ cache'.tag[w] \in batch[i] THEN cache.lock[w] + 1
                                          ELSE cache.lock[w]
  <2>1. batch[i] \in SUBSET Idx
    BY <1>5
  <2>2. WellInserted(cache, batch[i], i, pipeline, a, cache')
    BY Zenon, <1>2, <1>5, <2>1, InsertFacts
  <2>. QED BY Zenon, <2>2 DEF WellInserted
<1>8. /\ DOMAIN out1 \subseteq Idx \ batch[i] /\ DOMAIN out1 \subseteq Cached(cache)
      /\ \A y \in DOMAIN out1 : /\ out1[y] \in Ways /\ cache.tag[out1[y]] = y
                                /\ \E x \in DOMAIN a : a[x] = out1[y]
      /\ \A x \in DOMAIN a : cache.tag[a[x]] # NoIdx => cache.tag[a[x]] \in DOMAIN out1
  <2>1. batch[i] \in SUBSET Idx
    BY <1>5
  <2>2. WellEvicted(cache, batch[i], a, out1)
    BY <1>5, <1>6, <1>7, <2>1, EvictedFacts
  <2>. QED BY Zenon, <2>2 DEF WellEvicted
<1>9. /\ \A j \in Batches : j # i => slot'[j] = slot[j] /\ loc'[j] = loc[j] /\ out'[j] = out[j]
      /\ slot'[i] = a /\ out'[i] = out1 /\ DOMAIN loc'[i] = batch[i]
      /\ \A x \in batch[i] : loc'[i][x] = Location(cache', x)
      /\ Arrays'
  <2>1. Arrays
    BY DEF Device, Layout
  <2>2. Arrays'
    BY Zenon, <1>1, <1>2, <2>1 DEF Arrays
  <2>3. /\ \A j \in Batches : j # i => slot'[j] = slot[j] /\ loc'[j] = loc[j] /\ out'[j] = out[j]
        /\ slot'[i] = a /\ out'[i] = out1 /\ loc'[i] = Lookup(cache', batch[i])
    BY Zenon, <1>2, <1>3, <1>6, <2>1 DEF Arrays
  <2>. QED BY Zenon, <2>2, <2>3 DEF Lookup
<1>10. Rows'
  BY Zenon, <1>1, <1>7 DEF Device, Layout, Rows
<1>11. /\ \A x \in Idx : Location(cache', x) \in Ways \cup {NoWay}
       /\ \A x \in Idx : Location(cache', x) = NoWay <=> x \notin Cached(cache')
       /\ \A x \in Idx, w \in Ways : Location(cache', x) = w <=> cache'.tag[w] = x
  BY <1>7, LocationFacts
<1>12. \A x \in Cached(cache') : x \in Cached(cache) \/ x \in DOMAIN a
  BY <1>7 DEF Cached
<1>13. \A x \in Idx : x \in Cached(cache) <=> \E w \in Ways : cache.tag[w] = x
  BY <1>5 DEF Cached
<1>14. \A j \in Batches : /\ Live(j)' <=> Live(j) \/ j = i
                          /\ Unlocked(j)' <=> Unlocked(j)
                          /\ Filling(j)' <=> j = i
                          /\ TakenOver(j)' = TakenOver(j)
                          /\ j # i => Missed(j)' = Missed(j)
  <2>1. \A j \in Batches : (Live(j)' <=> Live(j) \/ j = i) /\ (Unlocked(j)' <=> Unlocked(j))
    <3>1. ASSUME NEW j \in Batches PROVE (Live(j)' <=> Live(j) \/ j = i) /\ (Unlocked(j)' <=> Unlocked(j))
      <4>1. (Pending("backward", j)' <=> Pending("backward", j)) /\ (Pending("unlock", j)' <=> Pending("unlock", j))
        BY Zenon, <1>3 DEF Same
      <4>2. Pending("backward", i) /\ (Pending("populate", j)' <=> Pending("populate", j) /\ j # i)
        BY Zenon, <1>3, <1>4
      <4>3. pipeline' = pipeline
        BY <1>1
      <4>. QED BY Zenon, <4>1, <4>2, <4>3 DEF Live, Unlocked
    <3>. QED BY <3>1
  <2>2. \A j \in Batches : Filling(j)' <=> j = i
    BY Zenon, <1>3, <1>4 DEF Filling, Same
  <2>3. \A j \in Batches : TakenOver(j)' = TakenOver(j)
    BY <1>1 DEF TakenOver
  <2>4. \A j \in Batches : j # i => Missed(j)' = Missed(j)
    <3>1. ASSUME NEW j \in Batches, j # i PROVE Missed(j)' = Missed(j)
      <4>1. slot'[j] = slot[j] /\ loc'[j] = loc[j] /\ (Pending("fill", j)' <=> Pending("fill", j))
        BY Zenon, <1>3, <1>9, <3>1 DEF Same
      <4>. QED BY <1>1, <4>1 DEF Missed, NoWays
    <3>. QED BY <3>1
  <2>. QED BY Zenon, <2>1, <2>2, <2>3, <2>4
\* The ways of a batch not trained yet are not taken.
<1>15. ASSUME NEW j \in Batches, Live(j), NEW x \in batch[j], loc[j][x] # NoWay
       PROVE  /\ loc[j][x] \in Ways /\ \A y \in DOMAIN a : a[y] # loc[j][x]
              /\ cache.tag[loc[j][x]] = x /\ cache'.tag[loc[j][x]] = x
  <2>1. loc[j][x] \in Ways /\ cache.tag[loc[j][x]] = x
    BY <1>15 DEF Device, Layout, Records, RecordsOf, Located, LocatedOf
  <2>2. \A y \in DOMAIN a : a[y] # loc[j][x]
    <3>1. pipeline /\ cache.lock[loc[j][x]] > 0
      BY Zenon, <1>4, <1>15
    <3>. QED BY <1>7, <3>1
  <2>. QED BY Zenon, <1>7, <2>1, <2>2
<1>16. ASSUME NEW j \in Batches, Live(j), NEW x \in batch[j], x \in Cached(cache) PROVE loc[j][x] # NoWay
  <2>1. loc[j][x] = NoWay => j + 1 \in Batches /\ x \in DOMAIN slot[j + 1]
    BY <1>16 DEF Device, Layout, Located, LocatedOf
  <2>. QED BY Zenon, <1>4, <1>16, <2>1
<1>17. Slots'
  <2> SUFFICES ASSUME NEW j \in Batches PROVE SlotsOf(j)'
    BY DEF Slots
  <2>1. SlotsOf(j)
    BY DEF Device, Layout, Slots
  <2>2. j + 1 \in Batches /\ Pending("backward", j) => DOMAIN out'[j + 1] \cap batch[j] = {}
    <3>1. SUFFICES ASSUME NEW h \in Batches, h = j + 1, Pending("backward", j), NEW y \in DOMAIN out'[h], y \in batch[j]
                   PROVE  FALSE
      OBVIOUS
    <3>2. CASE h = i
      <4>1. Live(j)
        BY <1>3, <1>4, <3>1, <3>2 DEF Live
      <4>2. y \in Cached(cache) /\ out1[y] \in Ways /\ cache.tag[out1[y]] = y /\ \E x \in DOMAIN a : a[x] = out1[y]
        BY Zenon, <1>8, <1>9, <3>1, <3>2
      <4>3. loc[j][y] # NoWay
        BY <1>16, <3>1, <4>1, <4>2
      <4>4. loc[j][y] \in Ways /\ cache.tag[loc[j][y]] = y /\ \A x \in DOMAIN a : a[x] # loc[j][y]
        BY <1>15, <3>1, <4>1, <4>3
      <4>5. y # NoIdx
        BY Zenon, <1>3, <1>5, <3>1 DEF HostOK
      <4>6. loc[j][y] = out1[y]
        BY Zenon, <1>5, <4>2, <4>4, <4>5 DEF UniqueTags
      <4>. QED BY Zenon, <4>2, <4>4, <4>6
    <3>3. CASE h # i
      BY Zenon, <1>9, <2>1, <3>1, <3>3 DEF SlotsOf
    <3>. QED BY <3>2, <3>3
  <2>3. CASE j = i
    <3>1. i = 1 => DOMAIN out1 = {}
      <4>1. i = 1 => Cached(cache) = {}
        BY Zenon, <1>3, <2>1, <2>3 DEF SlotsOf
      <4>. QED BY Zenon, <1>8, <4>1
    <3>2. DOMAIN a \subseteq batch[i]
      BY Zenon, <1>7
    <3>3. /\ ~ Pending("populate", i)' /\ batch' = batch
          /\ Pending("backward", i)' <=> Pending("backward", i)
      BY <1>1, <1>3 DEF Same
    <3>4. DOMAIN slot'[i] \subseteq batch'[i] /\ \A x \in DOMAIN slot'[i] : slot'[i][x] \in Ways
      BY Zenon, <1>7, <1>9, <3>2, <3>3
    <3>5. DOMAIN out'[i] \subseteq Idx \ batch'[i] /\ \A y \in DOMAIN out'[i] : out'[i][y] \in Ways
      BY Zenon, <1>8, <1>9, <3>3
    <3>6. i = 1 => DOMAIN out'[i] = {}
      BY Zenon, <1>9, <3>1
    <3>7. i + 1 \in Batches /\ Pending("backward", i)' => DOMAIN out'[i + 1] \cap batch'[i] = {}
      BY Zenon, <2>2, <2>3, <3>3
    <3>. QED BY Zenon, <2>3, <3>3, <3>4, <3>5, <3>6, <3>7 DEF SlotsOf
  <2>4. CASE j # i
    <3>1. j = 1 => ~ Pending("populate", j)
      <4>1. j = 1 => j < i
        <5>1. i \in Nat \ {0}
          BY <1>3
        <5>. QED BY <2>4, <5>1
      <4>. QED BY Zenon, <1>4, <4>1
    <3>. QED BY Zenon, <1>1, <1>3, <1>9, <2>1, <2>2, <2>4, <3>1 DEF SlotsOf, Same
  <2>. QED BY <2>3, <2>4
<1>18. Records'
  <2> SUFFICES ASSUME NEW j \in Batches PROVE RecordsOf(j)'
    BY DEF Records
  <2>1. RecordsOf(j)
    BY DEF Device, Layout, Records
  <2>2. CASE j = i
    <3>1. \A x \in batch[i] : loc'[i][x] \in Ways \cup {NoWay}
      BY <1>5, <1>9, <1>11
    <3>. QED BY Zenon, <1>1, <1>3, <1>4, <1>9, <1>14, <2>1, <2>2, <3>1 DEF RecordsOf, Same
  <2>3. CASE j # i
    BY Zenon, <1>1, <1>3, <1>9, <1>14, <2>1, <2>3 DEF RecordsOf, Same
  <2>. QED BY <2>2, <2>3
<1>19. Fillings'
  <2> SUFFICES ASSUME NEW j \in Batches, j = i PROVE FillingOf(j)'
    BY <1>14 DEF Fillings, FillingOf
  <2>1. Pending("copy", i)'
    BY Zenon, <1>3, <1>4 DEF Same
  <2>. QED BY Zenon, <1>1, <1>7, <1>9, <2>1 DEF FillingOf
<1>20. Located'
  <2> SUFFICES ASSUME NEW j \in Batches, Live(j)', NEW x \in batch[j]
               PROVE  /\ loc'[j][x] # NoWay => cache'.tag[loc'[j][x]] = x
                      /\ j + 1 \in Batches /\ x \in DOMAIN slot'[j + 1] /\ ~ Unlocked(j)' => loc'[j][x] = NoWay
                      /\ loc'[j][x] = NoWay /\ x \in Cached(cache') =>
                            j + 1 \in Batches /\ x \in DOMAIN slot'[j + 1] /\ ~ Unlocked(j)'
    BY <1>1 DEF Located, LocatedOf
  <2>1. CASE j = i
    <3>1. x \in Idx /\ loc'[i][x] = Location(cache', x)
      BY Zenon, <1>5, <1>9, <2>1
    <3>2. i + 1 \in Batches => DOMAIN slot'[i + 1] = {}
      <4>1. ASSUME NEW h \in Batches, h = i + 1 PROVE DOMAIN slot'[h] = {}
        <5>1. i < h /\ h # i
          <6>1. i \in Nat
            BY <1>3
          <6>. QED BY <4>1, <6>1
        <5>. QED BY Zenon, <1>4, <1>9, <5>1
      <4>. QED BY <4>1
    <3>. QED BY <1>11, <2>1, <3>1, <3>2
  <2>2. CASE j # i
    <3>1. Live(j) /\ i = j + 1 /\ ~ Unlocked(j)' /\ slot'[j + 1] = a /\ loc'[j] = loc[j] /\ j + 1 \in Batches
      BY Zenon, <1>3, <1>4, <1>9, <1>14, <2>2
    <3>2. loc[j][x] # NoWay => cache'.tag[loc[j][x]] = x /\ cache.tag[loc[j][x]] = x /\ loc[j][x] \in Ways
      BY <1>15, <3>1
    <3>3. x \in Cached(cache) => loc[j][x] # NoWay
      BY <1>16, <3>1
    <3>4. loc[j][x] # NoWay => x \in Cached(cache)
      <4>1. x \in Idx
        BY <1>3 DEF HostOK
      <4>. QED BY <1>13, <3>2, <4>1
    <3>5. x \in DOMAIN a => x \notin Cached(cache)
      BY Zenon, <1>7
    <3>. QED BY <1>12, <3>1, <3>2, <3>3, <3>4, <3>5
  <2>. QED BY <2>1, <2>2
<1>21. Conflicts'
  <2> SUFFICES ASSUME NEW j \in Batches PROVE ConflictOf(j)'
    BY DEF Conflicts
  <2>1. ConflictOf(j)
    BY DEF Device, Layout, Conflicts
  <2>2. CASE j # i
    <3>1. (Live(j)' <=> Live(j)) /\ (Unlocked(j)' <=> Unlocked(j)) /\ loc'[j] = loc[j]
          /\ (Pending("fill", j)' <=> Pending("fill", j))
      BY Zenon, <1>3, <1>9, <1>14, <2>2 DEF Same
    <3>. QED BY <1>1, <1>3, <2>1, <3>1, ConflictStays
  <2>3. CASE j = i
    <3>1. Pending("fill", i)' /\ TakenOver(i)' = TakenOver(i)
      BY Zenon, <1>3, <1>4, <1>14 DEF Same
    <3>. QED BY Zenon, <1>1, <1>3, <2>1, <2>3, <3>1 DEF ConflictOf, Same
  <2>. QED BY <2>2, <2>3
<1>22. Pointers'
  <2> SUFFICES ASSUME NEW j \in Batches PROVE PointersOf(j)'
    BY DEF Pointers
  <2>1. CASE j # i
    <3>1. /\ (Live(j)' <=> Live(j)) /\ (Unlocked(j)' <=> Unlocked(j)) /\ loc'[j] = loc[j]
          /\ (Pending("fill", j)' <=> Pending("fill", j)) /\ TakenOver(j)' = TakenOver(j) /\ PointersOf(j)
      BY Zenon, <1>3, <1>9, <1>14, <2>1 DEF Same, Device, Layout, Pointers
    <3>. QED BY <1>1, <3>1, PointerStays
  <2>2. CASE j = i
    <3>1. Pending("fill", i)'
      BY Zenon, <1>3, <1>4 DEF Same
    <3>. QED BY <2>2, <3>1 DEF PointersOf
  <2>. QED BY <2>1, <2>2
<1>23. Layout'
  BY Zenon, <1>9, <1>10, <1>17, <1>18, <1>19, <1>20, <1>21, <1>22 DEF Layout
<1>24. IndexQueue'
  BY <1>1, <1>3, IndexQueueStays DEF Device
<1>25. Locks'
  <2> SUFFICES ASSUME NEW w \in Ways PROVE cache'.lock[w] = IF pipeline THEN Cardinality(Users(w)') ELSE 0
    BY <1>1 DEF Locks
  <2>1. cache.lock[w] = IF pipeline THEN Cardinality(Users(w)) ELSE 0
    BY DEF Device, Locks
  <2>2. CASE ~ pipeline
    BY <1>7, <2>1, <2>2
  <2>3. CASE pipeline
    <3>1. Pending("unlock", i)'
      BY Zenon, <1>3, <1>4, <2>3 DEF Same
    <3>2. (\E x \in DOMAIN loc'[i] : loc'[i][x] = w) <=> cache'.tag[w] \in batch[i]
      <4>1. \A x \in batch[i] : loc'[i][x] = w <=> cache'.tag[w] = x
        BY <1>5, <1>9, <1>11
      <4>. QED BY Zenon, <1>9, <4>1
    <3>3. i \notin Users(w)
      BY Zenon, <1>4 DEF Users
    <3>4. \A j \in Batches : j # i => (j \in Users(w)' <=> j \in Users(w))
      BY Zenon, <1>3, <1>9 DEF Users, Same
    <3>5. i \in Users(w)' <=> cache'.tag[w] \in batch[i]
      BY Zenon, <1>3, <3>1, <3>2 DEF Users
    <3>6. Users(w) \subseteq Batches /\ Users(w)' \subseteq Batches
      BY DEF Users
    <3>7. Users(w)' = IF cache'.tag[w] \in batch[i] THEN Users(w) \cup {i} ELSE Users(w)
      <4>1. CASE cache'.tag[w] \in batch[i]
        BY Zenon, <1>3, <3>4, <3>5, <3>6, <4>1
      <4>2. CASE cache'.tag[w] \notin batch[i]
        <5>1. \A j \in Batches : j \in Users(w)' <=> j \in Users(w)
          BY <3>3, <3>4, <3>5, <4>2
        <5>. QED BY <3>6, <4>2, <5>1
      <4>. QED BY <4>1, <4>2
    <3>8. Cardinality(Users(w) \cup {i}) = Cardinality(Users(w)) + 1
      BY Zenon, <3>3, UsersFinite, FS_AddElement
    <3>9. cache'.lock[w] = IF cache'.tag[w] \in batch[i] THEN cache.lock[w] + 1 ELSE cache.lock[w]
      BY Zenon, <1>7, <2>3
    <3>. QED BY <2>1, <2>3, <3>7, <3>8, <3>9
  <2>. QED BY <2>2, <2>3
<1>26. Times'
  <2> SUFFICES ASSUME NEW j \in Batches, NEW w \in Ways, Pending("populate", j)' PROVE cache'.time[w] < j
    BY DEF Times
  <2>0. j # i
    BY <1>3
  <2>1. Pending("populate", j) /\ i < j
    <3>1. Pending("populate", j)
      BY <1>3, <2>0
    <3>2. ~ (j < i) /\ j \in Nat /\ i \in Nat
      BY Zenon, <1>3, <1>4, <3>1
    <3>. QED BY <2>0, <3>1, <3>2
  <2>2. cache.time[w] < j
    BY <2>1 DEF Device, Times
  <2>. QED BY Zenon, <1>7, <2>1, <2>2
<1>27. \A x : Latest(x)' = Latest(x)
  BY <1>1, <1>3, SameLatest
<1>28. \A w \in Ways : \A x : InWay(x, w) <=> cache.tag[w] = x
  BY Zenon, <1>4 DEF InWay, BeingFilled
<1>29. \A w \in Ways : \A x : InWay(x, w)' <=> cache.tag[w] = x /\ \A y \in DOMAIN a : a[y] # w
  <2>1. \A w : BeingFilled(w)' <=> \E y \in DOMAIN a : a[y] = w
    BY Zenon, <1>3, <1>9, <1>14 DEF BeingFilled
  <2>. QED BY Zenon, <1>7, <2>1 DEF InWay
<1>30. \A j \in Batches : \A x : InPad(x, j)' <=> InPad(x, j)
  <2> SUFFICES ASSUME NEW j \in Batches, NEW x PROVE InPad(x, j)' <=> InPad(x, j)
    OBVIOUS
  <2>1. CASE j = i
    <3>1. Pending("get", i)' /\ found'[i] = {}
      BY Zenon, <1>1, <1>3, <1>4 DEF Same
    <3>. QED BY <1>3, <2>1, <3>1 DEF InPad
  <2>2. CASE j # i
    <3>1. /\ (Pending("populate", j)' <=> Pending("populate", j)) /\ (Pending("get", j)' <=> Pending("get", j))
          /\ (Pending("sp_evict", j)' <=> Pending("sp_evict", j))
      BY Zenon, <1>3, <2>2 DEF Same
    <3>2. Missed(j)' = Missed(j) /\ TakenOver(j)' = TakenOver(j)
      BY Zenon, <1>14, <2>2
    <3>3. found' = found
      BY <1>1
    <3>. QED BY Zenon, <3>1, <3>2, <3>3 DEF InPad
  <2>. QED BY <2>1, <2>2
<1>31. \A j \in Batches : \A y : Leaving(y, j)' <=> Leaving(y, j) \/ (j = i /\ Pending("evict", i) /\ y \in DOMAIN out1)
  BY <1>3, <1>4, <1>9 DEF Leaving, Same
<1>32. WayValues' /\ PadValues'
  BY <1>1, <1>27, <1>28, <1>29, <1>30 DEF Device, Values, WayValues, PadValues
<1>33. OldPads'
  <2> SUFFICES ASSUME NEW j \in Batches, NEW x \in Idx, Live(j)', ~ Unlocked(j)', x \in TakenOver(j)', x \in conflict[j]
               PROVE  pad[j][x] = Latest(x)
    BY <1>1, <1>27 DEF OldPads
  <2>1. x \in TakenOver(j) /\ j # i
    BY <1>4, <1>14
  <2>. QED BY <1>14, <2>1 DEF Device, Values, OldPads
<1>34. LeftValues'
  <2> SUFFICES ASSUME NEW j \in Batches, NEW y \in Idx, Leaving(y, j)', Pending("select", j)
               PROVE  l1[out'[j][y]] = Latest(y)
    BY Zenon, <1>1, <1>3, <1>27 DEF LeftValues, Same
  <2>1. CASE j # i
    BY <1>9, <1>31, <2>1 DEF Device, Values, LeftValues
  <2>2. CASE j = i
    <3>1. y \in DOMAIN out1
      BY Zenon, <1>4, <1>31, <2>2 DEF Leaving
    <3>2. PICK w \in Ways : w = out1[y] /\ cache.tag[w] = y
      BY <1>8, <3>1
    <3>. QED BY <1>9, <1>28, <2>2, <3>1, <3>2 DEF Device, Values, WayValues
  <2>. QED BY <2>1, <2>2
<1>35. StoreValues'
  <2> SUFFICES ASSUME NEW x \in Idx, InStore(x)' PROVE store[x] = Latest(x)
    BY <1>1, <1>27 DEF StoreValues
  <2>1. ASSUME NEW w \in Ways, InWay(x, w) PROVE FALSE
    <3>1. cache.tag[w] = x
      BY <1>28, <2>1
    <3>2. PICK y \in DOMAIN a : a[y] = w
      BY <1>29, <2>1, <3>1 DEF InStore
    <3>3. x \in DOMAIN out1
      BY <1>5, <1>8, <3>1, <3>2
    <3>4. Pending("evict", i)
      BY Zenon, <1>4, <1>7, <3>2
    <3>. QED BY <1>3, <1>31, <3>3, <3>4 DEF InStore
  <2>2. InStore(x)
    BY <1>30, <1>31, <2>1 DEF InStore
  <2>. QED BY <2>2 DEF Device, Values, StoreValues
<1>36. Buffers'
  <2> SUFFICES ASSUME NEW j \in Batches PROVE BufferOf(j)'
    BY DEF Buffers
  <2>1. CASE j = i
    BY Zenon, <1>3, <1>4, <2>1 DEF BufferOf, Same
  <2>2. CASE j # i
    <3>1. BufferOf(j)
      BY DEF Device, Values, Buffers
    <3>. QED BY Zenon, <1>1, <1>3, <1>9, <1>27, <2>2, <3>1 DEF BufferOf, Same
  <2>. QED BY <2>1, <2>2
<1>37. Flushing'
  <2>1. FlushReads' => /\ \A x \in DOMAIN flushed' : FlushOf(x)'
                       /\ nextP' = nextB' => Cached(cache') \subseteq DOMAIN flushed'
    <3>1. SUFFICES ASSUME FlushReads, FillingAhead
                   PROVE  (\A x \in DOMAIN flushed : FlushOf(x)') /\ nextP # nextB
      BY <1>1 DEF Steps
    <3>2. i < nextP
      <4>1. ~ (i >= nextP)
        BY <1>3 DEF Pending, Turn, Steps
      <4>. QED BY <1>3, <4>1 DEF HostOK
    <3>3. i = nextP - 1 /\ nextP = nextB + 2
      BY Zenon, <1>3, <1>4, <3>1, <3>2 DEF FillingAhead
    <3>4. nextP # nextB
      BY <1>3, <3>3 DEF HostOK
    <3>5. ASSUME NEW x \in DOMAIN flushed PROVE FlushOf(x)'
      <4>1. FlushOf(x)
        BY <3>1 DEF Device, Flushing
      <4>2. flushed[x] = Latest(x)
        BY Zenon, <1>4, <3>3, <4>1 DEF FlushOf
      <4>. QED BY <1>1, <1>27, <4>2 DEF FlushOf
    <3>. QED BY <3>4, <3>5
  <2>2. FlushQueue'
    BY DEF Steps
  <2>. QED BY <1>1, <2>1, <2>2 DEF Device, Flushing
<1>38. Flushed'
  BY FlushedStays DEF Device
<1>. QED BY <1>23, <1>24, <1>25, <1>26, <1>32, <1>33, <1>34, <1>35, <1>36, <1>37, <1>38 DEF Device, Values

-----------------------------------------------------------------------------
(* The training of a batch.                                                *)
\* Flush has not read while a batch trains.
LEMMA NothingRead ==
    ASSUME NEW w \in MainWorks, NEW i, Steps(w, i), Flushing, UNCHANGED flushed
    PROVE  Flushing'
BY DEF Steps, Flushing

LEMMA TagsOnly ==
    ASSUME NEW c, NEW d, c.tag = d.tag
    PROVE  /\ Cached(c) = Cached(d)
           /\ \A x : Location(c, x) = Location(d, x)
BY DEF Cached, Location

\* A row that the next batch gave a way was taken over from the pad.
LEMMA GivenIsTakenOver ==
    ASSUME Layout, HostOK, NEW i \in Batches, pipeline, Live(i), ~ Pending("fill", i), ~ Unlocked(i),
           NEW h \in Batches, h = i + 1, ~ Pending("lookup", h), NEW x \in batch[i], loc[i][x] = NoWay
    PROVE  x \in Cached(cache) => x \in DOMAIN slot[h] /\ x \in TakenOver(i)
<1>1. x \in conflict[i] /\ found[h] = conflict[i] \cap batch[h]
  BY DEF Layout, Conflicts, ConflictOf
<1>2. x \in Cached(cache) => x \in DOMAIN slot[h] /\ x \in batch[h]
  BY DEF Layout, Located, LocatedOf, Slots, SlotsOf
<1>. QED BY <1>1, <1>2 DEF TakenOver

(* The batch unlocks its ways, and follows the rows the next batch took     *)
(* over from its pad.                                                       *)
LEMMA UnlockDevice ==
    ASSUME UpdatePointers, NEW i, i = Head(todo["main"]).i, NEW k, k = Head(todo["main"]).k,
           k = IF i = MaxBatches THEN 0 ELSE i + 1, Steps("unlock", i), Device
    PROVE  Device'
<1>0. /\ UNCHANGED <<l1, buffer, store, idxq, flushed, slot, out, fetch, conflict, spill, found, pad>>
      /\ UNCHANGED <<pipeline, batch>>
  BY Zenon DEF UpdatePointers, Steps
<1>1. /\ cache' = Unlock(cache, loc[i])
      /\ loc' = [loc EXCEPT ![i] = Lookup(cache, batch[i])]
      /\ ptr' = [ptr EXCEPT ![i] = [x \in batch[i] |->
                    IF x \notin Moved(k) THEN ptr[i][x]
                    ELSE IF Lookup(cache, batch[i])[x] = NoWay THEN [at |-> "pad", n |-> k]
                    ELSE [at |-> "l1", n |-> Lookup(cache, batch[i])[x]]]]
  BY Zenon DEF UpdatePointers, Steps
<1>3. /\ Same("populate") /\ Same("backward") /\ Same("fill") /\ Same("lookup") /\ Same("get")
      /\ Same("copy") /\ Same("spill") /\ Same("enqueue") /\ Same("evict") /\ Same("sp_evict") /\ Same("compact")
      /\ Same("select") /\ HostOK /\ i \in Batches /\ Chains /\ Batches \subseteq Nat \ {0}
      /\ Pending("unlock", i) /\ ~ Pending("unlock", i)' /\ pipeline
      /\ \A j \in Batches : j # i => (Pending("unlock", j)' <=> Pending("unlock", j))
  BY SameBut DEF Batches, Steps, Exists
<1>4. ~ Pending("fill", i) /\ ~ Pending("populate", i) /\ Live(i) /\ ~ Unlocked(i) /\ Unlocked(i)'
  <2>1. ~ Pending("fill", i)' /\ Pending("backward", i)
    BY <1>0, <1>3, SameBut DEF ChainOf
  <2>2. ~ Pending("fill", i)
    BY <1>3, <2>1 DEF Same
  <2>3. ~ Pending("populate", i)
    BY <2>2, SameBut DEF ChainOf
  <2>. QED BY <1>0, <1>3, <2>1, <2>2, <2>3 DEF Live, Unlocked
<1>5. ASSUME NEW h \in Batches, h = i + 1 PROVE ~ Pending("lookup", h)
  <2>1. i < h /\ 1 < h
    BY <1>3, <1>5
  <2>2. ~ Pending("fill", h)'
    BY <1>0, <1>3, <1>5, <2>1, SameBut DEF ApartOf
  <2>3. ~ Pending("fill", h)
    BY <1>3, <2>2 DEF Same
  <2>. QED BY <1>3, <2>1, <2>3 DEF Chains, ChainOf
<1>6. /\ cache \in Caches /\ UniqueTags(cache) /\ NoWay \notin Ways
      /\ cache.lock \in [Ways -> Nat]
  BY SSDConstants DEF Device, Layout, Rows, NoWay, Caches
<1>7. \A w : i \in Users(w) <=> \E x \in DOMAIN loc[i] : loc[i][x] = w
  BY <1>3 DEF Users
<1>8. /\ cache'.tag = cache.tag /\ cache'.time = cache.time
      /\ cache' = [cache EXCEPT !.lock = cache'.lock] /\ DOMAIN cache'.lock = Ways
      /\ \A w \in Ways : cache'.lock[w] = IF i \in Users(w) THEN cache.lock[w] - 1 ELSE cache.lock[w]
  <2>1. cache' = [cache EXCEPT !.lock = [w \in Ways |-> IF w \in {loc[i][x] : x \in DOMAIN loc[i]}
                                                        THEN cache.lock[w] - 1 ELSE cache.lock[w]]]
    BY Zenon, <1>1 DEF Unlock
  <2>2. \A w : w \in {loc[i][x] : x \in DOMAIN loc[i]} <=> i \in Users(w)
    BY <1>7
  <2>3. cache = [tag |-> cache.tag, time |-> cache.time, lock |-> cache.lock]
    BY <1>6 DEF Caches
  <2>. QED BY Zenon, <2>1, <2>2, <2>3
<1>9. /\ \A j \in Batches : j # i => loc'[j] = loc[j] /\ ptr'[j] = ptr[j]
      /\ DOMAIN loc'[i] = batch[i] /\ \A x \in batch[i] : loc'[i][x] = Location(cache, x)
      /\ DOMAIN ptr'[i] = batch[i]
      /\ \A x \in batch[i] : ptr'[i][x] = IF x \notin Moved(k) THEN ptr[i][x]
                                          ELSE IF loc'[i][x] = NoWay THEN [at |-> "pad", n |-> k]
                                          ELSE [at |-> "l1", n |-> loc'[i][x]]
      /\ Arrays'
  <2>1. Arrays
    BY DEF Device, Layout
  <2>2. Arrays'
    BY Zenon, <1>0, <1>1, <2>1 DEF Arrays
  <2>3. \A j \in Batches : j # i => loc'[j] = loc[j] /\ ptr'[j] = ptr[j]
    BY Zenon, <1>1, <2>1 DEF Arrays
  <2>4. loc'[i] = Lookup(cache, batch[i])
    BY Zenon, <1>1, <1>3, <2>1 DEF Arrays
  <2>a. PICK now : now = Lookup(cache, batch[i])
    OBVIOUS
  <2>b. ptr' = [ptr EXCEPT ![i] = [x \in batch[i] |->
                    IF x \notin Moved(k) THEN ptr[i][x]
                    ELSE IF now[x] = NoWay THEN [at |-> "pad", n |-> k]
                    ELSE [at |-> "l1", n |-> now[x]]]]
    BY Zenon, <1>1, <2>a
  <2>5. ptr'[i] = [x \in batch[i] |->
                    IF x \notin Moved(k) THEN ptr[i][x]
                    ELSE IF now[x] = NoWay THEN [at |-> "pad", n |-> k]
                    ELSE [at |-> "l1", n |-> now[x]]]
    BY Zenon, <1>3, <2>1, <2>b DEF Arrays
  <2>6. DOMAIN loc'[i] = batch[i] /\ \A x \in batch[i] : loc'[i][x] = Location(cache, x)
    BY <2>4 DEF Lookup
  <2>7. /\ DOMAIN ptr'[i] = batch[i]
        /\ \A x \in batch[i] : ptr'[i][x] = IF x \notin Moved(k) THEN ptr[i][x]
                                            ELSE IF loc'[i][x] = NoWay THEN [at |-> "pad", n |-> k]
                                            ELSE [at |-> "l1", n |-> loc'[i][x]]
    <3>1. loc'[i] = now
      BY <2>4, <2>a
    <3>. QED BY Zenon, <2>5, <3>1
  <2>. QED BY Zenon, <2>2, <2>3, <2>6, <2>7
<1>10. Moved(k) = TakenOver(i)
  <2>1. CASE i = MaxBatches
    <3>1. k = 0 /\ i + 1 \notin Batches
      BY <2>1, SSDConstants DEF Batches
    <3>. QED BY <3>1 DEF Moved, TakenOver
  <2>2. CASE i # MaxBatches
    <3>1. k = i + 1 /\ k \in Batches /\ k # 0
      BY <1>3, <2>2, SSDConstants DEF Batches
    <3>. QED BY <3>1 DEF Moved, TakenOver
  <2>. QED BY <2>1, <2>2
<1>11. \A w \in Ways : Users(w)' = Users(w) \ {i}
  <2>1. ASSUME NEW w \in Ways, NEW j \in Batches, j # i PROVE j \in Users(w)' <=> j \in Users(w)
    <3>1. loc'[j] = loc[j] /\ (Pending("unlock", j)' <=> Pending("unlock", j))
      BY Zenon, <1>3, <1>9, <2>1
    <3>. QED BY <3>1 DEF Users
  <2>2. ASSUME NEW w \in Ways PROVE i \notin Users(w)' /\ Users(w) \subseteq Batches /\ Users(w)' \subseteq Batches
    BY <1>3 DEF Users
  <2>. QED BY <2>1, <2>2
<1>12. Locks' /\ cache'.lock \in [Ways -> Nat]
  <2>1. ASSUME NEW w \in Ways PROVE cache'.lock[w] = Cardinality(Users(w) \ {i}) /\ cache'.lock[w] \in Nat
    <3>1. Cardinality(Users(w) \ {i}) = (IF i \in Users(w) THEN Cardinality(Users(w)) - 1 ELSE Cardinality(Users(w)))
          /\ Cardinality(Users(w) \ {i}) \in Nat
      BY UsersFinite, FS_RemoveElement, FS_CardinalityType
    <3>2. cache.lock[w] = Cardinality(Users(w))
      BY <1>3 DEF Device, Locks
    <3>. QED BY <1>8, <3>1, <3>2
  <2>2. \A w \in Ways : cache'.lock[w] \in Nat
    BY <2>1
  <2>3. PICK f : f = cache'.lock
    OBVIOUS
  <2>4. f = [w \in Ways |-> f[w]]
    BY Zenon, <1>1, <1>6, <2>3 DEF Unlock, Caches
  <2>5. f \in [Ways -> Nat]
    BY <2>2, <2>3, <2>4
  <2>. QED BY <1>0, <1>3, <1>11, <2>1, <2>3, <2>5 DEF Locks
<1>13. Rows'
  <2>1. cache' \in Caches
    BY <1>6, <1>8, <1>12 DEF Caches
  <2>2. UniqueTags(cache')
    BY <1>6, <1>8 DEF UniqueTags
  <2>. QED BY <1>0, <2>1, <2>2 DEF Device, Layout, Rows
<1>14. Cached(cache') = Cached(cache) /\ \A x : Location(cache', x) = Location(cache, x)
  BY <1>8, TagsOnly
<1>15. \A j \in Batches : /\ Live(j)' <=> Live(j)
                          /\ Unlocked(j)' <=> Unlocked(j) \/ j = i
                          /\ Filling(j)' <=> Filling(j)
                          /\ TakenOver(j)' = TakenOver(j)
                          /\ Missed(j)' = Missed(j)
  <2>1. \A j \in Batches : Live(j)' <=> Live(j)
    BY <1>3 DEF Live, Same
  <2>2. \A j \in Batches : Unlocked(j)' <=> Unlocked(j) \/ j = i
    BY <1>0, <1>3 DEF Unlocked
  <2>3. \A j \in Batches : Filling(j)' <=> Filling(j)
    BY <1>3 DEF Filling, Same
  <2>4. \A j \in Batches : TakenOver(j)' = TakenOver(j)
    BY <1>0 DEF TakenOver
  <2>5. ASSUME NEW j \in Batches PROVE Missed(j)' = Missed(j)
    <3>1. CASE j = i
      <4>1. ~ Pending("fill", j)'
        BY <1>3, <1>4, <3>1 DEF Same
      <4>. QED BY <1>0, <1>4, <3>1, <4>1 DEF Missed
    <3>2. CASE j # i
      <4>1. loc'[j] = loc[j] /\ (Pending("fill", j)' <=> Pending("fill", j))
        BY Zenon, <1>3, <1>9, <3>2 DEF Same
      <4>. QED BY <1>0, <4>1 DEF Missed, NoWays
    <3>. QED BY <3>1, <3>2
  <2>. QED BY <2>1, <2>2, <2>3, <2>4, <2>5
\* Where the batch's rows are now.
<1>16. ASSUME NEW x \in batch[i]
       PROVE  /\ x \in Idx /\ loc'[i][x] = Location(cache, x) /\ loc'[i][x] \in Ways \cup {NoWay}
              /\ loc'[i][x] = NoWay <=> x \notin Cached(cache)
              /\ loc'[i][x] # NoWay => cache.tag[loc'[i][x]] = x
              /\ loc[i][x] # NoWay => loc'[i][x] = loc[i][x]
              /\ loc[i][x] = NoWay => x \in conflict[i]
              /\ loc[i][x] = NoWay /\ loc'[i][x] # NoWay => x \in TakenOver(i)
              /\ x \in conflict[i] => loc[i][x] = NoWay
              /\ ptr[i][x] = IF loc[i][x] # NoWay THEN [at |-> "l1", n |-> loc[i][x]] ELSE [at |-> "pad", n |-> i]
  <2>1. x \in Idx
    BY <1>3 DEF HostOK
  <2>2. loc'[i][x] = Location(cache, x)
    BY Zenon, <1>9
  <2>3. /\ Location(cache, x) \in Ways \cup {NoWay}
        /\ Location(cache, x) = NoWay <=> x \notin Cached(cache)
        /\ \A w \in Ways : Location(cache, x) = w <=> cache.tag[w] = x
    BY <1>6, <2>1, LocationFacts
  <2>4. loc[i][x] # NoWay => loc[i][x] \in Ways /\ cache.tag[loc[i][x]] = x
    BY <1>3, <1>4 DEF Device, Layout, Records, RecordsOf, Located, LocatedOf
  <2>5. /\ loc[i][x] = NoWay => x \in conflict[i]
        /\ x \in conflict[i] => loc[i][x] = NoWay
    BY Zenon, <1>3, <1>4 DEF Device, Layout, Conflicts, ConflictOf
  <2>6. loc[i][x] = NoWay /\ x \in Cached(cache) => x \in TakenOver(i)
    <3>1. SUFFICES ASSUME loc[i][x] = NoWay, x \in Cached(cache) PROVE x \in TakenOver(i)
      OBVIOUS
    <3>2. i + 1 \in Batches
      BY <1>3, <1>4, <3>1 DEF Device, Layout, Located, LocatedOf
    <3>3. PICK h \in Batches : h = i + 1
      BY <3>2
    <3>. QED BY <1>3, <1>4, <1>5, <3>1, <3>3, GivenIsTakenOver DEF Device
  <2>7. ptr[i][x] = IF loc[i][x] # NoWay THEN [at |-> "l1", n |-> loc[i][x]] ELSE [at |-> "pad", n |-> i]
    BY <1>3, <1>4 DEF Device, Layout, Pointers, PointersOf
  <2>. QED BY Zenon, <2>1, <2>2, <2>3, <2>4, <2>5, <2>6, <2>7
<1>17. Slots'
  <2> SUFFICES ASSUME NEW j \in Batches PROVE SlotsOf(j)'
    BY DEF Slots
  <2>1. SlotsOf(j)
    BY DEF Device, Layout, Slots
  <2>. QED BY <1>0, <1>3, <1>14, <2>1 DEF SlotsOf, Same
<1>18. Records'
  <2> SUFFICES ASSUME NEW j \in Batches PROVE RecordsOf(j)'
    BY DEF Records
  <2>1. RecordsOf(j)
    BY DEF Device, Layout, Records
  <2>2. CASE j = i
    BY Zenon, <1>0, <1>3, <1>4, <1>9, <1>15, <1>16, <2>1, <2>2 DEF RecordsOf, Same
  <2>3. CASE j # i
    BY Zenon, <1>0, <1>3, <1>9, <1>15, <2>1, <2>3 DEF RecordsOf, Same
  <2>. QED BY <2>2, <2>3
<1>19. Fillings'
  <2> SUFFICES ASSUME NEW j \in Batches, Filling(j), j # i PROVE FillingOf(j)'
    BY <1>4, <1>15 DEF Fillings, FillingOf, Filling
  <2>1. FillingOf(j)
    BY DEF Device, Layout, Fillings
  <2>. QED BY Zenon, <1>0, <1>3, <1>8, <1>9, <1>14, <1>15, <2>1 DEF FillingOf, Same
<1>20. Located'
  <2> SUFFICES ASSUME NEW j \in Batches PROVE LocatedOf(j)'
    BY DEF Located
  <2>1. CASE j = i
    <3>1. \A x \in batch[i] : loc'[i][x] # NoWay => cache'.tag[loc'[i][x]] = x
      <4>1. cache'.tag = cache.tag
        BY <1>8
      <4>. QED BY Zenon, <1>16, <4>1
    <3>2. \A x \in batch[i] : loc'[i][x] = NoWay => x \notin Cached(cache')
      BY Zenon, <1>14, <1>16
    <3>. QED BY Zenon, <1>0, <1>4, <2>1, <3>1, <3>2 DEF LocatedOf
  <2>2. CASE j # i
    <3>1. LocatedOf(j)
      BY DEF Device, Layout, Located
    <3>2. (Live(j)' <=> Live(j)) /\ (Unlocked(j)' <=> Unlocked(j)) /\ loc'[j] = loc[j]
      BY Zenon, <1>9, <1>15, <2>2
    <3>. QED BY <1>0, <1>8, <1>14, <3>1, <3>2 DEF LocatedOf
  <2>. QED BY <2>1, <2>2
<1>21. Conflicts'
  <2> SUFFICES ASSUME NEW j \in Batches PROVE ConflictOf(j)'
    BY DEF Conflicts
  <2>1. ConflictOf(j)
    BY DEF Device, Layout, Conflicts
  <2>2. CASE j # i
    <3>1. (Live(j)' <=> Live(j)) /\ (Unlocked(j)' <=> Unlocked(j)) /\ loc'[j] = loc[j]
          /\ (Pending("fill", j)' <=> Pending("fill", j))
      BY Zenon, <1>3, <1>9, <1>15, <2>2 DEF Same
    <3>. QED BY <1>0, <1>3, <2>1, <3>1, ConflictStays
  <2>3. CASE j = i
    <3>1. \A x \in batch[i] : /\ loc'[i][x] = NoWay => x \in conflict[i]
                              /\ x \in conflict[i] /\ loc'[i][x] # NoWay => x \in TakenOver(i)
      BY Zenon, <1>16
    <3>2. TakenOver(i)' = TakenOver(i)
      BY <1>3, <1>15
    <3>3. pipeline' /\ i + 1 \in Batches /\ ~ Pending("lookup", i + 1)' => found'[i + 1] = conflict'[i] \cap batch'[i + 1]
      BY Zenon, <1>0, <1>3, <2>1, <2>3 DEF ConflictOf, Same
    <3>4. ~ Pending("spill", i)' => spill'[i] = conflict'[i] \ TakenOver(i)'
      BY Zenon, <1>0, <1>3, <2>1, <2>3, <3>2 DEF ConflictOf, Same
    <3>5. \A x \in batch'[i] : /\ loc'[i][x] = NoWay => x \in conflict'[i]
                               /\ x \in conflict'[i] /\ loc'[i][x] # NoWay => Unlocked(i)' /\ x \in TakenOver(i)'
      BY Zenon, <1>0, <1>4, <3>1, <3>2
    <3>6. ConflictOf(i)'
      BY Zenon, <3>3, <3>4, <3>5 DEF ConflictOf
    <3>. QED BY <2>3, <3>6
  <2>. QED BY <2>2, <2>3
<1>22. Pointers'
  <2> SUFFICES ASSUME NEW j \in Batches PROVE PointersOf(j)'
    BY DEF Pointers
  <2>1. CASE j # i
    <3>1. /\ (Live(j)' <=> Live(j)) /\ (Unlocked(j)' <=> Unlocked(j)) /\ loc'[j] = loc[j] /\ ptr'[j] = ptr[j]
          /\ (Pending("fill", j)' <=> Pending("fill", j)) /\ TakenOver(j)' = TakenOver(j) /\ PointersOf(j)
      BY Zenon, <1>3, <1>9, <1>15, <2>1 DEF Same, Device, Layout, Pointers
    <3>. QED BY <1>0, <3>1, PointerStays
  <2>2. CASE j = i
    <3>1. ASSUME NEW x \in batch[i]
          PROVE  ptr'[i][x] = IF loc'[i][x] # NoWay THEN [at |-> "l1", n |-> loc'[i][x]]
                              ELSE [at |-> "pad", n |-> IF x \in TakenOver(i) THEN i + 1 ELSE i]
      <4>1. CASE x \in TakenOver(i)
        <5>1. k = i + 1
          BY <1>10, <4>1 DEF Moved
        <5>. QED BY Zenon, <1>9, <1>10, <4>1, <5>1
      <4>2. CASE x \notin TakenOver(i)
        <5>1. ptr'[i][x] = ptr[i][x]
          BY Zenon, <1>9, <1>10, <4>2
        <5>. QED BY Zenon, <1>16, <4>2, <5>1
      <4>. QED BY <4>1, <4>2
    <3>2. TakenOver(i)' = TakenOver(i)
      BY <1>3, <1>15
    <3>3. PointersOf(i)'
      BY Zenon, <1>0, <1>4, <3>1, <3>2 DEF PointersOf
    <3>. QED BY <2>2, <3>3
  <2>. QED BY <2>1, <2>2
<1>23. Layout'
  BY Zenon, <1>9, <1>13, <1>17, <1>18, <1>19, <1>20, <1>21, <1>22 DEF Layout
<1>24. IndexQueue'
  BY <1>0, <1>3, IndexQueueStays DEF Device
<1>25. Times'
  BY <1>3, <1>8 DEF Device, Times, Same
<1>26. \A x : Latest(x)' = Latest(x)
  BY <1>0, <1>3, SameLatest
<1>27. \A x, w : InWay(x, w)' <=> InWay(x, w)
  <2>1. \A w : BeingFilled(w)' <=> BeingFilled(w)
    BY <1>0, <1>15 DEF BeingFilled
  <2>. QED BY <1>8, <2>1 DEF InWay
<1>28. \A j \in Batches : \A x : InPad(x, j)' <=> InPad(x, j)
  BY Zenon, <1>0, <1>3, <1>15 DEF InPad, Same
<1>29. \A j \in Batches : \A x : Leaving(x, j)' <=> Leaving(x, j)
  BY <1>0, <1>3, LeavingStays
<1>30. \A x : InStore(x)' <=> InStore(x)
  BY <1>27, <1>28, <1>29 DEF InStore
<1>31. WayValues' /\ PadValues' /\ LeftValues' /\ StoreValues'
  BY <1>0, <1>3, <1>26, <1>27, <1>28, <1>29, <1>30 DEF Device, Values, WayValues, PadValues, LeftValues, StoreValues, Same
<1>32. OldPads'
  BY <1>0, <1>15, <1>26 DEF Device, Values, OldPads
<1>33. Buffers'
  BY <1>0, <1>3, BuffersStay DEF Device, Values
<1>34. Flushing' /\ Flushed'
  <2>1. "unlock" \in MainWorks
    BY DEF MainWorks
  <2>. QED BY <1>0, <2>1, NothingRead, FlushedStays DEF Device
<1>. QED BY <1>12, <1>23, <1>24, <1>25, <1>31, <1>32, <1>33, <1>34 DEF Device, Values

(* When a batch is trained backward, the batches before it are trained, no  *)
(* batch is being filled, and only the next one may have been prefetched.   *)
LEMMA BeforeBackward ==
    ASSUME NEW i, Steps("backward", i), Layout
    PROVE  /\ ~ Pending("fill", i) /\ ~ Pending("populate", i) /\ ~ Pending("get", i) /\ Live(i)
           /\ pipeline => ~ Pending("unlock", i) /\ (i > 1 => ~ Pending("lookup", i))
           /\ \A j \in Batches : ~ Filling(j) /\ (j < i => ~ Pending("backward", j)) /\ (i < j => Pending("backward", j))
           /\ \A j \in Batches : i < j => \/ pipeline /\ j = i + 1 /\ ~ Pending("fill", j) /\ ~ Pending("lookup", j)
                                          \/ Pending("populate", j)
           /\ \A j \in Batches : Pending("populate", j) => DOMAIN slot[j] = {} /\ DOMAIN out[j] = {} /\ found[j] = {}
<1>1. /\ i \in Batches /\ Pending("backward", i) /\ ~ Pending("backward", i)' /\ HostOK /\ Chains
      /\ Same("fill") /\ Same("populate") /\ Same("unlock") /\ Same("forward") /\ UNCHANGED <<pipeline, batch>>
      /\ \A j \in Batches : j # i => (Pending("backward", j)' <=> Pending("backward", j))
      /\ Batches \subseteq Nat \ {0}
  BY SameBut DEF Batches, Steps
<1>2. ~ Pending("fill", i) /\ (pipeline => ~ Pending("unlock", i))
  <2>1. ~ Pending("fill", i)' /\ (pipeline => ~ Pending("unlock", i)')
    BY <1>1, SameBut DEF ChainOf
  <2>. QED BY <1>1, <2>1 DEF Same
<1>3. ~ Pending("populate", i) /\ ~ Pending("get", i) /\ (pipeline /\ i > 1 => ~ Pending("lookup", i))
  BY <1>1, <1>2, SameBut DEF ChainOf
<1>4. ASSUME NEW j \in Batches, j < i PROVE ~ Pending("backward", j) /\ ~ Pending("fill", j)
  <2>1. ~ Pending("backward", j)'
    BY <1>1, <1>4, SameBut DEF ApartOf, InStep
  <2>2. ~ Pending("fill", j)
    BY <1>2, <1>4, SameBut DEF ApartOf, InStep
  <2>. QED BY <1>1, <1>4, <2>1, <2>2
<1>5. ASSUME NEW j \in Batches, i < j
      PROVE  /\ Pending("backward", j)
             /\ \/ pipeline /\ j = i + 1 /\ ~ Pending("fill", j) /\ ~ Pending("lookup", j)
                \/ Pending("populate", j)
  <2>0. Pending("backward", j)
    BY <1>1, <1>5, SameBut DEF ApartOf, InStep
  <2>1. CASE i + Gap <= j
    BY <1>1, <1>5, <2>0, <2>1, SameBut DEF ApartOf
  <2>2. CASE ~ (i + Gap <= j)
    <3>1. pipeline /\ j = i + 1 /\ j > 1
      BY <1>1, <1>5, <2>2 DEF Gap
    <3>2. ~ Pending("fill", j)
      BY <1>2, <1>5, <3>1, SameBut DEF ApartOf
    <3>3. ~ Pending("lookup", j)
      BY <1>1, <3>1, <3>2 DEF Chains, ChainOf
    <3>. QED BY <2>0, <3>1, <3>2, <3>3
  <2>. QED BY <2>1, <2>2
<1>6. \A j \in Batches : ~ Filling(j)
  <2> SUFFICES ASSUME NEW j \in Batches, Filling(j) PROVE FALSE
    OBVIOUS
  <2>1. j < i \/ j = i \/ i < j
    BY <1>1
  <2>. QED BY <1>2, <1>4, <1>5, <2>1 DEF Filling
<1>7. ASSUME NEW j \in Batches, Pending("populate", j)
      PROVE  DOMAIN slot[j] = {} /\ DOMAIN out[j] = {} /\ found[j] = {}
  <2>1. ~ pipeline \/ j = 1 \/ Pending("lookup", j)
    BY <1>1, <1>7 DEF Chains, ChainOf
  <2>. QED BY <1>7, <2>1 DEF Layout, Slots, SlotsOf, Records, RecordsOf
<1>8. Live(i)
  BY <1>1, <1>3 DEF Live
<1>. QED BY <1>2, <1>3, <1>4, <1>5, <1>6, <1>7, <1>8

(* Where the rows that are trained are: in the way or in the pad they are   *)
(* pointed at, and nowhere else.                                            *)
LEMMA TrainedWhere ==
    ASSUME NEW i, Steps("backward", i), Layout, NEW x \in batch[i]
    PROVE  /\ x \in Idx
           /\ \A w \in Ways : ptr[i][x] = [at |-> "l1", n |-> w] <=> cache.tag[w] = x
           /\ \A j \in Batches : InPad(x, j) => ptr[i][x] = [at |-> "pad", n |-> j]
           /\ \A j \in Batches : ptr[i][x] = [at |-> "pad", n |-> j] => InPad(x, j)
           /\ ~ InStore(x)
<1>1. /\ i \in Batches /\ Pending("backward", i) /\ HostOK /\ Chains /\ Batches \subseteq Nat \ {0}
      /\ pipeline \in BOOLEAN
  BY SameBut DEF Batches, HostOK
<1>2. /\ ~ Pending("fill", i) /\ ~ Pending("populate", i) /\ ~ Pending("get", i) /\ Live(i)
      /\ pipeline => Unlocked(i) /\ (i > 1 => ~ Pending("lookup", i))
      /\ \A j \in Batches : ~ Filling(j) /\ (j < i => ~ Pending("backward", j)) /\ (i < j => Pending("backward", j))
      /\ \A j \in Batches : i < j => \/ pipeline /\ j = i + 1 /\ ~ Pending("fill", j) /\ ~ Pending("lookup", j)
                                     \/ Pending("populate", j)
      /\ \A j \in Batches : Pending("populate", j) => DOMAIN slot[j] = {} /\ DOMAIN out[j] = {} /\ found[j] = {}
  BY BeforeBackward DEF Unlocked
<1>3. x \in Idx /\ cache \in Caches /\ UniqueTags(cache) /\ NoWay \notin Ways
  BY <1>1, SSDConstants DEF HostOK, Layout, Rows, NoWay
<1>4. \A w \in Ways : ~ BeingFilled(w)
  BY <1>2 DEF BeingFilled
<1>5. loc[i][x] # NoWay => loc[i][x] \in Ways /\ cache.tag[loc[i][x]] = x
  BY <1>1, <1>2 DEF Layout, Records, RecordsOf, Located, LocatedOf
<1>6. x \in Cached(cache) => loc[i][x] # NoWay
  <2>1. SUFFICES ASSUME x \in Cached(cache), loc[i][x] = NoWay PROVE FALSE
    OBVIOUS
  <2>2. i + 1 \in Batches /\ x \in DOMAIN slot[i + 1] /\ ~ Unlocked(i)
    BY <1>1, <1>2, <2>1 DEF Layout, Located, LocatedOf
  <2>3. PICK h \in Batches : h = i + 1 /\ i < h
    BY <1>1, <2>2
  <2>. QED BY <1>2, <2>2, <2>3
<1>7. \A w \in Ways : cache.tag[w] = x <=> loc[i][x] = w
  <2>1. ASSUME NEW w \in Ways, cache.tag[w] = x PROVE loc[i][x] = w
    <3>1. x \in Cached(cache)
      BY <1>3, <2>1, LocationFacts
    <3>2. loc[i][x] \in Ways /\ cache.tag[loc[i][x]] = x /\ x # NoIdx
      BY <1>3, <1>5, <1>6, <3>1, SSDConstants
    <3>. QED BY <1>3, <2>1, <3>2 DEF UniqueTags
  <2>2. ASSUME NEW w \in Ways, loc[i][x] = w PROVE cache.tag[w] = x
    BY <1>3, <1>5, <2>2
  <2>. QED BY <2>1, <2>2
<1>8. /\ loc[i][x] = NoWay => x \in conflict[i]
      /\ x \in conflict[i] /\ loc[i][x] # NoWay => x \in TakenOver(i)
      /\ x \in TakenOver(i) => pipeline
  <2>1. x \in TakenOver(i) => pipeline
    BY DEF TakenOver, Layout, Records, RecordsOf
  <2>. QED BY <1>1, <1>2, <2>1 DEF Layout, Conflicts, ConflictOf
<1>9. ptr[i][x] = IF loc[i][x] # NoWay THEN [at |-> "l1", n |-> loc[i][x]]
                  ELSE [at |-> "pad", n |-> IF x \in TakenOver(i) THEN i + 1 ELSE i]
  BY <1>1, <1>2, <1>8 DEF Layout, Pointers, PointersOf
<1>10. \A w \in Ways : ptr[i][x] = [at |-> "l1", n |-> w] <=> cache.tag[w] = x
  BY <1>3, <1>7, <1>9
<1>11. ASSUME NEW j \in Batches
       PROVE  ptr[i][x] = [at |-> "pad", n |-> j] <=>
                  loc[i][x] = NoWay /\ j = (IF x \in TakenOver(i) THEN i + 1 ELSE i)
  BY <1>9
\* The next batch, if it took the row over.
<1>12. ASSUME NEW h \in Batches, h = i + 1, ~ Pending("populate", h)
       PROVE  /\ pipeline /\ Live(h) /\ ~ Pending("fill", h) /\ Missed(h) = conflict[h] /\ TakenOver(h) = {}
              /\ TakenOver(i) = conflict[i] \cap batch[h]
              /\ x \in batch[h] /\ loc[i][x] = NoWay => x \in conflict[h]
              /\ x \in conflict[h] => x \in batch[h] /\ loc[i][x] = NoWay
              /\ x \in batch[h] => Pending("sp_evict", h)
  <2>0. i < h
    <3>1. i \in Nat
      BY <1>1
    <3>. QED BY <3>1, <1>12
  <2>1. pipeline /\ ~ Pending("fill", h) /\ Live(h) /\ ~ Pending("lookup", h)
    BY <1>2, <1>12, <2>0 DEF Live
  <2>2. Missed(h) = conflict[h]
    BY <2>1 DEF Missed
  <2>3. TakenOver(h) = {} /\ (h + 1 \in Batches => DOMAIN slot[h + 1] = {})
    <3>1. ASSUME NEW g \in Batches, g = h + 1 PROVE found[g] = {} /\ DOMAIN slot[g] = {}
      <4>0. i \in Nat
        BY <1>1
      <4>1. g = i + 2
        BY <1>12, <3>1, <4>0
      <4>2. i < g /\ g # i + 1
        BY <4>0, <4>1
      <4>3. Pending("populate", g)
        BY <1>2, <4>2
      <4>. QED BY <1>2, <4>3
    <3>. QED BY <3>1 DEF TakenOver
  <2>4. TakenOver(i) = conflict[i] \cap batch[h]
    BY <1>1, <1>12, <2>1 DEF TakenOver, Layout, Conflicts, ConflictOf
  <2>5. x \in batch[h] /\ loc[h][x] # NoWay => x \in Cached(cache)
    <3>1. SUFFICES ASSUME x \in batch[h], loc[h][x] # NoWay PROVE x \in Cached(cache)
      OBVIOUS
    <3>2. loc[h][x] \in Ways /\ cache.tag[loc[h][x]] = x
      BY <2>1, <3>1 DEF Layout, Records, RecordsOf, Located, LocatedOf
    <3>. QED BY <1>3, <3>2, LocationFacts
  <2>6. x \in batch[h] /\ loc[i][x] = NoWay => x \in conflict[h]
    BY <1>6, <2>1, <2>5 DEF Layout, Conflicts, ConflictOf
  <2>7. x \in conflict[h] => x \in batch[h] /\ loc[i][x] = NoWay
    <3>1. SUFFICES ASSUME x \in conflict[h] PROVE x \in batch[h] /\ loc[i][x] = NoWay
      OBVIOUS
    <3>2. x \in batch[h]
      BY <3>1 DEF Layout, Records, RecordsOf
    <3>3. loc[h][x] = NoWay
      BY <2>1, <2>3, <3>1, <3>2 DEF Layout, Conflicts, ConflictOf
    <3>4. x \notin Cached(cache)
      BY <2>1, <2>3, <3>2, <3>3 DEF Layout, Located, LocatedOf
    <3>5. loc[i][x] # NoWay => x \in Cached(cache)
      BY <1>3, <1>5, LocationFacts
    <3>. QED BY <3>2, <3>4, <3>5
  <2>8. x \in batch[h] => Pending("sp_evict", h)
    <3>1. Pending("backward", h)
      BY <1>2, <2>0
    <3>. QED BY <1>1, <3>1 DEF Chains, ChainOf
  <2>. QED BY <2>1, <2>2, <2>3, <2>4, <2>6, <2>7, <2>8
<1>13. x \in TakenOver(i) => i + 1 \in Batches /\ ~ Pending("populate", i + 1)
  <2>1. SUFFICES ASSUME x \in TakenOver(i) PROVE i + 1 \in Batches /\ ~ Pending("populate", i + 1)
    OBVIOUS
  <2>2. PICK h \in Batches : h = i + 1 /\ x \in found[h]
    BY <2>1 DEF TakenOver
  <2>. QED BY <1>2, <2>2
<1>14. ASSUME NEW j \in Batches, InPad(x, j)
       PROVE  loc[i][x] = NoWay /\ j = IF x \in TakenOver(i) THEN i + 1 ELSE i
  <2>1. ~ Pending("populate", j) /\ ~ Pending("fill", j) /\ x \in conflict[j] /\ x \notin TakenOver(j)
        /\ Pending("sp_evict", j)
    BY <1>2, <1>14 DEF InPad, Missed, Filling
  <2>2. CASE j = i
    BY <1>8, <2>1, <2>2
  <2>3. CASE i < j
    <3>1. j = i + 1
      BY <1>2, <2>1, <2>3
    <3>2. loc[i][x] = NoWay /\ x \in TakenOver(i)
      BY <1>8, <1>12, <2>1, <3>1
    <3>. QED BY <3>1, <3>2
  <2>4. CASE j < i
    <3>1. ~ (j + Gap <= i)
      BY <1>1, <1>2, <2>1, <2>4, SameBut DEF ApartOf
    <3>2. pipeline /\ i = j + 1 /\ i > 1
      BY <1>1, <2>4, <3>1 DEF Gap
    <3>3. found[i] = conflict[j] \cap batch[i]
      BY <1>1, <1>2, <3>2 DEF Layout, Conflicts, ConflictOf
    <3>4. x \in TakenOver(j)
      BY <1>1, <2>1, <3>2, <3>3 DEF TakenOver
    <3>. QED BY <2>1, <3>4
  <2>. QED BY <1>1, <2>2, <2>3, <2>4
<1>15. ASSUME NEW j \in Batches, loc[i][x] = NoWay, j = IF x \in TakenOver(i) THEN i + 1 ELSE i PROVE InPad(x, j)
  <2>1. CASE x \notin TakenOver(i)
    <3>1. Pending("sp_evict", i)
      BY <1>1, SameBut DEF ChainOf
    <3>2. j = i
      BY <1>15, <2>1
    <3>. QED BY <1>2, <1>8, <1>15, <2>1, <3>1, <3>2 DEF InPad, Missed
  <2>2. CASE x \in TakenOver(i)
    <3>1. j = i + 1 /\ ~ Pending("populate", j)
      BY <1>13, <1>15, <2>2
    <3>2. x \in batch[j] /\ x \in conflict[j] /\ Pending("sp_evict", j) /\ Missed(j) = conflict[j] /\ TakenOver(j) = {}
          /\ ~ Pending("fill", j)
      BY <1>12, <1>15, <2>2, <3>1
    <3>3. ~ Pending("get", j)
      BY <1>1, <3>2 DEF Chains, ChainOf
    <3>. QED BY <3>1, <3>2, <3>3 DEF InPad
  <2>. QED BY <2>1, <2>2
<1>16. ~ InStore(x)
  <2>1. CASE loc[i][x] # NoWay
    <3>1. InWay(x, loc[i][x]) /\ loc[i][x] \in Ways
      BY <1>4, <1>5, <2>1 DEF InWay
    <3>. QED BY <3>1 DEF InStore
  <2>2. CASE loc[i][x] = NoWay
    <3>1. PICK j \in Batches : j = IF x \in TakenOver(i) THEN i + 1 ELSE i
      BY <1>1, <1>13
    <3>2. InPad(x, j)
      BY <1>15, <2>2, <3>1
    <3>. QED BY <3>2 DEF InStore
  <2>. QED BY <2>1, <2>2
<1>. QED BY <1>3, <1>10, <1>11, <1>14, <1>15, <1>16

(* Each row of the batch is trained where it is.                            *)
LEMMA BackwardDevice ==
    ASSUME BackwardRun, NEW i, i = Head(todo["main"]).i, Steps("backward", i), Device
    PROVE  Device'
<1>1. /\ UNCHANGED <<cache, buffer, store, idxq, flushed, slot, out, fetch, conflict, spill, found>>
      /\ UNCHANGED <<pipeline, batch>>
      /\ l1' = [w \in Ways |-> IF {x \in batch[i] : ptr[i][x] = [at |-> "l1", n |-> w]} = {} THEN l1[w] ELSE l1[w] + 1]
      /\ pad' = [k \in Batches |-> [x \in Idx |->
                    IF x \in {y \in batch[i] : ptr[i][y] = [at |-> "pad", n |-> k]} THEN pad[k][x] + 1 ELSE pad[k][x]]]
      /\ ptr' = [ptr EXCEPT ![i] = Nothing]
      /\ loc' = [loc EXCEPT ![i] = Nothing]
  BY Zenon DEF BackwardRun, Steps
<1>2. /\ Same("populate") /\ Same("unlock") /\ Same("fill") /\ Same("lookup") /\ Same("get")
      /\ Same("copy") /\ Same("spill") /\ Same("enqueue") /\ Same("evict") /\ Same("sp_evict") /\ Same("compact")
      /\ Same("select") /\ HostOK /\ i \in Batches /\ Chains /\ Batches \subseteq Nat \ {0}
      /\ Pending("backward", i) /\ ~ Pending("backward", i)'
      /\ \A j \in Batches : j # i => (Pending("backward", j)' <=> Pending("backward", j))
  BY SameBut DEF Batches
<1>3. /\ ~ Pending("fill", i) /\ ~ Pending("populate", i) /\ ~ Pending("get", i) /\ Live(i)
      /\ pipeline => ~ Pending("unlock", i) /\ (i > 1 => ~ Pending("lookup", i))
      /\ \A j \in Batches : ~ Filling(j) /\ (j < i => ~ Pending("backward", j)) /\ (i < j => Pending("backward", j))
      /\ \A j \in Batches : i < j => \/ pipeline /\ j = i + 1 /\ ~ Pending("fill", j) /\ ~ Pending("lookup", j)
                                     \/ Pending("populate", j)
      /\ \A j \in Batches : Pending("populate", j) => DOMAIN slot[j] = {} /\ DOMAIN out[j] = {} /\ found[j] = {}
  BY BeforeBackward DEF Device
<1>4. \A x \in batch[i] :
          /\ x \in Idx
          /\ \A w \in Ways : ptr[i][x] = [at |-> "l1", n |-> w] <=> cache.tag[w] = x
          /\ \A j \in Batches : InPad(x, j) => ptr[i][x] = [at |-> "pad", n |-> j]
          /\ \A j \in Batches : ptr[i][x] = [at |-> "pad", n |-> j] => InPad(x, j)
          /\ ~ InStore(x)
  BY TrainedWhere DEF Device
<1>5. l1 \in [Ways -> Int] /\ pad \in [Batches -> [Idx -> Int]]
  BY DEF Device, Layout, Rows
<1>6. \A w \in Ways : l1'[w] = IF cache.tag[w] \in batch[i] THEN l1[w] + 1 ELSE l1[w]
  <2> SUFFICES ASSUME NEW w \in Ways PROVE l1'[w] = IF cache.tag[w] \in batch[i] THEN l1[w] + 1 ELSE l1[w]
    OBVIOUS
  <2>1. {x \in batch[i] : ptr[i][x] = [at |-> "l1", n |-> w]} = {} <=> cache.tag[w] \notin batch[i]
    BY <1>4
  <2>. QED BY Zenon, <1>1, <2>1
<1>7. \A j \in Batches : \A x \in Idx :
          pad'[j][x] = IF x \in batch[i] /\ ptr[i][x] = [at |-> "pad", n |-> j] THEN pad[j][x] + 1 ELSE pad[j][x]
  BY <1>1
<1>8. \A j \in Batches : \A x \in Idx :
          InPad(x, j) => pad'[j][x] = IF x \in batch[i] THEN pad[j][x] + 1 ELSE pad[j][x]
  <2> SUFFICES ASSUME NEW j \in Batches, NEW x \in Idx, InPad(x, j)
               PROVE  pad'[j][x] = IF x \in batch[i] THEN pad[j][x] + 1 ELSE pad[j][x]
    OBVIOUS
  <2>1. x \in batch[i] => ptr[i][x] = [at |-> "pad", n |-> j]
    BY <1>4
  <2>2. pad'[j][x] = IF x \in batch[i] /\ ptr[i][x] = [at |-> "pad", n |-> j] THEN pad[j][x] + 1 ELSE pad[j][x]
    BY <1>7
  <2>. QED BY <2>1, <2>2
<1>9. /\ \A j \in Batches : j # i => loc'[j] = loc[j] /\ ptr'[j] = ptr[j]
      /\ DOMAIN loc'[i] = {} /\ DOMAIN ptr'[i] = {}
      /\ Arrays'
  <2>1. Arrays
    BY DEF Device, Layout
  <2>2. Arrays'
    BY Zenon, <1>1, <2>1 DEF Arrays
  <2>3. \A j \in Batches : j # i => loc'[j] = loc[j] /\ ptr'[j] = ptr[j]
    BY Zenon, <1>1, <2>1 DEF Arrays
  <2>4. loc'[i] = Nothing /\ ptr'[i] = Nothing
    BY Zenon, <1>1, <1>2, <2>1 DEF Arrays
  <2>. QED BY <2>2, <2>3, <2>4 DEF Nothing
<1>10. Rows'
  <2>1. l1' \in [Ways -> Int]
    BY <1>1, <1>5
  <2>2. ASSUME NEW j \in Batches, NEW x \in Idx PROVE pad'[j][x] \in Int
    <3>1. pad[j][x] \in Int
      BY <1>5
    <3>2. PICK n \in Int : n = pad[j][x]
      BY <3>1
    <3>3. pad'[j][x] = n \/ pad'[j][x] = n + 1
      BY Zenon, <1>7, <3>2
    <3>. QED BY <3>2, <3>3
  <2>3. pad' \in [Batches -> [Idx -> Int]]
    BY Zenon, <1>1, <2>2
  <2>. QED BY Zenon, <1>1, <2>1, <2>3 DEF Device, Layout, Rows, UniqueTags
<1>11. \A j \in Batches : /\ Live(j)' <=> Live(j) /\ j # i
                          /\ Unlocked(j)' <=> Unlocked(j)
                          /\ ~ Filling(j)'
                          /\ TakenOver(j)' = TakenOver(j)
                          /\ Missed(j)' = Missed(j)
  <2>1. \A j \in Batches : Live(j)' <=> Live(j) /\ j # i
    BY <1>2 DEF Live, Same
  <2>2. \A j \in Batches : Unlocked(j)' <=> Unlocked(j)
    BY Zenon, <1>1, <1>2 DEF Unlocked, Same
  <2>3. \A j \in Batches : ~ Filling(j)'
    BY <1>2, <1>3 DEF Filling, Same
  <2>4. \A j \in Batches : TakenOver(j)' = TakenOver(j)
    BY Zenon, <1>1 DEF TakenOver
  <2>5. ASSUME NEW j \in Batches PROVE Missed(j)' = Missed(j)
    <3>1. CASE j = i
      <4>1. ~ Pending("fill", j)'
        BY <1>2, <1>3, <3>1 DEF Same
      <4>. QED BY Zenon, <1>1, <1>3, <3>1, <4>1 DEF Missed
    <3>2. CASE j # i
      <4>1. loc'[j] = loc[j] /\ (Pending("fill", j)' <=> Pending("fill", j))
        BY <1>2, <1>9, <3>2 DEF Same
      <4>. QED BY Zenon, <1>1, <4>1 DEF Missed, NoWays
    <3>. QED BY <3>1, <3>2
  <2>. QED BY <2>1, <2>2, <2>3, <2>4, <2>5
<1>12. Slots'
  BY Zenon, <1>1, <1>2, SlotsStay DEF Device, Layout
<1>13. Records'
  <2> SUFFICES ASSUME NEW j \in Batches PROVE RecordsOf(j)'
    BY DEF Records
  <2>1. RecordsOf(j)
    BY DEF Device, Layout, Records
  <2>2. CASE j = i
    BY Zenon, <1>1, <1>2, <1>9, <1>11, <2>1, <2>2 DEF RecordsOf, Same
  <2>3. CASE j # i
    BY Zenon, <1>1, <1>2, <1>9, <1>11, <2>1, <2>3 DEF RecordsOf, Same
  <2>. QED BY <2>2, <2>3
<1>14. Fillings'
  BY <1>11 DEF Fillings, FillingOf
<1>15. Located'
  <2> SUFFICES ASSUME NEW j \in Batches, j # i PROVE LocatedOf(j)'
    BY <1>11 DEF Located, LocatedOf
  <2>1. LocatedOf(j)
    BY DEF Device, Layout, Located
  <2>2. (Live(j)' <=> Live(j)) /\ (Unlocked(j)' <=> Unlocked(j)) /\ loc'[j] = loc[j]
    BY <1>9, <1>11
  <2>. QED BY Zenon, <1>1, <2>1, <2>2 DEF LocatedOf
<1>16. Conflicts'
  <2> SUFFICES ASSUME NEW j \in Batches PROVE ConflictOf(j)'
    BY DEF Conflicts
  <2>1. ConflictOf(j)
    BY DEF Device, Layout, Conflicts
  <2>2. CASE j # i
    <3>1. (Live(j)' <=> Live(j)) /\ (Unlocked(j)' <=> Unlocked(j)) /\ loc'[j] = loc[j]
          /\ (Pending("fill", j)' <=> Pending("fill", j))
      BY <1>2, <1>9, <1>11, <2>2 DEF Same
    <3>. QED BY Zenon, <1>1, <1>2, <2>1, <3>1, ConflictStays
  <2>3. CASE j = i
    <3>1. ~ Live(i)' /\ TakenOver(i)' = TakenOver(i)
      BY <1>2, <1>11
    <3>2. ConflictOf(i)'
      BY Zenon, <1>1, <1>2, <2>1, <2>3, <3>1 DEF ConflictOf, Same
    <3>. QED BY <2>3, <3>2
  <2>. QED BY <2>2, <2>3
<1>17. Pointers'
  <2> SUFFICES ASSUME NEW j \in Batches, j # i PROVE PointersOf(j)'
    BY <1>11 DEF Pointers, PointersOf
  <2>1. /\ (Live(j)' <=> Live(j)) /\ (Unlocked(j)' <=> Unlocked(j)) /\ loc'[j] = loc[j] /\ ptr'[j] = ptr[j]
        /\ (Pending("fill", j)' <=> Pending("fill", j)) /\ TakenOver(j)' = TakenOver(j) /\ PointersOf(j)
    BY <1>2, <1>9, <1>11 DEF Same, Device, Layout, Pointers
  <2>. QED BY Zenon, <1>1, <2>1, PointerStays
<1>18. Layout'
  BY <1>9, <1>10, <1>12, <1>13, <1>14, <1>15, <1>16, <1>17 DEF Layout
<1>19. IndexQueue'
  BY Zenon, <1>1, <1>2, IndexQueueStays DEF Device
<1>20. Locks'
  <2>1. ASSUME pipeline, NEW w \in Ways PROVE Users(w)' = Users(w)
    <3>1. ASSUME NEW j \in Batches PROVE j \in Users(w)' <=> j \in Users(w)
      <4>1. CASE j = i
        BY Zenon, <1>2, <1>3, <2>1, <4>1 DEF Users, Same
      <4>2. CASE j # i
        <5>1. loc'[j] = loc[j] /\ (Pending("unlock", j)' <=> Pending("unlock", j))
          BY Zenon, <1>2, <1>9, <4>2 DEF Same
        <5>. QED BY <5>1 DEF Users
      <4>. QED BY <4>1, <4>2
    <3>2. Users(w) \subseteq Batches /\ Users(w)' \subseteq Batches
      BY DEF Users
    <3>. QED BY <3>1, <3>2
  <2>. QED BY <1>1, <2>1 DEF Device, Locks
<1>21. Times'
  BY Zenon, <1>1, <1>2, TimesStay DEF Device, Same
<1>22. \A x : /\ x \notin batch[i] => Latest(x)' = Latest(x)
              /\ x \in batch[i] => Latest(x)' = Latest(x) + 1
  <2> SUFFICES ASSUME NEW x
               PROVE  /\ x \notin batch[i] => Latest(x)' = Latest(x)
                      /\ x \in batch[i] => Latest(x)' = Latest(x) + 1
    OBVIOUS
  <2>1. PICK S : S = {j \in Batches : IsTrained(j) /\ x \in batch[j]}
    OBVIOUS
  <2>2. IsFiniteSet(S) /\ i \notin S
    <3>1. IsFiniteSet(Batches)
      BY SSDConstants, FS_Interval DEF Batches
    <3>2. S \in SUBSET Batches
      BY <2>1
    <3>. QED BY <1>2, <2>1, <3>1, <3>2, FS_Subset DEF IsTrained
  <2>3. {j \in Batches : IsTrained(j)' /\ x \in batch'[j]} = IF x \in batch[i] THEN S \cup {i} ELSE S
    BY Zenon, <1>1, <1>2, <2>1 DEF IsTrained
  <2>4. Latest(x)' = Cardinality(IF x \in batch[i] THEN S \cup {i} ELSE S) /\ Latest(x) = Cardinality(S)
    BY Zenon, <2>1, <2>3 DEF Latest
  <2>5. Cardinality(S \cup {i}) = Cardinality(S) + 1
    BY <2>2, FS_AddElement
  <2>. QED BY <2>4, <2>5
<1>23. \A x, w : InWay(x, w)' <=> InWay(x, w)
  BY Zenon, <1>1, <1>2, InWayStays
<1>24. \A j \in Batches : \A x : InPad(x, j)' <=> InPad(x, j)
  BY Zenon, <1>1, <1>2, <1>11 DEF InPad, Same
<1>25. \A j \in Batches : \A x : Leaving(x, j)' <=> Leaving(x, j)
  BY Zenon, <1>1, <1>2, LeavingStays
<1>26. WayValues'
  <2> SUFFICES ASSUME NEW w \in Ways, NEW x \in Idx, InWay(x, w) PROVE l1'[w] = Latest(x)'
    BY <1>23 DEF WayValues
  <2>1. cache.tag[w] = x /\ l1[w] = Latest(x)
    BY DEF InWay, Device, Values, WayValues
  <2>. QED BY <1>6, <1>22, <2>1
<1>27. PadValues'
  <2> SUFFICES ASSUME NEW j \in Batches, NEW x \in Idx, InPad(x, j) PROVE pad'[j][x] = Latest(x)'
    BY <1>24 DEF PadValues
  <2>1. pad[j][x] = Latest(x)
    BY DEF Device, Values, PadValues
  <2>. QED BY <1>8, <1>22, <2>1
<1>28. OldPads'
  <2> SUFFICES ASSUME NEW j \in Batches, Live(j), j # i, NEW x \in TakenOver(j) PROVE FALSE
    BY <1>11 DEF OldPads
  <2>1. i < j
    <3>1. i \in Nat /\ j \in Nat
      BY <1>2
    <3>2. ~ (j < i)
      BY <1>3 DEF Live
    <3>. QED BY <3>1, <3>2
  <2>2. j + 1 \in Batches /\ x \in found[j + 1]
    BY DEF TakenOver
  <2>3. PICK h \in Batches : h = j + 1 /\ i < h /\ h # i + 1
    BY <1>2, <2>1, <2>2
  <2>. QED BY <1>3, <2>2, <2>3
<1>29. LeftValues'
  <2> SUFFICES ASSUME NEW j \in Batches, NEW y \in Idx, Leaving(y, j), Pending("select", j) PROVE FALSE
    BY Zenon, <1>2, <1>25 DEF LeftValues, Same
  <2>1. Pending("fill", j)
    BY <1>2 DEF Chains, ChainOf
  <2>2. ~ Pending("populate", j)
    BY <1>3 DEF Leaving
  <2>. QED BY <1>3, <2>1, <2>2 DEF Filling
<1>30. StoreValues'
  <2> SUFFICES ASSUME NEW x \in Idx, InStore(x) PROVE store[x] = Latest(x)'
    BY Zenon, <1>1, <1>23, <1>24, <1>25 DEF StoreValues, InStore
  <2>1. x \notin batch[i]
    BY <1>4
  <2>. QED BY <1>22, <2>1 DEF Device, Values, StoreValues
<1>31. Buffers'
  <2> SUFFICES ASSUME NEW j \in Batches PROVE BufferOf(j)'
    BY DEF Buffers
  <2>1. BufferOf(j)
    BY DEF Device, Values, Buffers
  <2>2. ASSUME Pending("evict", j), ~ Pending("compact", j), NEW y \in DOMAIN out[j] PROVE y \notin batch[i]
    <3>1. ~ Pending("populate", j)
      BY <1>2, <2>2 DEF Chains, ChainOf
    <3>2. CASE j = i
      BY <2>2, <3>2 DEF Device, Layout, Slots, SlotsOf
    <3>3. CASE i < j
      <4>1. j = i + 1
        BY <1>3, <3>1, <3>3
      <4>. QED BY <1>2, <2>2, <4>1 DEF Device, Layout, Slots, SlotsOf
    <3>4. CASE j < i
      <4>1. j # 1
        BY <2>2 DEF Device, Layout, Slots, SlotsOf
      <4>. QED BY <1>3, <2>2, <3>1, <3>4, <4>1, SameBut DEF ApartOf
    <3>5. i \in Nat /\ j \in Nat
      BY <1>2
    <3>6. j = i \/ i < j \/ j < i
      BY <3>5
    <3>. QED BY <3>2, <3>3, <3>4, <3>6
  <2>3. \A y : Pending("evict", j) /\ ~ Pending("compact", j) /\ y \in DOMAIN out[j] => Latest(y)' = Latest(y)
    BY <1>22, <2>2
  <2>. QED BY Zenon, <1>1, <1>2, <2>1, <2>3 DEF BufferOf, Same
<1>32. Flushing' /\ Flushed'
  <2>1. "backward" \in MainWorks
    BY DEF MainWorks
  <2>. QED BY Zenon, <1>1, <2>1, NothingRead, FlushedStays DEF Device
<1>. QED BY <1>18, <1>19, <1>20, <1>21, <1>26, <1>27, <1>28, <1>29, <1>30, <1>31, <1>32 DEF Device, Values

-----------------------------------------------------------------------------
(* The steps of the host, and those of flush: no row of a batch moves, and  *)
(* only a batch not prefetched yet gets its indices.                        *)
Rests ==
    /\ \A w \in InStep : Same(w)
    /\ pipeline => Same("enqueue") /\ Same("unlock")
    /\ pipeline => \A j \in Batches : j > 1 => (Pending("lookup", j)' <=> Pending("lookup", j))
    /\ \A j \in Batches : Pending("populate", j) \/ (Pending("evict", j)' <=> Pending("evict", j))
    /\ \A j \in Batches : batch[j] = {} \/ (Pending("sp_evict", j)' <=> Pending("sp_evict", j))
    /\ \A j \in Batches : batch'[j] = batch[j] \/ (batch[j] = {} /\ Pending("populate", j))
    /\ \A j \in Batches : batch'[j] \in SUBSET Idx
    /\ UNCHANGED <<pipeline, cache, l1, buffer, idxq, loc, slot, out, fetch, conflict, spill, found, pad, ptr>>

\* A batch not prefetched yet has nothing.
LEMMA NothingYet ==
    ASSUME Chains, HostOK, Layout, NEW j \in Batches, Pending("populate", j)
    PROVE  /\ DOMAIN slot[j] = {} /\ DOMAIN out[j] = {} /\ found[j] = {} /\ DOMAIN loc[j] = {} /\ DOMAIN ptr[j] = {}
           /\ TakenOver(j) = {}
           /\ \A h \in Batches : h = j + 1 => DOMAIN slot[h] = {} /\ DOMAIN out[h] = {} /\ found[h] = {}
           /\ Pending("fill", j) /\ Pending("backward", j) /\ Pending("spill", j) /\ Pending("compact", j)
           /\ Pending("select", j)
           /\ pipeline => Pending("unlock", j) /\ Pending("enqueue", j) /\ (j > 1 => Pending("lookup", j))
<1>0. Batches \subseteq Nat \ {0}
  BY DEF Batches
<1>1. /\ Pending("fill", j) /\ Pending("backward", j) /\ Pending("spill", j) /\ Pending("compact", j)
      /\ Pending("select", j) /\ ~ Live(j)
      /\ pipeline => Pending("unlock", j) /\ Pending("enqueue", j) /\ (j > 1 => Pending("lookup", j))
  BY <1>0 DEF Chains, ChainOf, Live
<1>2. DOMAIN slot[j] = {} /\ DOMAIN out[j] = {}
  BY DEF Layout, Slots, SlotsOf
<1>3. DOMAIN loc[j] = {} /\ DOMAIN ptr[j] = {} /\ found[j] = {}
  <2>1. ~ pipeline \/ j = 1 \/ Pending("lookup", j)
    BY <1>0, <1>1
  <2>. QED BY <1>1, <2>1 DEF Layout, Records, RecordsOf
<1>4. TakenOver(j) = {}
  BY <1>1, OneFills
<1>5. \A h \in Batches : h = j + 1 => DOMAIN slot[h] = {} /\ DOMAIN out[h] = {} /\ found[h] = {}
  <2>1. ASSUME NEW h \in Batches, h = j + 1 PROVE DOMAIN slot[h] = {} /\ DOMAIN out[h] = {} /\ found[h] = {}
    <3>1. j < h
      BY <1>0, <2>1
    <3>2. DOMAIN slot[h] = {} /\ DOMAIN out[h] = {}
      BY <1>1, <3>1, OneFills
    <3>3. found[h] = {}
      BY <1>4, <2>1 DEF TakenOver
    <3>. QED BY <3>2, <3>3
  <2>. QED BY <2>1
<1>. QED BY <1>1, <1>2, <1>3, <1>4, <1>5

LEMMA RestingRows ==
    ASSUME Rests, Layout, Chains, HostOK
    PROVE  /\ \A x : Latest(x)' = Latest(x)
           /\ \A x, w : InWay(x, w)' <=> InWay(x, w)
           /\ \A j \in Batches : TakenOver(j)' = TakenOver(j)
           /\ \A j \in Batches : /\ Live(j)' <=> Live(j)
                                 /\ Unlocked(j)' <=> Unlocked(j)
                                 /\ Filling(j)' <=> Filling(j)
           /\ \A j \in Batches : Pending("populate", j) \/ Missed(j)' = Missed(j)
           /\ \A j \in Batches : Pending("populate", j) \/ batch'[j] = batch[j]
           /\ \A j \in Batches : \A x : InPad(x, j)' <=> InPad(x, j)
           /\ \A j \in Batches : \A x : Leaving(x, j)' <=> Leaving(x, j)
           /\ \A x : InStore(x)' <=> InStore(x)
<1>1. /\ Same("populate") /\ Same("backward") /\ Same("fill") /\ Same("get") /\ pipeline \in BOOLEAN
      /\ pipeline => Same("unlock")
      /\ UNCHANGED <<pipeline, cache, slot, out, found, conflict, loc>>
  BY DEF Rests, InStep, HostOK
<1>2. \A j \in Batches : Pending("populate", j) \/ batch'[j] = batch[j]
  BY DEF Rests
<1>3. \A x : Latest(x)' = Latest(x)
  <2> SUFFICES ASSUME NEW x PROVE Latest(x)' = Latest(x)
    OBVIOUS
  <2>1. ASSUME NEW j \in Batches PROVE IsTrained(j)' /\ x \in batch'[j] <=> IsTrained(j) /\ x \in batch[j]
    <3>1. IsTrained(j)' <=> IsTrained(j)
      BY <1>1 DEF IsTrained, Same
    <3>2. IsTrained(j) => ~ Pending("populate", j)
      BY NothingYet DEF IsTrained
    <3>. QED BY <1>2, <3>1, <3>2
  <2>2. {j \in Batches : IsTrained(j)' /\ x \in batch'[j]} = {j \in Batches : IsTrained(j) /\ x \in batch[j]}
    BY <2>1
  <2>. QED BY <2>2 DEF Latest
<1>4. \A x, w : InWay(x, w)' <=> InWay(x, w)
  BY <1>1, InWayStays
<1>5. \A j \in Batches : TakenOver(j)' = TakenOver(j)
  BY <1>1 DEF TakenOver
<1>6. \A j \in Batches : (Live(j)' <=> Live(j)) /\ (Unlocked(j)' <=> Unlocked(j)) /\ (Filling(j)' <=> Filling(j))
  BY <1>1 DEF Live, Unlocked, Filling, Same
<1>7. \A j \in Batches : Pending("populate", j) \/ Missed(j)' = Missed(j)
  BY <1>1, <1>2 DEF Missed, NoWays, Same
<1>8. ASSUME NEW j \in Batches, NEW x PROVE InPad(x, j)' <=> InPad(x, j)
  <2>1. CASE Pending("populate", j)
    BY <1>1, <2>1 DEF InPad, Same
  <2>2. CASE ~ Pending("populate", j)
    <3>1. Missed(j)' = Missed(j) /\ TakenOver(j)' = TakenOver(j)
      BY <1>5, <1>7, <2>2
    <3>2. x \in Missed(j) => batch[j] # {}
      BY DEF Missed, NoWays, Layout, Slots, SlotsOf, Records, RecordsOf
    <3>3. batch[j] = {} \/ (Pending("sp_evict", j)' <=> Pending("sp_evict", j))
      BY DEF Rests
    <3>. QED BY <1>1, <3>1, <3>2, <3>3 DEF InPad, Same
  <2>. QED BY <2>1, <2>2
<1>9. ASSUME NEW j \in Batches, NEW x PROVE Leaving(x, j)' <=> Leaving(x, j)
  <2>1. CASE Pending("populate", j)
    BY <1>1, <2>1, NothingYet DEF Leaving
  <2>2. CASE ~ Pending("populate", j)
    BY <1>1, <2>2 DEF Leaving, Rests
  <2>. QED BY <2>1, <2>2
<1>10. \A x : InStore(x)' <=> InStore(x)
  BY <1>4, <1>8, <1>9 DEF InStore
<1>. QED BY <1>2, <1>3, <1>4, <1>5, <1>6, <1>7, <1>8, <1>9, <1>10

LEMMA RestingLayout ==
    ASSUME Rests, Layout, Chains, HostOK, store' \in [Idx -> Int]
    PROVE  Layout'
<1>1. /\ Same("populate") /\ Same("backward") /\ Same("fill") /\ Same("get") /\ Same("copy") /\ Same("spill")
      /\ pipeline \in BOOLEAN /\ pipeline => Same("unlock") /\ Batches \subseteq Nat \ {0}
      /\ pipeline => \A j \in Batches : j > 1 => (Pending("lookup", j)' <=> Pending("lookup", j))
      /\ UNCHANGED <<pipeline, cache, l1, buffer, loc, slot, out, fetch, conflict, spill, found, pad, ptr>>
      /\ \A j \in Batches : batch'[j] \in SUBSET Idx
  BY DEF Rests, InStep, HostOK, Batches
<1>2. /\ \A j \in Batches : TakenOver(j)' = TakenOver(j)
      /\ \A j \in Batches : (Live(j)' <=> Live(j)) /\ (Unlocked(j)' <=> Unlocked(j)) /\ (Filling(j)' <=> Filling(j))
      /\ \A j \in Batches : Pending("populate", j) \/ Missed(j)' = Missed(j)
      /\ \A j \in Batches : Pending("populate", j) \/ batch'[j] = batch[j]
  BY RestingRows
<1>3. Arrays' /\ Rows'
  BY <1>1 DEF Layout, Arrays, Rows, UniqueTags
<1>4. ASSUME NEW j \in Batches, Pending("populate", j)
      PROVE  SlotsOf(j)' /\ RecordsOf(j)' /\ FillingOf(j)' /\ LocatedOf(j)' /\ ConflictOf(j)' /\ PointersOf(j)'
  <2>1. /\ DOMAIN slot[j] = {} /\ DOMAIN out[j] = {} /\ found[j] = {} /\ DOMAIN loc[j] = {} /\ DOMAIN ptr[j] = {}
        /\ \A h \in Batches : h = j + 1 => DOMAIN slot[h] = {} /\ DOMAIN out[h] = {} /\ found[h] = {}
        /\ Pending("fill", j) /\ Pending("spill", j) /\ ~ Live(j) /\ ~ Filling(j)
    BY <1>4, NothingYet DEF Live, Filling
  <2>2. SlotsOf(j)'
    <3>1. SlotsOf(j)
      BY DEF Layout, Slots
    <3>2. j + 1 \in Batches => DOMAIN out[j + 1] = {}
      BY <2>1
    <3>. QED BY <1>1, <1>4, <2>1, <3>1, <3>2 DEF SlotsOf, Same
  <2>3. RecordsOf(j)'
    <3>1. conflict[j] \subseteq batch'[j]
      BY DEF Layout, Records, RecordsOf, Rests
    <3>. QED BY <1>1, <1>2, <2>1, <3>1 DEF RecordsOf
  <2>4. FillingOf(j)' /\ LocatedOf(j)' /\ PointersOf(j)'
    BY <1>2, <2>1 DEF FillingOf, LocatedOf, PointersOf
  <2>5. ConflictOf(j)'
    <3>1. pipeline /\ j + 1 \in Batches => Pending("lookup", j + 1)'
      <4>1. ASSUME pipeline, NEW h \in Batches, h = j + 1 PROVE Pending("lookup", h)'
        <5>1. j < h /\ h > 1
          BY <1>1, <4>1
        <5>2. Pending("populate", h)
          BY <2>1, <5>1 DEF Chains, ApartOf
        <5>3. Pending("lookup", h)
          BY <4>1, <5>1, <5>2, NothingYet
        <5>. QED BY <1>1, <4>1, <5>1, <5>3
      <4>. QED BY <4>1
    <3>. QED BY <1>1, <1>2, <2>1, <3>1 DEF ConflictOf, Same
  <2>. QED BY <2>2, <2>3, <2>4, <2>5
<1>5. ASSUME NEW j \in Batches, ~ Pending("populate", j)
      PROVE  SlotsOf(j)' /\ RecordsOf(j)' /\ FillingOf(j)' /\ LocatedOf(j)' /\ ConflictOf(j)' /\ PointersOf(j)'
  <2>1. /\ SlotsOf(j) /\ RecordsOf(j) /\ FillingOf(j) /\ LocatedOf(j) /\ ConflictOf(j) /\ PointersOf(j)
        /\ batch'[j] = batch[j] /\ Missed(j)' = Missed(j) /\ TakenOver(j)' = TakenOver(j)
        /\ (Live(j)' <=> Live(j)) /\ (Unlocked(j)' <=> Unlocked(j)) /\ (Filling(j)' <=> Filling(j))
        /\ Pending("fill", j)' <=> Pending("fill", j)
        /\ Pending("backward", j)' <=> Pending("backward", j)
        /\ Pending("populate", j)' <=> Pending("populate", j)
        /\ Pending("copy", j)' <=> Pending("copy", j)
        /\ Pending("spill", j)' <=> Pending("spill", j)
    BY <1>1, <1>2, <1>5 DEF Layout, Slots, Records, Fillings, Located, Conflicts, Pointers, Same
  <2>2. SlotsOf(j)'
    BY <1>1, <2>1 DEF SlotsOf
  <2>3. RecordsOf(j)'
    <3>1. j = 1 \/ j > 1
      BY DEF Batches
    <3>2. ~ pipeline \/ j = 1 \/ (Pending("lookup", j)' <=> Pending("lookup", j))
      BY <1>1, <3>1
    <3>. QED BY <1>1, <2>1, <3>2 DEF RecordsOf
  <2>4. FillingOf(j)'
    BY <1>1, <2>1 DEF FillingOf
  <2>5. LocatedOf(j)'
    BY <1>1, <2>1 DEF LocatedOf
  <2>6. ConflictOf(j)'
    <3>1. ASSUME pipeline, NEW h \in Batches, h = j + 1, ~ Pending("lookup", h)'
          PROVE  found[h] = conflict[j] \cap batch'[h]
      <4>1. h > 1
        BY <1>1, <3>1
      <4>2. ~ Pending("lookup", h)
        BY <1>1, <3>1, <4>1
      <4>3. ~ Pending("populate", h)
        BY <3>1, <4>1, <4>2, NothingYet
      <4>. QED BY <1>2, <2>1, <3>1, <4>2, <4>3 DEF ConflictOf
    <3>. QED BY <1>1, <2>1, <3>1 DEF ConflictOf
  <2>7. PointersOf(j)'
    BY <1>1, <2>1 DEF PointersOf
  <2>. QED BY <2>2, <2>3, <2>4, <2>5, <2>6, <2>7
<1>. QED BY <1>3, <1>4, <1>5 DEF Layout, Slots, Records, Fillings, Located, Conflicts, Pointers

LEMMA RestingDevice ==
    ASSUME Rests, Device, Chains, HostOK
    PROVE  /\ IndexQueue' /\ Locks' /\ Times' /\ WayValues' /\ PadValues' /\ OldPads' /\ LeftValues' /\ Buffers'
           /\ UNCHANGED store => StoreValues' /\ Layout'
<1>1. /\ Same("populate") /\ Same("backward") /\ Same("fill") /\ Same("compact") /\ Same("select")
      /\ pipeline \in BOOLEAN /\ pipeline => Same("unlock") /\ Same("enqueue") /\ Batches \subseteq Nat \ {0}
      /\ pipeline => \A j \in Batches : j > 1 => (Pending("lookup", j)' <=> Pending("lookup", j))
      /\ UNCHANGED <<pipeline, cache, l1, buffer, idxq, loc, slot, out, fetch, conflict, spill, found, pad, ptr>>
      /\ Layout /\ \A j \in Batches : Pending("populate", j) \/ (Pending("evict", j)' <=> Pending("evict", j))
  BY DEF Rests, InStep, HostOK, Batches, Device
<1>2. /\ \A x : Latest(x)' = Latest(x)
      /\ \A x, w : InWay(x, w)' <=> InWay(x, w)
      /\ \A j \in Batches : TakenOver(j)' = TakenOver(j)
      /\ \A j \in Batches : (Live(j)' <=> Live(j)) /\ (Unlocked(j)' <=> Unlocked(j))
      /\ \A j \in Batches : \A x : InPad(x, j)' <=> InPad(x, j)
      /\ \A j \in Batches : \A x : Leaving(x, j)' <=> Leaving(x, j)
      /\ \A x : InStore(x)' <=> InStore(x)
  BY <1>1, RestingRows
<1>3. IndexQueue'
  <2>1. ASSUME pipeline, NEW j \in Batches PROVE InQueue(j)' <=> InQueue(j)
    <3>1. Pending("enqueue", j)' <=> Pending("enqueue", j)
      BY <1>1, <2>1 DEF Same
    <3>2. ASSUME NEW h \in Batches, h = j + 1 PROVE Pending("lookup", h)' <=> Pending("lookup", h)
      <4>0. j \in Nat \ {0}
        BY DEF Batches
      <4>1. h > 1
        BY <4>0, <3>2
      <4>. QED BY <1>1, <2>1, <4>1
    <3>. QED BY <1>1, <3>1, <3>2 DEF InQueue
  <2>2. \A j \in Batches : InQueue(j)' <=> InQueue(j)
    BY <1>1, <2>1 DEF InQueue
  <2>. QED BY <1>1, <2>2 DEF Device, IndexQueue
<1>4. Locks'
  <2>1. pipeline => \A w \in Ways : Users(w)' = Users(w)
    BY <1>1 DEF Users, Same
  <2>. QED BY <1>1, <2>1 DEF Device, Locks
<1>5. Times'
  BY <1>1, TimesStay DEF Device, Same
<1>6. WayValues' /\ PadValues' /\ (UNCHANGED store => StoreValues')
  BY <1>1, <1>2 DEF Device, Values, WayValues, PadValues, StoreValues
<1>7. OldPads'
  BY <1>1, <1>2 DEF Device, Values, OldPads
<1>8. LeftValues'
  BY <1>1, <1>2 DEF Device, Values, LeftValues, Same
<1>9. Buffers'
  <2> SUFFICES ASSUME NEW j \in Batches PROVE BufferOf(j)'
    BY DEF Buffers
  <2>1. CASE Pending("populate", j)
    <3>1. Pending("compact", j)'
      BY <1>1, <2>1, NothingYet DEF Same
    <3>. QED BY <3>1 DEF BufferOf
  <2>2. CASE ~ Pending("populate", j)
    <3>1. /\ Pending("evict", j)' <=> Pending("evict", j)
          /\ Pending("compact", j)' <=> Pending("compact", j)
          /\ Pending("select", j)' <=> Pending("select", j)
      BY <1>1, <2>2 DEF Same
    <3>. QED BY <1>1, <1>2, <3>1 DEF BufferOf, Device, Values, Buffers
  <2>. QED BY <2>1, <2>2
<1>10. UNCHANGED store => Layout'
  <2>1. store \in [Idx -> Int]
    BY <1>1 DEF Layout, Rows
  <2>. QED BY <1>1, <2>1, RestingLayout
<1>. QED BY <1>3, <1>4, <1>5, <1>6, <1>7, <1>8, <1>9, <1>10

\* The works are works.
LEMMA WorksAre ==
    {"populate", "compact", "select", "lookup", "get", "fill", "copy", "evict", "spill", "enqueue",
     "forward", "unlock", "backward", "sp_evict"} \subseteq Works /\ InStep \subseteq Works
BY DEF Works, SideWorks, EvictWorks, MainWorks, InStep

LEMMA AllRest ==
    ASSUME \A w \in Works, i \in Batches : Pending(w, i)' <=> Pending(w, i), HostOK,
           UNCHANGED <<pipeline, batch, cache, l1, buffer, idxq, loc, slot, out, fetch, conflict, spill, found, pad, ptr>>
    PROVE  Rests
<1>1. \A w \in InStep : Same(w)
  BY WorksAre DEF Same
<1>2. Same("enqueue") /\ Same("unlock")
  BY WorksAre DEF Same
<1>3. \A j \in Batches : /\ Pending("lookup", j)' <=> Pending("lookup", j)
                         /\ Pending("evict", j)' <=> Pending("evict", j)
                         /\ Pending("sp_evict", j)' <=> Pending("sp_evict", j)
  BY WorksAre
<1>4. \A j \in Batches : batch'[j] = batch[j] /\ batch'[j] \in SUBSET Idx
  BY DEF HostOK
<1>. QED BY <1>1, <1>2, <1>3, <1>4 DEF Rests

(* What flush reads is the latest, but for the rows of a batch being filled *)
(* that is prefetched ahead.                                                *)
LEMMA FlushReadDevice ==
    ASSUME Order, Order', FlushRead, Device
    PROVE  Device'
<1>1. /\ UNCHANGED <<trainer, gate, ready, event, cache, l1, buffer, store, idxq, perBatch>>
      /\ flushed' = [x \in Cached(cache) |-> l1[Location(cache, x)]]
      /\ Runs("main", "flush") /\ Done("main")
  BY DEF FlushRead, Done
<1>2. UNCHANGED <<pipeline, side, nextP, nextF, nextB, lastFlush, host>>
  BY <1>1 DEF trainer
<1>3. UNCHANGED <<batch, loc, slot, out, fetch, conflict, spill, found, pad, ptr>>
  BY <1>1 DEF perBatch
<1>4. PICK p : p = Head(todo["main"])
  OBVIOUS
<1>5. "main" \in Streams /\ Ready("main") /\ p.work = "flush"
  BY <1>1, <1>4 DEF Runs, Ready, Streams
<1>6. \A w \in Works, i \in Batches : Pending(w, i)' <=> Pending(w, i)
  <2>1. \A w \in Works : w # "flush"
    BY DEF Works, SideWorks, EvictWorks, MainWorks
  <2>2. \A w \in Works, i \in Batches : Pending(w, i)' <=> Pending(w, i) /\ ~ (p.work = w /\ p.i = i)
    BY <1>1, <1>3, <1>4, <1>5, DonePending
  <2>. QED BY <1>5, <2>1, <2>2
<1>7. HostOK /\ Chains
  BY OrderChains DEF Order
<1>8. Rests
  BY <1>1, <1>2, <1>3, <1>6, <1>7, AllRest
<1>9. /\ Layout' /\ IndexQueue' /\ Locks' /\ Times' /\ Values'
  BY <1>1, <1>7, <1>8, RestingDevice DEF Values
<1>10. /\ \A x : Latest(x)' = Latest(x)
       /\ Cached(cache') = Cached(cache)
  BY <1>1, <1>7, <1>8, RestingRows DEF Device
<1>11. todo'["main"] = <<>> /\ host = "flush"
  <2>1. ContentOf("main", p) /\ ran["main"] + 1 \in Queue("main") /\ Piece("main", ran["main"] + 1) = p
    BY <1>4, <1>5, HeadFacts
  <2>2. ran["main"] + 1 = End("main")
    BY <1>5, <2>1 DEF Order, FlushLast
  <2>3. Tail(todo["main"]) = <<>>
    BY <1>5, <2>2, QueueFacts DEF Order, Ready
  <2>4. todo'["main"] = Tail(todo["main"])
    BY <1>1, <1>5 DEF Done, Finish, Order, StreamsOK
  <2>. QED BY <1>5, <2>1, <2>3, <2>4 DEF ContentOf
<1>12. FlushQueue'
  BY <1>2, <1>11 DEF FlushQueue, Device, Flushing
<1>13. FillingAhead'
  BY <1>2, <1>11, <1>12, ReadsLastNext DEF FlushReads
<1>14. cache \in Caches /\ UniqueTags(cache) /\ l1 \in [Ways -> Int] /\ Cached(cache) \subseteq Idx
  <2>1. cache \in Caches /\ UniqueTags(cache) /\ l1 \in [Ways -> Int]
    BY DEF Device, Layout, Rows
  <2>. QED BY <2>1 DEF Caches, Cached
<1>15. ASSUME NEW x \in Cached(cache)
       PROVE  flushed'[x] \in Int /\ FlushOf(x)'
  <2>1. PICK w \in Ways : w = Location(cache, x) /\ cache.tag[w] = x /\ flushed'[x] = l1[w]
    BY <1>1, <1>14, LocationFacts
  <2>2. CASE InWay(x, w)
    <3>1. l1[w] = Latest(x)
      BY <1>14, <2>2 DEF Device, Values, WayValues
    <3>. QED BY <1>10, <1>14, <2>1, <3>1 DEF FlushOf
  <2>3. CASE ~ InWay(x, w)
    <3>1. PICK j \in Batches : Filling(j) /\ \E y \in DOMAIN slot[j] : slot[j][y] = w
      BY <2>1, <2>3 DEF InWay, BeingFilled
    <3>2. PICK y \in DOMAIN slot[j] : slot[j][y] = w
      BY <3>1
    <3>3. cache.tag[w] = y
      BY <3>1, <3>2 DEF Device, Layout, Fillings, FillingOf
    <3>4. x \in DOMAIN slot[j]
      BY <2>1, <3>2, <3>3
    <3>5. ~ (j >= nextP) /\ Pending("fill", j)
      BY <3>1 DEF Filling, Pending, Turn
    <3>6. Pending("fill", j)'
      BY <1>6, <3>5, WorksAre
    <3>7. j \in Nat /\ nextP \in Nat
      BY <1>7 DEF Batches, HostOK
    <3>8. j = nextP - 1 /\ nextP = nextB + 2
      BY <1>2, <1>13, <3>5, <3>6, <3>7 DEF FillingAhead
    <3>. QED BY <1>2, <1>3, <1>10, <1>14, <2>1, <3>4, <3>8 DEF FlushOf
  <2>. QED BY <2>2, <2>3
<1>16. Flushing'
  <2>1. DOMAIN flushed' = Cached(cache)
    BY <1>1
  <2>. QED BY <1>10, <1>12, <1>14, <1>15, <2>1 DEF Flushing
<1>17. Flushed'
  <2>1. step' = step
    BY <1>2 DEF step
  <2>2. ~ Idle
    BY <1>5 DEF Ready, Idle, Order, StreamsOK
  <2>. QED BY <1>2, <2>1, <2>2 DEF Flushed, Device
<1>. QED BY <1>9, <1>16, <1>17 DEF Device

LEMMA IdlePending ==
    ASSUME Order, Idle
    PROVE  \A w \in Works, i \in Batches : Pending(w, i) <=> i >= Turn(w)
<1>1. StreamsOK /\ HostOK
  BY DEF Order
<1>2. \A w \in Works : Queue(On(w)) = {}
  BY <1>1, WorkFacts, QueueFacts DEF Idle, StreamsOK
<1>. QED BY <1>2 DEF Pending, Queued

(* What flush writes is the latest of the rows of the store.                *)
LEMMA FlushWriteDevice ==
    ASSUME Order, FlushWrite, Device
    PROVE  Device'
<1>1. /\ UNCHANGED <<pipeline, side, nextP, nextF, nextB, todo, ran, cache, l1, buffer, idxq, perBatch>>
      /\ store' = [x \in Idx |-> IF x \in DOMAIN flushed THEN flushed[x] ELSE store[x]]
      /\ flushed' = Nothing /\ lastFlush' = step /\ host' = "flushed" /\ host = "flush" /\ Idle
  BY DEF FlushWrite, Synchronized
<1>2. UNCHANGED <<batch, loc, slot, out, fetch, conflict, spill, found, pad, ptr>>
  BY <1>1 DEF perBatch
<1>3. \A w \in Works, i \in Batches : Pending(w, i)' <=> Pending(w, i)
  BY FlushWriteOrder
<1>4. HostOK /\ Chains /\ StreamsOK
  BY OrderChains DEF Order
<1>5. Rests
  BY <1>1, <1>2, <1>3, <1>4, AllRest
<1>6. /\ IndexQueue' /\ Locks' /\ Times' /\ WayValues' /\ PadValues' /\ OldPads' /\ LeftValues' /\ Buffers'
  BY <1>4, <1>5, RestingDevice
<1>7. /\ \A x : Latest(x)' = Latest(x)
      /\ \A x : InStore(x)' <=> InStore(x)
  BY <1>4, <1>5, RestingRows DEF Device
<1>8. cache \in Caches /\ UniqueTags(cache) /\ Cached(cache) \subseteq Idx /\ store \in [Idx -> Int]
  <2>1. cache \in Caches /\ UniqueTags(cache) /\ store \in [Idx -> Int]
    BY DEF Device, Layout, Rows
  <2>. QED BY <2>1 DEF Caches, Cached
<1>9. /\ DOMAIN flushed \subseteq Idx /\ \A x \in DOMAIN flushed : flushed[x] \in Int
      /\ \A x \in DOMAIN flushed : FlushOf(x)
      /\ nextP = nextB => Cached(cache) \subseteq DOMAIN flushed
  <2>1. FlushReads
    BY <1>1, <1>4 DEF FlushReads, Idle, StreamsOK, Streams
  <2>. QED BY <2>1 DEF Device, Flushing
<1>10. Layout'
  <2>1. store' \in [Idx -> Int]
    BY <1>1, <1>8, <1>9
  <2>. QED BY <1>4, <1>5, <2>1, RestingLayout DEF Device
<1>11. \A i \in Batches : ~ Filling(i)
  BY <1>1, IdlePending, WorksAre DEF Filling, Turn
<1>12. \A x \in Cached(cache) : ~ InStore(x)
  <2> SUFFICES ASSUME NEW x \in Cached(cache) PROVE ~ InStore(x)
    OBVIOUS
  <2>1. PICK w \in Ways : cache.tag[w] = x
    BY DEF Cached
  <2>2. InWay(x, w)
    BY <1>11, <2>1 DEF InWay, BeingFilled
  <2>. QED BY <2>2 DEF InStore
<1>13. StoreValues'
  <2> SUFFICES ASSUME NEW x \in Idx, InStore(x) PROVE store'[x] = Latest(x)
    BY <1>7 DEF StoreValues
  <2>1. x \notin Cached(cache) /\ store[x] = Latest(x)
    BY <1>12 DEF Device, Values, StoreValues
  <2>. QED BY <1>1, <1>9, <2>1 DEF FlushOf
<1>14. Flushing'
  BY <1>1 DEF Flushing, FlushQueue, FlushReads, Nothing
<1>15. Flushed'
  <2>1. SUFFICES ASSUME ~ FlushMidStep PROVE nextF = nextB /\ (nextP = nextB => \A x \in Idx : store'[x] = Latest(x))
    BY <1>1, <1>7 DEF Flushed, step, Idle
  <2>2. nextF = nextB
    BY <1>1, <2>1 DEF Device, Flushed
  <2>3. ASSUME nextP = nextB, NEW x \in Idx, x \notin DOMAIN flushed PROVE InStore(x)
    <3>1. x \notin Cached(cache)
      BY <1>9, <2>3
    <3>2. \A w \in Ways : ~ InWay(x, w)
      BY <1>8, <3>1, LocationFacts DEF InWay
    <3>3. ASSUME NEW i \in Batches PROVE ~ InPad(x, i)
      <4>1. /\ Pending("populate", i) <=> i >= nextP
            /\ Pending("sp_evict", i) <=> i >= nextB
        BY <1>1, IdlePending, WorksAre DEF Turn
      <4>. QED BY <2>3, <4>1 DEF InPad
    <3>4. ASSUME NEW i \in Batches PROVE ~ Leaving(x, i)
      <4>1. /\ Pending("populate", i) <=> i >= nextP
            /\ Pending("evict", i) <=> i >= nextP
        BY <1>1, IdlePending, WorksAre DEF Turn
      <4>. QED BY <4>1 DEF Leaving, Device, Layout, Slots, SlotsOf
    <3>. QED BY <3>2, <3>3, <3>4 DEF InStore
  <2>4. ASSUME nextP = nextB, NEW x \in Idx PROVE store'[x] = Latest(x)
    <3>1. CASE x \in DOMAIN flushed
      <4>1. nextB \in Nat
        BY <1>4 DEF HostOK
      <4>2. flushed[x] = Latest(x)
        BY <1>9, <2>4, <3>1, <4>1 DEF FlushOf
      <4>. QED BY <1>1, <3>1, <4>2
    <3>2. CASE x \notin DOMAIN flushed
      BY <1>1, <2>3, <2>4, <3>2 DEF Device, Values, StoreValues
    <3>. QED BY <3>1, <3>2
  <2>. QED BY <2>2, <2>4
<1>. QED BY <1>6, <1>10, <1>13, <1>14, <1>15 DEF Device, Values

(* The host queues a flush, or finds that there is nothing to flush.        *)
LEMMA FlushDevice ==
    ASSUME Order, Flush, Device
    PROVE  Device'
<1>1. /\ UNCHANGED <<pipeline, side, nextP, nextF, nextB, lastFlush, device>>
      /\ \A w \in Works, i \in Batches : Pending(w, i)' <=> Pending(w, i)
  BY FlushOrder
<1>2. UNCHANGED <<cache, l1, buffer, store, idxq, flushed, batch, loc, slot, out, fetch, conflict, spill, found, pad, ptr>>
  BY <1>1 DEF device, perBatch
<1>3. HostOK /\ Chains /\ StreamsOK
  BY OrderChains DEF Order
<1>4. Rests
  BY <1>1, <1>2, <1>3, AllRest
<1>5. Layout' /\ IndexQueue' /\ Locks' /\ Times' /\ Values'
  BY <1>2, <1>3, <1>4, RestingDevice DEF Values
<1>6. \A x : Latest(x)' = Latest(x)
  BY <1>3, <1>4, RestingRows DEF Device
<1>7. \/ host' = "flushed" /\ step = lastFlush /\ UNCHANGED <<todo, ran>>
      \/ host' = "flush" /\ todo' = [todo EXCEPT !["main"] = Append(@, Work("flush", 0, 0, {}))] /\ UNCHANGED ran
  BY DEF Flush
<1>8. \/ nextF = nextB /\ (nextB = 1 => nextP = 1)
      \/ FlushMidStep /\ nextF = nextB + 1
  BY DEF Flush, EndOfStep
<1>9. host' = "flush" => todo'["main"] # <<>> /\ Piece("main", End("main"))'.work = "flush"
  <2>1. SUFFICES ASSUME host' = "flush" PROVE todo'["main"] # <<>> /\ Piece("main", End("main"))'.work = "flush"
    OBVIOUS
  <2>2. PICK t \in Seq(Pieces) : t = todo["main"]
    BY <1>3 DEF StreamsOK, Streams
  <2>3. todo'["main"] = Append(t, Work("flush", 0, 0, {})) /\ ran'["main"] = ran["main"] /\ ran["main"] \in Nat
    BY <1>3, <1>7, <2>1, <2>2 DEF StreamsOK, Streams
  <2>4. Len(t) \in Nat /\ Len(todo'["main"]) = Len(t) + 1 /\ todo'["main"][Len(t) + 1] = Work("flush", 0, 0, {})
    BY <2>2, <2>3
  <2>5. todo'["main"] # <<>>
    BY <2>2, <2>3
  <2>6. Piece("main", End("main"))' = todo'["main"][(ran'["main"] + Len(todo'["main"])) - ran'["main"]]
    BY DEF Piece, End
  <2>7. (ran'["main"] + Len(todo'["main"])) - ran'["main"] = Len(t) + 1
    BY <2>3, <2>4
  <2>. QED BY <2>4, <2>5, <2>6, <2>7 DEF Work
<1>10. Flushing'
  <2>1. nextF = 1 => nextP = 1
    BY <1>3, <1>8 DEF HostOK
  <2>. QED BY <1>1, <1>2, <1>9, <2>1 DEF Flushing, FlushQueue, FlushReads, Device
<1>11. Flushed'
  <2>1. SUFFICES ASSUME ~ FlushMidStep
                 PROVE  /\ nextF = nextB
                        /\ host' = "flushed" => lastFlush = step
                        /\ lastFlush = step /\ nextP = nextB => Idle' /\ \A x \in Idx : store[x] = Latest(x)
    BY <1>1, <1>2, <1>6 DEF Flushed, step
  <2>2. host' = "flushed" => lastFlush = step
    BY <1>7
  <2>3. lastFlush = step => UNCHANGED todo
    BY DEF Flush
  <2>. QED BY <1>8, <2>1, <2>2, <2>3 DEF Flushed, Device, Idle
<1>. QED BY <1>5, <1>10, <1>11 DEF Device

(* The host prefetches a batch. *)
LEMMA PrefetchDevice ==
    ASSUME Order, NEW B \in SUBSET Idx, Prefetch(B), Device
    PROVE  Device'
<1>1. PICK now : now = nextP
  OBVIOUS
<1>2. /\ now \in Batches /\ nextP' = now + 1 /\ batch' = [batch EXCEPT ![now] = B] /\ now < nextB + Gap
      /\ \A w \in Works, i \in Batches :
             Pending(w, i)' <=> Pending(w, i) /\ ~ (i = now /\ w \in PrefetchWorks /\ ~ Exists(w, i)')
  BY <1>1, PrefetchOrder
<1>3. /\ UNCHANGED <<pipeline, side, nextF, nextB, lastFlush, cache, l1, buffer, store, idxq, flushed, loc, slot, out,
                     fetch, conflict, spill, found, pad, ptr>> /\ host' = "train"
  BY Zenon DEF Prefetch
<1>4. HostOK /\ Chains /\ Batches \subseteq Nat \ {0}
  BY OrderChains DEF Order, Batches
<1>5. batch \in [Batches -> SUBSET Idx] /\ batch[now] = {}
  <2>1. now \in Nat /\ nextP \in Nat /\ now >= nextP
    BY <1>1, <1>4 DEF HostOK
  <2>. QED BY <1>2, <1>4, <2>1 DEF HostOK
<1>6. Pending("populate", now)
  <2>1. now \in Nat /\ now >= nextP
    BY <1>1, <1>4 DEF HostOK
  <2>. QED BY <2>1 DEF Pending, Turn
<1>7. Rests
  <2>1. \A w \in InStep : Same(w)
    <3>1. ASSUME NEW w \in InStep, NEW i \in Batches PROVE w \in Works /\ Exists(w, i)'
      BY WorksAre DEF Exists, InStep
    <3>. QED BY <1>2, <3>1 DEF Same
  <2>2. ASSUME pipeline PROVE Same("enqueue") /\ Same("unlock")
    <3>1. \A i \in Batches : Exists("enqueue", i)' /\ Exists("unlock", i)'
      BY <1>3, <2>2 DEF Exists
    <3>. QED BY <1>2, <3>1, WorksAre DEF Same
  <2>3. ASSUME pipeline, NEW j \in Batches, j > 1 PROVE Pending("lookup", j)' <=> Pending("lookup", j)
    <3>1. Exists("lookup", j)'
      BY <1>3, <2>3 DEF Exists
    <3>. QED BY <1>2, <3>1, WorksAre
  <2>4. ASSUME NEW j \in Batches PROVE Pending("populate", j) \/ (Pending("evict", j)' <=> Pending("evict", j))
    BY <1>2, <1>6, WorksAre
  <2>5. ASSUME NEW j \in Batches PROVE batch[j] = {} \/ (Pending("sp_evict", j)' <=> Pending("sp_evict", j))
    BY <1>2, <1>5, WorksAre
  <2>6. ASSUME NEW j \in Batches PROVE batch'[j] = batch[j] \/ (batch[j] = {} /\ Pending("populate", j))
    BY <1>2, <1>5, <1>6
  <2>7. \A j \in Batches : batch'[j] \in SUBSET Idx
    BY <1>2, <1>5
  <2>. QED BY <1>3, <2>1, <2>2, <2>3, <2>4, <2>5, <2>6, <2>7 DEF Rests
<1>8. Layout' /\ IndexQueue' /\ Locks' /\ Times' /\ Values'
  BY <1>3, <1>4, <1>7, RestingDevice DEF Values
<1>9. \A x : Latest(x)' = Latest(x)
  BY <1>4, <1>7, RestingRows DEF Device
<1>10. Flushing'
  BY <1>3 DEF Flushing, FlushQueue, FlushReads, Device
<1>11. Flushed'
  <2>1. nextP' # nextB
    <3>1. nextP' = nextP + 1 /\ nextP \in Nat /\ nextB \in Nat /\ nextB <= nextP
      BY <1>1, <1>2, <1>4 DEF HostOK
    <3>. QED BY <3>1
  <2>2. ~ FlushMidStep => (lastFlush = step => nextF = nextB)
    BY DEF Device, Flushed
  <2>. QED BY <1>3, <2>1, <2>2 DEF Flushed, step
<1>. QED BY <1>8, <1>10, <1>11 DEF Device

(* The host runs a batch forward. *)
LEMMA ForwardDevice_Host ==
    ASSUME Order, Forward, Device
    PROVE  Device'
<1>1. /\ UNCHANGED <<pipeline, side, nextP, nextB, lastFlush, device>> /\ host' = "train" /\ nextF' = nextF + 1
  BY DEF Forward
<1>2. UNCHANGED <<cache, l1, buffer, store, idxq, flushed, batch, loc, slot, out, fetch, conflict, spill, found, pad, ptr>>
  BY <1>1 DEF device, perBatch
<1>3. HostOK /\ Chains
  BY OrderChains DEF Order
<1>4. \A w \in Works, i \in Batches : Pending(w, i)' <=> Pending(w, i)
  BY ForwardOrder
<1>5. Rests
  BY <1>1, <1>2, <1>3, <1>4, AllRest
<1>6. Layout' /\ IndexQueue' /\ Locks' /\ Times' /\ Values'
  BY <1>2, <1>3, <1>5, RestingDevice DEF Values
<1>7. Flushing'
  BY <1>1, <1>2 DEF Flushing, FlushQueue, FlushReads, Device
<1>8. Flushed'
  <2>1. step' = nextF /\ lastFlush' # nextF
    <3>1. nextF \in Nat /\ lastFlush \in Int /\ lastFlush < nextF
      BY <1>3 DEF HostOK
    <3>. QED BY <1>1, <3>1 DEF step
  <2>. QED BY <1>1, <2>1 DEF Flushed
<1>. QED BY <1>6, <1>7, <1>8 DEF Device

(* The host runs a batch backward. *)
LEMMA BackwardDevice_Host ==
    ASSUME Order, Backward, Device
    PROVE  Device'
<1>1. PICK now : now = nextB
  OBVIOUS
<1>2. /\ now \in Batches
      /\ UNCHANGED <<pipeline, side, nextP, nextF, device>>
      /\ \A w \in Works, i \in Batches :
             Pending(w, i)' <=> Pending(w, i) /\ ~ (i = now /\ w \in TrainingWorks /\ ~ Exists(w, i))
  BY <1>1, BackwardOrder
<1>3. UNCHANGED <<cache, l1, buffer, store, idxq, flushed, batch, loc, slot, out, fetch, conflict, spill, found, pad, ptr>>
  BY <1>2 DEF device, perBatch
<1>4. HostOK /\ Chains
  BY OrderChains DEF Order
<1>5. /\ nextB < nextF /\ host' = "train" /\ UNCHANGED lastFlush
  BY DEF Backward
<1>6. Rests
  <2>1. \A w \in InStep : Same(w)
    <3>1. ASSUME NEW w \in InStep, NEW i \in Batches PROVE w \in Works /\ (w \in TrainingWorks => Exists(w, i))
      BY WorksAre DEF Exists, InStep, TrainingWorks
    <3>. QED BY <1>2, <3>1 DEF Same
  <2>2. ASSUME pipeline PROVE Same("enqueue") /\ Same("unlock")
    <3>1. \A i \in Batches : Exists("unlock", i)
      BY <2>2 DEF Exists
    <3>2. "enqueue" \notin TrainingWorks
      BY DEF TrainingWorks
    <3>. QED BY <1>2, <3>1, <3>2, WorksAre DEF Same
  <2>3. ASSUME NEW j \in Batches
        PROVE  /\ Pending("lookup", j)' <=> Pending("lookup", j)
               /\ Pending("evict", j)' <=> Pending("evict", j)
    BY <1>2, WorksAre DEF TrainingWorks
  <2>5. ASSUME NEW j \in Batches PROVE batch[j] = {} \/ (Pending("sp_evict", j)' <=> Pending("sp_evict", j))
    <3>1. batch[j] = {} \/ Exists("sp_evict", j)
      BY DEF Exists
    <3>. QED BY <1>2, <3>1, WorksAre
  <2>6. \A j \in Batches : batch'[j] = batch[j] /\ batch'[j] \in SUBSET Idx
    BY <1>3, <1>4 DEF HostOK
  <2>. QED BY <1>2, <1>3, <2>1, <2>2, <2>3, <2>5, <2>6 DEF Rests
<1>7. Layout' /\ IndexQueue' /\ Locks' /\ Times' /\ Values'
  BY <1>3, <1>4, <1>6, RestingDevice DEF Values
<1>8. Flushing'
  BY <1>3, <1>5 DEF Flushing, FlushQueue, FlushReads, Device
<1>9. Flushed'
  <2>1. ~ FlushMidStep => lastFlush # step
    <3>1. nextF \in Nat /\ nextB \in Nat
      BY <1>4 DEF HostOK
    <3>. QED BY <1>5, <3>1 DEF Flushed, Device
  <2>. QED BY <1>2, <1>5, <2>1 DEF Flushed, step
<1>. QED BY <1>7, <1>8, <1>9 DEF Device

(* At first nothing is prefetched. *)
LEMMA InitDevice ==
    ASSUME Init
    PROVE  Device
<1>1. /\ Order /\ \A w \in Works, i \in Batches : Pending(w, i)
  BY InitOrder
<1>2. HostOK /\ Chains /\ Batches \subseteq Nat \ {0}
  BY <1>1, OrderChains DEF Order, Batches
<1>3. /\ cache = EmptyCache /\ l1 = [w \in Ways |-> Garbage] /\ nextP = 1 /\ nextF = 1 /\ nextB = 1
      /\ buffer = [b \in 0..1 |-> Nothing] /\ store = [x \in Idx |-> 0] /\ lastFlush = -1
      /\ idxq = <<>> /\ flushed = Nothing /\ host = "train"
      /\ batch = [i \in Batches |-> {}] /\ loc = [i \in Batches |-> Nothing]
      /\ slot = [i \in Batches |-> Nothing] /\ out = [i \in Batches |-> Nothing]
      /\ fetch = [i \in Batches |-> {}] /\ conflict = [i \in Batches |-> {}]
      /\ spill = [i \in Batches |-> {}] /\ found = [i \in Batches |-> {}]
      /\ pad = [i \in Batches |-> [x \in Idx |-> Garbage]]
      /\ ptr = [i \in Batches |-> Nothing]
  BY DEF Init
<1>4. \A i \in Batches : /\ Pending("populate", i) /\ Pending("fill", i) /\ Pending("spill", i)
                         /\ Pending("compact", i) /\ Pending("lookup", i) /\ Pending("enqueue", i)
                         /\ Pending("backward", i) /\ Pending("select", i)
  BY <1>1, WorksAre
<1>5. /\ \A w \in Ways : cache.tag[w] = NoIdx /\ cache.time[w] = 0 /\ cache.lock[w] = 0
      /\ cache \in Caches /\ Cached(cache) = {}
  BY <1>3 DEF EmptyCache, Caches, Cached
<1>6. DOMAIN Nothing = {}
  BY DEF Nothing
<1>7. Arrays
  BY <1>3 DEF Arrays
<1>8. Rows
  BY <1>3, <1>5 DEF Rows, UniqueTags, Garbage
<1>9. ASSUME NEW i \in Batches
      PROVE  /\ SlotsOf(i) /\ RecordsOf(i) /\ FillingOf(i) /\ LocatedOf(i) /\ ConflictOf(i) /\ PointersOf(i)
             /\ BufferOf(i) /\ ~ InQueue(i)
  <2>1. DOMAIN slot[i] = {} /\ DOMAIN out[i] = {} /\ found[i] = {} /\ conflict[i] = {} /\ DOMAIN loc[i] = {}
        /\ DOMAIN ptr[i] = {} /\ batch[i] = {}
    BY <1>3, <1>6
  <2>2. i + 1 \in Batches => DOMAIN out[i + 1] = {}
    BY <1>3, <1>6
  <2>3. SlotsOf(i)
    BY <1>5, <2>1, <2>2 DEF SlotsOf
  <2>4. ~ Live(i) /\ ~ Filling(i)
    BY <1>4 DEF Live, Filling
  <2>5. RecordsOf(i)
    BY <2>1, <2>4 DEF RecordsOf
  <2>6. FillingOf(i) /\ LocatedOf(i) /\ PointersOf(i)
    BY <2>4 DEF FillingOf, LocatedOf, PointersOf
  <2>7. ConflictOf(i)
    BY <1>4, <2>4 DEF ConflictOf
  <2>8. BufferOf(i) /\ ~ InQueue(i)
    BY <1>4 DEF BufferOf, InQueue
  <2>. QED BY <2>3, <2>5, <2>6, <2>7, <2>8
<1>10. Layout
  BY <1>7, <1>8, <1>9 DEF Layout, Slots, Records, Fillings, Located, Conflicts, Pointers
<1>11. IndexQueue
  BY <1>3, <1>9 DEF IndexQueue
<1>12. Locks
  <2>1. \A w \in Ways : Users(w) = {}
    BY <1>3, <1>6 DEF Users
  <2>. QED BY <1>5, <2>1, FS_EmptySet DEF Locks
<1>13. Times
  BY <1>2, <1>5 DEF Times
<1>14. \A x : Latest(x) = 0
  <2>1. \A x : {i \in Batches : IsTrained(i) /\ x \in batch[i]} = {}
    BY <1>4 DEF IsTrained
  <2>. QED BY <2>1, FS_EmptySet DEF Latest
<1>15. WayValues
  <2>1. \A x \in Idx, w \in Ways : ~ InWay(x, w)
    BY <1>5, SSDConstants DEF InWay
  <2>. QED BY <2>1 DEF WayValues
<1>16. PadValues /\ OldPads /\ LeftValues
  <2>1. \A i \in Batches : \A x : ~ InPad(x, i) /\ ~ Leaving(x, i) /\ ~ Live(i)
    BY <1>3, <1>4, <1>6 DEF InPad, Leaving, Live
  <2>. QED BY <2>1 DEF PadValues, OldPads, LeftValues
<1>17. StoreValues
  BY <1>3, <1>14 DEF StoreValues
<1>18. Flushing
  BY <1>3, <1>6 DEF Flushing, FlushQueue, FlushReads
<1>19. Flushed
  BY <1>3 DEF Flushed, step
<1>. QED BY <1>9, <1>10, <1>11, <1>12, <1>13, <1>15, <1>16, <1>17, <1>18, <1>19 DEF Device, Values, Buffers

-----------------------------------------------------------------------------
(* Every step.                                                             *)
LEMMA Stays ==
    ASSUME Order, Device, UNCHANGED vars
    PROVE  Order' /\ Device'
<1>1. UNCHANGED <<pipeline, side, nextP, nextF, nextB, lastFlush, host, pads, moves, gate, ready, event, todo, ran>>
  BY DEF vars, trainer, streams
<1>2. UNCHANGED <<cache, l1, buffer, store, idxq, flushed, batch, loc, slot, out, fetch, conflict, spill, found, pad, ptr>>
  BY DEF vars, device, perBatch
<1>3. HostOK /\ Chains /\ StreamsOK
  BY OrderChains DEF Order
<1>4. /\ AllOrdered'
      /\ \A w, i : Pending(w, i)' <=> Pending(w, i)
  BY <1>1, <1>2, KeepsOrdered DEF Order
<1>5. /\ \A t : Queue(t)' = Queue(t) /\ End(t)' = End(t)
      /\ \A t, q : Piece(t, q)' = Piece(t, q)
      /\ \A w : On(w)' = On(w) /\ Turn(w)' = Turn(w)
      /\ \A w, i : Exists(w, i)' <=> Exists(w, i)
  BY <1>1, <1>2 DEF Queue, Piece, End, On, Turn, Exists
<1>6. \A t, q, w, i : Is(t, q, w, i)' <=> Is(t, q, w, i)
  BY <1>5 DEF Is
<1>7. StreamsOK' /\ HostOK'
  BY <1>1, <1>2, <1>3 DEF StreamsOK, HostOK, Gap
<1>8. Contents'
  <2>1. \A s, p : ContentOf(s, p)' <=> ContentOf(s, p)
    BY <1>1, <1>5 DEF ContentOf
  <2>. QED BY <1>5, <2>1 DEF Contents, Order
<1>9. Unique'
  <2> SUFFICES ASSUME NEW w \in Works, NEW i \in Batches, NEW q \in Queue(On(w))', NEW r \in Queue(On(w))',
                      Is(On(w), q, w, i)', Is(On(w), r, w, i)'
               PROVE  q = r
    BY DEF Unique
  <2>1. PICK t : t = On(w) /\ t = On(w)'
    BY <1>5
  <2>2. q \in Queue(t) /\ r \in Queue(t) /\ Is(t, q, w, i) /\ Is(t, r, w, i)
    BY <1>5, <1>6, <2>1
  <2>. QED BY Zenon, <2>1, <2>2 DEF Unique, Order
<1>10. FlushLast' /\ UnlockBefore'
  BY <1>1, <1>5, <1>6 DEF FlushLast, UnlockBefore, Order
<1>11. Waits'
  <2>1. \A p, s, q : Covers(p, s, q)' <=> Covers(p, s, q)
    BY DEF Covers
  <2>2. \A i : EvictEvent(i)' = EvictEvent(i)
    BY DEF EvictEvent
  <2>. QED BY <1>1, <1>5, <2>1, <2>2 DEF Waits, Order
<1>12. Order'
  BY <1>4, <1>7, <1>8, <1>9, <1>10, <1>11 DEF Order
<1>13. Rests
  BY <1>1, <1>2, <1>3, <1>4, AllRest
<1>14. Layout' /\ IndexQueue' /\ Locks' /\ Times' /\ Values'
  BY <1>2, <1>3, <1>13, RestingDevice DEF Values
<1>15. \A x : Latest(x)' = Latest(x)
  BY <1>3, <1>13, RestingRows DEF Device
<1>16. Flushing'
  <2>1. \A x : FlushOf(x)' <=> FlushOf(x)
    BY <1>1, <1>2, <1>15 DEF FlushOf
  <2>. QED BY <1>1, <1>2, <1>5, <2>1 DEF Flushing, FlushQueue, FlushReads, Device
<1>17. Flushed'
  BY <1>1, <1>2, <1>15 DEF Flushed, step, Idle, Device
<1>. QED BY <1>12, <1>14, <1>16, <1>17 DEF Device

LEMMA Advances ==
    ASSUME Order, Device, NEW s \in Streams, NEW w \in Works, Runs(s, w), Done(s), UNCHANGED batch,
           NEW i, i = Head(todo[s]).i
    PROVE  /\ Order' /\ Steps(w, i)
           /\ w = "lookup" => Head(todo[s]).k = i - 1
           /\ w = "unlock" => Head(todo[s]).k = IF i = MaxBatches THEN 0 ELSE i + 1
<1>1. Ready(s)
  BY DEF Runs, Ready
<1>2. Order'
  BY <1>1, DoneOrder
<1>3. Steps(w, i) /\ ContentOf(s, Head(todo[s])) /\ Head(todo[s]).work = w
  BY <1>2, Running DEF Device
<1>4. PICK p : p = Head(todo[s])
  OBVIOUS
<1>5. w # "flush"
  BY WorkFacts DEF Order
<1>. QED BY <1>2, <1>3, <1>4, <1>5 DEF ContentOf

LEMMA OneStep ==
    ASSUME Order, Device, [Next]_vars
    PROVE  Order' /\ Device'
<1>0. side \in Streams /\ "main" \in Streams /\ "copy" \in Streams /\ "evict" \in Streams
  BY DEF Streams, Order, HostOK
<1>1. CASE \E B \in SUBSET Idx : Prefetch(B)
  BY <1>1, PrefetchOrder, PrefetchDevice
<1>2. CASE Forward
  BY <1>2, ForwardOrder, ForwardDevice_Host
<1>3. CASE Backward
  BY <1>3, BackwardOrder, BackwardDevice_Host
<1>4. CASE Flush
  BY <1>4, FlushOrder, FlushDevice
<1>5. CASE FlushWrite
  BY <1>5, FlushWriteOrder, FlushWriteDevice
<1>6. CASE Populate
  <2>1. Runs(side, "populate") /\ Done(side) /\ UNCHANGED batch
    BY Zenon, <1>6 DEF Populate
  <2>. QED BY <1>0, <1>6, <2>1, WorksAre, Advances, PopulateDevice
<1>7. CASE Compact
  <2>1. Runs(side, "compact") /\ Done(side) /\ UNCHANGED batch
    BY <1>7 DEF Compact, perBatch
  <2>. QED BY <1>0, <1>7, <2>1, WorksAre, Advances, CompactDevice
<1>8. CASE Select
  <2>1. Runs(side, "select") /\ Done(side) /\ UNCHANGED batch
    BY Zenon, <1>8 DEF Select, perBatch
  <2>. QED BY <1>0, <1>8, <2>1, WorksAre, Advances, SelectDevice
<1>9. CASE Copy
  <2>1. Runs("copy", "copy") /\ Done("copy") /\ UNCHANGED batch
    BY <1>9 DEF Copy
  <2>. QED BY <1>0, <1>9, <2>1, WorksAre, Advances, CopyDevice
<1>10. CASE LookupPad
  <2>1. Runs(side, "lookup") /\ Done(side) /\ UNCHANGED batch
    BY Zenon, <1>10 DEF LookupPad
  <2>. QED BY <1>0, <1>10, <2>1, WorksAre, Advances, LookupDevice
<1>11. CASE Get
  <2>1. Runs(side, "get") /\ Done(side) /\ UNCHANGED batch
    BY <1>11 DEF Get
  <2>. QED BY <1>0, <1>11, <2>1, WorksAre, Advances, GetDevice
<1>12. CASE Fill
  <2>1. Runs(side, "fill") /\ Done(side) /\ UNCHANGED batch
    BY Zenon, <1>12 DEF Fill
  <2>. QED BY <1>0, <1>12, <2>1, WorksAre, Advances, FillDevice
<1>13. CASE Evict
  <2>1. Runs("evict", "evict") /\ Done("evict") /\ UNCHANGED batch
    BY <1>13 DEF Evict, perBatch
  <2>. QED BY <1>0, <1>13, <2>1, WorksAre, Advances, EvictDevice
<1>14. CASE Spill
  <2>1. Runs("evict", "spill") /\ Done("evict") /\ UNCHANGED batch
    BY <1>14 DEF Spill
  <2>. QED BY <1>0, <1>14, <2>1, WorksAre, Advances, SpillDevice
<1>15. CASE Enqueue
  <2>1. Runs("evict", "enqueue") /\ Done("evict") /\ UNCHANGED batch
    BY <1>15 DEF Enqueue, perBatch
  <2>. QED BY <1>0, <1>15, <2>1, WorksAre, Advances, EnqueueDevice
<1>16. CASE EvictPad
  <2>1. Runs("evict", "sp_evict") /\ Done("evict") /\ UNCHANGED batch
    BY <1>16 DEF EvictPad, perBatch
  <2>. QED BY <1>0, <1>16, <2>1, WorksAre, Advances, EvictPadDevice
<1>17. CASE ForwardRun
  <2>1. Runs("main", "forward") /\ Done("main") /\ UNCHANGED batch
    BY <1>17 DEF ForwardRun, device, perBatch
  <2>. QED BY <1>0, <1>17, <2>1, WorksAre, Advances, ForwardDevice
<1>18. CASE UpdatePointers
  <2>1. Runs("main", "unlock") /\ Done("main") /\ UNCHANGED batch
    BY Zenon, <1>18 DEF UpdatePointers
  <2>. QED BY <1>0, <1>18, <2>1, WorksAre, Advances, UnlockDevice
<1>19. CASE BackwardRun
  <2>1. Runs("main", "backward") /\ Done("main") /\ UNCHANGED batch
    BY <1>19 DEF BackwardRun
  <2>. QED BY <1>0, <1>19, <2>1, WorksAre, Advances, BackwardDevice
<1>20. CASE FlushRead
  <2>1. Runs("main", "flush") /\ Done("main") /\ UNCHANGED batch
    BY <1>20 DEF FlushRead, perBatch
  <2>2. Order'
    BY <1>0, <2>1, DoneOrder DEF Runs, Ready
  <2>. QED BY <1>20, <2>2, FlushReadDevice
<1>21. CASE UNCHANGED vars
  BY <1>21, Stays
<1>22. CASE Stopped
  BY <1>22, Stays DEF Stopped
<1>. QED BY <1>1, <1>2, <1>3, <1>4, <1>5, <1>6, <1>7, <1>8, <1>9, <1>10, <1>11, <1>12, <1>13, <1>14, <1>15,
            <1>16, <1>17, <1>18, <1>19, <1>20, <1>21, <1>22 DEF Next

(* The work on the four streams keeps to the order the events impose, and   *)
(* every row's latest value is where the tags, the pads, the buffers and    *)
(* the queue of pads say it is.                                             *)
THEOREM Invariance == Spec => [](Order /\ Device)
<1>1. Init => Order /\ Device
  BY InitOrder, InitDevice
<1>2. Order /\ Device /\ [Next]_vars => (Order /\ Device)'
  BY OneStep
<1>. QED BY <1>1, <1>2, PTL DEF Spec

-----------------------------------------------------------------------------
(* The properties.                                                         *)
LEMMA TrainedIsLatest ==
    ASSUME NEW i \in Nat, 1 <= i, i <= MaxBatches + 1, \A j \in Batches : IsTrained(j) <=> j < i, NEW x
    PROVE  Trained(x, i) = Latest(x)
<1>1. 1..(i - 1) = {j \in Batches : j < i}
  BY SSDConstants DEF Batches
<1>2. {j \in 1..(i - 1) : x \in batch[j]} = {j \in Batches : IsTrained(j) /\ x \in batch[j]}
  BY <1>1
<1>. QED BY <1>2 DEF Trained, Latest

\* What runs on main reads rows of a batch that is filled and not trained.
LEMMA AboutToTrain ==
    ASSUME Order, NEW w \in {"forward", "backward"}, Runs("main", w), NEW i, i = Head(todo["main"]).i
    PROVE  /\ i \in Batches /\ Live(i) /\ ~ Pending("fill", i)
           /\ \A j \in Batches : IsTrained(j) <=> j < i
<1>1. "main" \in Streams /\ Ready("main") /\ HostOK /\ w \in Works /\ w # "flush"
  BY WorksAre DEF Streams, Runs, Ready, Order
<1>2. PICK p : p = Head(todo["main"]) /\ p.work = w /\ p.i = i
  BY DEF Runs
<1>3. i \in Batches /\ Pending(w, i) /\ \A v \in Works, j \in Batches : First(v, j, w, i) => ~ Pending(v, j)
  BY <1>1, <1>2, HeadFacts
<1>4. Chains /\ Batches \subseteq Nat \ {0}
  BY OrderChains DEF Batches
<1>5. Pending("backward", i)
  <2>1. w = "forward" \/ w = "backward"
    OBVIOUS
  <2>. QED BY <1>3, <1>4, <2>1 DEF Chains, ChainOf
<1>6. ~ Pending("forward", i) \/ w = "forward"
  <2>1. CASE w = "backward"
    <3>1. First("forward", i, "backward", i)
      BY DEF First, InTurn, MainWorks, SideWorks, EvictWorks, Rank
    <3>. QED BY <1>3, <2>1, <3>1, WorksAre
  <2>. QED BY <2>1
<1>7. ~ Pending("fill", i)
  <2>1. CASE w = "forward"
    <3>1. First("fill", i, "forward", i)
      BY DEF First
    <3>. QED BY <1>3, <2>1, <3>1, WorksAre
  <2>2. CASE w = "backward"
    <3>1. ~ Pending("forward", i)
      BY <1>6, <2>2
    <3>. QED BY <1>3, <1>4, <3>1 DEF Chains, ChainOf
  <2>. QED BY <2>1, <2>2
<1>8. Live(i)
  <2>1. ~ Pending("populate", i)
    BY <1>3, <1>4, <1>7 DEF Chains, ChainOf
  <2>. QED BY <1>5, <2>1 DEF Live
<1>9. ASSUME NEW j \in Batches, j < i PROVE ~ Pending("backward", j)
  <2>1. First("backward", j, w, i)
    BY <1>9 DEF First, InTurn, MainWorks
  <2>. QED BY <1>3, <2>1, WorksAre
<1>10. ASSUME NEW j \in Batches, i < j PROVE Pending("backward", j)
  BY <1>3, <1>4, <1>5, <1>10 DEF Chains, ApartOf, InStep
<1>11. ASSUME NEW j \in Batches PROVE IsTrained(j) <=> j < i
  <2>1. i \in Nat /\ j \in Nat
    BY <1>3, <1>4
  <2>2. j < i \/ j = i \/ i < j
    BY <2>1
  <2>3. ~ (j < i /\ j = i) /\ ~ (j < i /\ i < j)
    BY <2>1
  <2>. QED BY <1>5, <1>9, <1>10, <2>2, <2>3 DEF IsTrained
<1>. QED BY <1>3, <1>7, <1>8, <1>11

\* A way that holds a row of a batch filled and not trained is not filled.
LEMMA WayIsFilled ==
    ASSUME Chains, HostOK, Layout, NEW i \in Batches, Live(i), ~ Pending("fill", i), NEW x \in batch[i],
           loc[i][x] # NoWay
    PROVE  loc[i][x] \in Ways /\ InWay(x, loc[i][x])
<1>0. Batches \subseteq Nat \ {0} /\ pipeline \in BOOLEAN
  BY DEF Batches, HostOK
<1>1. PICK v : v = loc[i][x]
  OBVIOUS
<1>2. v \in Ways /\ cache.tag[v] = x
  BY <1>1 DEF Layout, Records, RecordsOf, Located, LocatedOf
<1>3. ASSUME BeingFilled(v) PROVE FALSE
  <2>1. PICK j \in Batches : Filling(j) /\ \E y \in DOMAIN slot[j] : slot[j][y] = v
    BY <1>3 DEF BeingFilled
  <2>2. PICK y \in DOMAIN slot[j] : slot[j][y] = v
    BY <2>1
  <2>3. x \in DOMAIN slot[j]
    BY <1>2, <2>1, <2>2 DEF Layout, Fillings, FillingOf
  <2>4. Pending("fill", j) /\ ~ Pending("populate", j) /\ ~ Pending("populate", i) /\ Pending("backward", i)
    BY <2>1 DEF Filling, Live
  <2>5. ~ (j < i) /\ j # i
    BY <2>4 DEF Chains, ApartOf
  <2>6. i \in Nat /\ j \in Nat
    BY <1>0
  <2>7. i < j
    BY <2>5, <2>6
  <2>8. ~ (i + Gap <= j)
    BY <2>4, <2>7 DEF Chains, ApartOf
  <2>9. pipeline /\ j = i + 1
    BY <1>0, <2>6, <2>7, <2>8 DEF Gap
  <2>10. ~ Unlocked(i)
    BY <2>4, <2>7, <2>9 DEF Chains, ApartOf, Unlocked
  <2>11. x \in DOMAIN slot[i + 1] /\ i + 1 \in Batches
    BY <2>3, <2>9
  <2>. QED BY <2>10, <2>11 DEF Layout, Located, LocatedOf
<1>. QED BY <1>1, <1>2, <1>3 DEF InWay

\* A row without a way is in the pad of its batch, or in the next one's.
LEMMA PadIsLatest ==
    ASSUME Chains, HostOK, Layout, Values, NEW i \in Batches, Live(i), ~ Pending("fill", i), NEW x \in batch[i],
           loc[i][x] = NoWay
    PROVE  pad[IF Unlocked(i) /\ x \in TakenOver(i) THEN i + 1 ELSE i][x] = Latest(x)
<1>0. Batches \subseteq Nat \ {0} /\ pipeline \in BOOLEAN /\ x \in Idx /\ NoWay \notin Ways
  BY SSDConstants DEF Batches, HostOK, NoWay
<1>1. x \in conflict[i] /\ Missed(i) = conflict[i]
  BY DEF Layout, Conflicts, ConflictOf, Missed
<1>2. Pending("backward", i) /\ Pending("sp_evict", i) /\ ~ Pending("get", i) /\ ~ Pending("populate", i)
  <2>1. Pending("backward", i) /\ ~ Pending("populate", i)
    BY DEF Live
  <2>. QED BY <2>1 DEF Chains, ChainOf
<1>3. CASE x \notin TakenOver(i)
  <2>1. InPad(x, i)
    BY <1>1, <1>2, <1>3 DEF InPad
  <2>. QED BY <1>0, <1>3, <2>1 DEF Values, PadValues
<1>4. CASE x \in TakenOver(i) /\ ~ Unlocked(i)
  BY <1>0, <1>1, <1>4 DEF Values, OldPads
<1>5. CASE x \in TakenOver(i) /\ Unlocked(i)
  <2>1. PICK h \in Batches : h = i + 1 /\ x \in found[h]
    BY <1>5 DEF TakenOver
  <2>2. i < h /\ i \in Nat /\ h > 1
    <3>1. i \in Nat \ {0}
      BY <1>0
    <3>. QED BY <2>1, <3>1
  <2>3. pipeline /\ ~ Pending("lookup", h)
    BY <2>1 DEF Layout, Records, RecordsOf
  <2>4. ~ Pending("fill", h)
    BY <1>5, <2>1, <2>2, <2>3 DEF Chains, ApartOf, Unlocked
  <2>5. Pending("backward", h)
    BY <1>2, <2>2 DEF Chains, ApartOf, InStep
  <2>6. ~ Pending("get", h) /\ ~ Pending("populate", h)
    BY <2>4 DEF Chains, ChainOf
  <2>7. Live(h) /\ Missed(h) = conflict[h]
    BY <2>4, <2>5, <2>6 DEF Live, Missed
  <2>8. x \in batch[h]
    BY <1>1, <2>1, <2>3 DEF Layout, Conflicts, ConflictOf
  <2>9. Pending("sp_evict", h)
    BY <2>5, <2>8 DEF Chains, ChainOf
  <2>10. TakenOver(h) = {}
    <3>1. ASSUME NEW g \in Batches, g = h + 1 PROVE found[g] = {}
      <4>1. g = i + 2
        BY <2>1, <2>2, <3>1
      <4>2. i + Gap <= g /\ i < g
        BY <2>2, <2>3, <4>1 DEF Gap
      <4>3. Pending("populate", g)
        BY <1>2, <4>2 DEF Chains, ApartOf
      <4>. QED BY <4>3, NothingYet
    <3>. QED BY <3>1 DEF TakenOver
  <2>11. x \notin Cached(cache)
    BY <1>5 DEF Layout, Located, LocatedOf
  <2>12. loc[h][x] = NoWay
    <3>1. SUFFICES ASSUME loc[h][x] # NoWay PROVE FALSE
      OBVIOUS
    <3>2. loc[h][x] \in Ways /\ cache.tag[loc[h][x]] = x
      BY <2>7, <2>8, <3>1 DEF Layout, Records, RecordsOf, Located, LocatedOf
    <3>3. x # NoIdx
      BY <1>0, SSDConstants
    <3>. QED BY <2>11, <3>2, <3>3 DEF Cached
  <2>13. x \in conflict[h]
    BY <2>4, <2>7, <2>8, <2>12 DEF Layout, Conflicts, ConflictOf
  <2>14. InPad(x, h)
    BY <2>6, <2>7, <2>9, <2>10, <2>13 DEF InPad
  <2>. QED BY <1>0, <1>5, <2>1, <2>14 DEF Values, PadValues
<1>. QED BY <1>3, <1>4, <1>5

(* When a forward or a backward runs, every row of its batch is where its   *)
(* pointer says, trained by every batch before: RowsLatest, that no update  *)
(* is lost on the way through the cache, the scratch pads, the buffers of   *)
(* evicted rows and the store.                                              *)
THEOREM RowsAreLatest == Spec => []RowsLatest
<1>1. ASSUME Order, Device PROVE RowsLatest
  <2>1. SUFFICES ASSUME NEW w \in {"forward", "backward"}, Runs("main", w), NEW i, i = Head(todo["main"]).i,
                        NEW x \in batch[i]
                 PROVE  Read(ptr[i][x], x) = Trained(x, i)
    BY Zenon DEF RowsLatest
  <2>2. /\ i \in Batches /\ Live(i) /\ ~ Pending("fill", i)
        /\ \A j \in Batches : IsTrained(j) <=> j < i
    BY <1>1, <2>1, AboutToTrain
  <2>3. Chains /\ HostOK /\ Layout /\ Values /\ x \in Idx
    BY <1>1, <2>2, OrderChains DEF Order, Device, HostOK
  <2>4. Trained(x, i) = Latest(x)
    <3>1. i \in Nat /\ 1 <= i /\ i <= MaxBatches + 1
      BY <2>2, SSDConstants DEF Batches
    <3>. QED BY <2>2, <3>1, TrainedIsLatest
  <2>5. ptr[i][x] = IF loc[i][x] # NoWay THEN [at |-> "l1", n |-> loc[i][x]]
                    ELSE [at |-> "pad", n |-> IF Unlocked(i) /\ x \in TakenOver(i) THEN i + 1 ELSE i]
    BY <2>2, <2>3 DEF Layout, Pointers, PointersOf
  <2>6. CASE loc[i][x] # NoWay
    <3>1. loc[i][x] \in Ways /\ InWay(x, loc[i][x])
      BY <2>2, <2>3, <2>6, WayIsFilled
    <3>2. l1[loc[i][x]] = Latest(x)
      BY <2>3, <3>1 DEF Values, WayValues
    <3>3. Read(ptr[i][x], x) = l1[loc[i][x]]
      BY <2>5, <2>6 DEF Read
    <3>. QED BY <2>4, <3>2, <3>3
  <2>7. CASE loc[i][x] = NoWay
    <3>1. PICK n : n = IF Unlocked(i) /\ x \in TakenOver(i) THEN i + 1 ELSE i
      OBVIOUS
    <3>2. pad[n][x] = Latest(x)
      BY <2>2, <2>3, <2>7, <3>1, PadIsLatest
    <3>3. ptr[i][x] = [at |-> "pad", n |-> n]
      BY <2>5, <2>7, <3>1
    <3>4. Read(ptr[i][x], x) = pad[n][x]
      BY <3>3 DEF Read
    <3>. QED BY <2>4, <3>2, <3>4
  <2>. QED BY <2>6, <2>7
<1>. QED BY <1>1, Invariance, PTL

(* No prefetch takes a way that a batch not trained yet points at:          *)
(* PointersHold.                                                            *)
THEOREM PointersAreHeld == Spec => []PointersHold
<1>1. ASSUME Device PROVE PointersHold
  <2>1. SUFFICES ASSUME NEW i \in Batches, NEW x \in DOMAIN ptr[i], ptr[i][x].at = "l1"
                 PROVE  cache.tag[ptr[i][x].n] = x
    BY DEF PointersHold
  <2>2. Live(i) /\ ~ Pending("fill", i) /\ x \in batch[i]
    BY <1>1 DEF Device, Layout, Records, RecordsOf
  <2>3. ptr[i][x] = IF loc[i][x] # NoWay THEN [at |-> "l1", n |-> loc[i][x]]
                    ELSE [at |-> "pad", n |-> IF Unlocked(i) /\ x \in TakenOver(i) THEN i + 1 ELSE i]
    BY <1>1, <2>2 DEF Device, Layout, Pointers, PointersOf
  <2>4. loc[i][x] # NoWay /\ ptr[i][x].n = loc[i][x]
    BY <2>1, <2>3
  <2>. QED BY <1>1, <2>2, <2>4 DEF Device, Layout, Located, LocatedOf
<1>. QED BY <1>1, Invariance, PTL

(* A way's counter is the number of batches that use it and are not         *)
(* unlocked: LocksMatchUse, that each lock a prefetch takes is given back   *)
(* once.                                                                    *)
THEOREM LocksAreCounted == Spec => []LocksMatchUse
<1>1. ASSUME Order, Device PROVE LocksMatchUse
  <2> DEFINE unlocked(i) == Runs("main", "backward") /\ Head(todo["main"]).i = i
             uses(i, w)  == \E x \in DOMAIN loc[i] : loc[i][x] = w
  <2>1. SUFFICES ASSUME NEW w \in Ways
                 PROVE  cache.lock[w] =
                            IF pipeline THEN Cardinality({i \in Batches : uses(i, w) /\ ~ unlocked(i)}) ELSE 0
    BY Zenon DEF LocksMatchUse
  <2>2. cache.lock[w] = IF pipeline THEN Cardinality(Users(w)) ELSE 0
    BY <1>1 DEF Device, Locks
  <2>3. "main" \in Streams /\ StreamsOK /\ HostOK /\ On("backward") = "main" /\ On("unlock") = "main"
    BY <1>1 DEF Streams, Order, On, SideWorks, EvictWorks
  <2>4. ASSUME NEW i \in Batches, unlocked(i) PROVE ~ Pending("unlock", i)
    <3>1. PICK p : p = Head(todo["main"]) /\ p.work = "backward" /\ p.i = i
      BY <2>4 DEF Runs
    <3>2. Ready("main")
      BY <2>4 DEF Runs, Ready
    <3>3. \A v \in Works, j \in Batches : First(v, j, p.work, p.i) => ~ Pending(v, j)
      BY <1>1, <2>3, <3>1, <3>2, HeadFacts
    <3>4. First("unlock", i, "backward", i)
      BY DEF First, InTurn, MainWorks, SideWorks, EvictWorks, Rank
    <3>. QED BY <3>1, <3>3, <3>4, WorksAre
  <2>5. ASSUME pipeline, NEW i \in Batches, uses(i, w), ~ Pending("unlock", i) PROVE unlocked(i)
    <3>1. Pending("backward", i)
      BY <1>1, <2>5 DEF Device, Layout, Records, RecordsOf, Live
    <3>2. Queued("backward", i)
      BY <2>5, <3>1 DEF Pending, Turn
    <3>3. PICK r \in Queue("main") : Is("main", r, "backward", i)
      BY <2>3, <3>2 DEF Queued
    <3>4. ASSUME r - 1 \in Queue("main") PROVE FALSE
      <4>1. Is("main", r - 1, "unlock", i)
        BY <1>1, <2>5, <3>3, <3>4 DEF Order, UnlockBefore, Is
      <4>. QED BY <2>3, <2>5, <3>4, <4>1 DEF Pending, Queued
    <3>5. r = ran["main"] + 1
      <4>1. ran["main"] \in Nat /\ End("main") \in Nat /\ r \in Nat /\ ran["main"] + 1 <= r /\ r <= End("main")
        BY <2>3, QueueFacts
      <4>. QED BY <3>4, <4>1 DEF Queue
    <3>6. todo["main"] # <<>> /\ Piece("main", r) = Head(todo["main"])
      BY <2>3, <3>5, QueueFacts
    <3>7. PICK p : p = Piece("main", r) /\ p.work = "backward" /\ p.i = i /\ ContentOf("main", p)
      BY <1>1, <2>3, <3>3 DEF Is, Order, Contents
    <3>8. p.after = {}
      BY <3>7 DEF ContentOf
    <3>. QED BY <3>6, <3>7, <3>8 DEF Runs
  <2> HIDE DEF unlocked
  <2>6. ASSUME pipeline, NEW i \in Batches PROVE Pending("unlock", i) /\ uses(i, w) <=> uses(i, w) /\ ~ unlocked(i)
    BY <2>4, <2>5, <2>6
  <2>7. ASSUME pipeline PROVE Users(w) = {i \in Batches : uses(i, w) /\ ~ unlocked(i)}
    BY <2>6, <2>7 DEF Users
  <2>. QED BY <2>2, <2>7
<1>. QED BY <1>1, Invariance, PTL

(* The lookup of a scratch pad pops the map of that pad: IndexQueueInStep.  *)
THEOREM IndexQueueIsInStep == Spec => []IndexQueueInStep
<1>1. ASSUME Order, Device PROVE IndexQueueInStep
  <2>1. SUFFICES ASSUME Runs(side, "lookup")
                 PROVE  idxq # <<>> /\ Head(idxq) = spill[Head(todo[side]).k]
    BY DEF IndexQueueInStep
  <2>2. PICK p : p = Head(todo[side]) /\ p.work = "lookup"
    BY <2>1 DEF Runs
  <2>3. side \in Streams /\ Ready(side) /\ HostOK /\ Chains
    BY <1>1, <2>1, OrderChains DEF Order, HostOK, Streams, Runs, Ready
  <2>4. /\ p.i \in Batches /\ Exists("lookup", p.i) /\ Pending("lookup", p.i) /\ ContentOf(side, p)
        /\ \A v \in Works, j \in Batches : First(v, j, "lookup", p.i) => ~ Pending(v, j)
    BY <1>1, <2>2, <2>3, HeadFacts
  <2>5. PICK i, k : i = p.i /\ k = p.k
    OBVIOUS
  <2>6. pipeline /\ i > 1 /\ k = i - 1
    BY <2>2, <2>4, <2>5 DEF Exists, ContentOf
  <2>7. i \in Batches /\ k \in Batches /\ i = k + 1 /\ k < i
    BY <2>4, <2>5, <2>6, SSDConstants DEF Batches
  <2>8. ~ Pending("enqueue", k)
    <3>1. First("enqueue", k, "lookup", i)
      BY <2>7 DEF First
    <3>. QED BY <2>4, <2>5, <2>7, <3>1, WorksAre
  <2>9. InQueue(k)
    BY <2>4, <2>5, <2>6, <2>7, <2>8 DEF InQueue
  <2>10. idxq = <<conflict[k]>>
    BY <1>1, <2>7, <2>9 DEF Device, IndexQueue
  <2>11. ~ Pending("spill", k)
    BY <2>3, <2>6, <2>7, <2>8 DEF Chains, ChainOf
  <2>12. TakenOver(k) = {}
    BY <1>1, <2>4, <2>5, <2>7 DEF TakenOver, Device, Layout, Records, RecordsOf
  <2>13. spill[k] = conflict[k]
    BY <1>1, <2>7, <2>11, <2>12 DEF Device, Layout, Conflicts, ConflictOf
  <2>. QED BY <2>2, <2>5, <2>10, <2>13
<1>. QED BY <1>1, Invariance, PTL

(* A flush that returns when every batch prefetched is trained leaves the   *)
(* store with every update: FlushStoresLatest, for a trainer that does not  *)
(* flush between a forward and its backward.                                *)
THEOREM FlushesStoreLatest ==
    ASSUME ~ FlushMidStep
    PROVE  Spec => []FlushStoresLatest
<1>1. ASSUME Order, Device PROVE FlushStoresLatest
  <2>1. SUFFICES ASSUME host = "flushed", nextP = nextB, NEW x \in Idx PROVE store[x] = Trained(x, nextB)
    BY DEF FlushStoresLatest
  <2>2. Idle /\ store[x] = Latest(x)
    BY <1>1, <2>1 DEF Device, Flushed
  <2>3. \A j \in Batches : Pending("backward", j) <=> j >= nextB
    BY <1>1, <2>2, IdlePending, WorksAre DEF Turn
  <2>4. nextB \in Nat /\ 1 <= nextB /\ nextB <= MaxBatches + 1
    BY <1>1, <2>1 DEF Order, HostOK
  <2>5. \A j \in Batches : IsTrained(j) <=> j < nextB
    BY <2>3, <2>4 DEF IsTrained, Batches
  <2>. QED BY <2>2, <2>4, <2>5, TrainedIsLatest
<1>. QED BY <1>1, Invariance, PTL
=============================================================================
