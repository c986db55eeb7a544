-------------------------- MODULE UVMPipeline_proofs ---------------------------
(***************************************************************************)
(* Proofs about UVMPipeline for any number of rows, ways, batches, flushes *)
(* and batches taken in two passes: no update is lost or trained twice,    *)
(* whichever way the prefetches and the training overlap, but for rows     *)
(* that a flush met while an insertion was evicting them.                  *)
(*                                                                         *)
(* The trainer prefetches one batch ahead (Depth = 1), as the hooks expect *)
(* it to: further ahead, TLC finds a row read before it is trained.        *)
(***************************************************************************)
EXTENDS UVMPipeline, FiniteSetTheorems, SequenceTheorems, TLAPS

Streams == {"main", "prefetch"}
Pieces  == [work : {"insert", "lookup", "forward", "unlock", "backward", "flush"},
            i : Nat, k : Nat, after : SUBSET (Streams \X Nat)]

(* The pieces of work still queued, by their place in their stream, which   *)
(* does not change when work before them ends.                              *)
Queue(s)    == (ran[s] + 1)..End(s)
Piece(s, q) == todo[s][q - ran[s]]

Is(s, q, w, i)  == Piece(s, q).work = w /\ Piece(s, q).i = i
Inserting(s, q) == Piece(s, q).work \in {"insert", "lookup"}
Training(r)     == ~ Inserting("main", r)

(* Piece q of stream s is done when piece r of stream t begins: it is ahead *)
(* in the same stream, or something not behind r waits for it.              *)
Before(s, q, t, r) ==
    IF s = t THEN q < r
    ELSE \E n \in Queue(t) : n <= r /\ \E p \in Piece(t, n).after : p[1] = s /\ p[2] >= q

Queued(w, i)   == \E r \in Queue("main") : Is("main", r, w, i)
ToInsert(i)    == \E s \in Streams : \E q \in Queue(s) : Inserting(s, q) /\ Piece(s, q).i = i
ToLookUp(i, p) == \E s \in Streams : \E q \in Queue(s) : Is(s, q, "lookup", i) /\ Piece(s, q).k = p

\* An insertion has moved rows of pass p of batch i, and its tags come next.
Mid(i, p) == \E s \in Streams : \E q \in Queue(s) :
                 q = ran[s] + 1 /\ Is(s, q, "lookup", i) /\ Piece(s, q).k = p

(* How far a batch is: trained, or prefetched and not trained yet, its ways *)
(* locked or unlocked already.                                              *)
IsTrained(i) == i < nextB /\ ~ Queued("backward", i)
Unlocked(i)  == pipeline /\ i < nextB /\ ~ Queued("unlock", i)
Live(i)      == i < nextP /\ ~ IsTrained(i)
Holds(i)     == pipeline /\ Live(i) /\ ~ Unlocked(i)

\* A prefetch is at most so many batches ahead of the batch trained.
Gap == IF pipeline THEN 2 ELSE 1

-----------------------------------------------------------------------------
(* The streams and the host.                                               *)
-----------------------------------------------------------------------------
StreamsOK == todo \in [Streams -> Seq(Pieces)] /\ ran \in [Streams -> Nat]

Turns ==
    /\ pipeline \in BOOLEAN /\ side \in Streams /\ (side = "prefetch" => pipeline)
    /\ nextP \in Nat /\ nextF \in Nat /\ nextB \in Nat /\ gate \in Nat
    /\ 1 <= nextB /\ nextB <= nextF /\ nextF <= nextB + 1
    /\ nextF <= nextP /\ nextP <= nextB + Gap /\ nextP <= MaxBatches + 1
    /\ batch \in [Batches -> [Passes -> SUBSET Idx]]
    /\ \A i \in Batches, p \in Passes : i >= nextP => batch[i][p] = {}
    /\ pipeline \/ \A i \in Batches : batch[i][2] = {}

(* What is queued where. *)
ContentOf(s, q) ==
    LET p == Piece(s, q)
    IN  /\ Inserting(s, q) => /\ s = side /\ p.i \in 1..(nextP - 1) /\ p.k \in Passes
                              /\ p.k = 2 => pipeline
        /\ ~ Inserting(s, q) => s = "main" /\ p.i >= 1
        /\ p.work = "forward" => p.i < nextF
        /\ p.work \in {"unlock", "backward"} => p.i < nextB
        /\ p.work = "flush" => p.i <= nextB
        /\ p.work = "unlock" => pipeline
        /\ p.work \in {"lookup", "backward", "flush"} => p.after = {}

Contents == \A s \in Streams : \A q \in Queue(s) : ContentOf(s, q)

(* Batches are trained in order, each unlocked right before. *)
MainOrder ==
    \A q, r \in Queue("main") : q < r /\ Training(q) /\ Training(r) =>
        /\ Piece("main", q).i <= Piece("main", r).i
        /\ Piece("main", q).work = "backward" => Piece("main", q).i < Piece("main", r).i

MainPairs ==
    \A r \in Queue("main") :
        /\ Piece("main", r).work = "unlock" =>
              r + 1 \in Queue("main") /\ Is("main", r + 1, "backward", Piece("main", r).i)
        /\ Piece("main", r).work = "backward" /\ pipeline /\ r - 1 \in Queue("main") =>
              Piece("main", r - 1).work = "unlock"

(* Passes are inserted in order, each looked up right after. *)
Ahead(a, b) ==
    \/ a.i < b.i
    \/ a.i = b.i /\ a.k < b.k
    \/ a.i = b.i /\ a.k = b.k /\ a.work = "insert" /\ b.work = "lookup"

SideOrder ==
    \A s \in Streams : \A q, r \in Queue(s) :
        q < r /\ Inserting(s, q) /\ Inserting(s, r) => Ahead(Piece(s, q), Piece(s, r))

SidePairs ==
    \A s \in Streams : \A q \in Queue(s) :
        /\ Piece(s, q).work = "insert" =>
              /\ q + 1 \in Queue(s) /\ Is(s, q + 1, "lookup", Piece(s, q).i)
              /\ Piece(s, q + 1).k = Piece(s, q).k
        /\ Piece(s, q).work = "lookup" /\ q - 1 \in Queue(s) => Piece(s, q - 1).work = "insert"

(* A batch is looked up before it is used, and not prefetched while another *)
(* one's ways change hands from the lock to the training; a batch two ahead *)
(* comes after the training.                                                *)
LookedUpFirst ==
    \A s \in Streams : \A q \in Queue(s), r \in Queue("main") :
        /\ Inserting(s, q) /\ Piece("main", r).work \in {"forward", "unlock", "backward"}
        /\ Piece(s, q).i <= Piece("main", r).i
        => Before(s, q, "main", r)

KeptApart ==
    \A s \in Streams : \A q \in Queue(s), r \in Queue("main") :
        Inserting(s, q) /\ Piece("main", r).work \in {"unlock", "backward"}
        => Before(s, q, "main", r) \/ Before("main", r, s, q)

TrainedFirst ==
    \A s \in Streams : \A q \in Queue(s), r \in Queue("main") :
        /\ Inserting(s, q) /\ Piece("main", r).work = "backward"
        /\ Piece("main", r).i + Gap <= Piece(s, q).i
        => Before("main", r, s, q)

(* What the host notes of main. *)
Gated ==
    side = "prefetch" =>
        \A r \in Queue("main") : Piece("main", r).work \in {"unlock", "backward"} => r <= gate

(* Nothing is queued of a batch that is trained, nor of its prefetch when   *)
(* its ways are unlocked.                                                   *)
TrainedIsOver ==
    \A j \in Batches, r \in Queue("main") :
        IsTrained(j) /\ Training(r) => j < Piece("main", r).i

InsertedIsOver == \A i \in Batches : ToInsert(i) => ~ IsTrained(i) /\ ~ Unlocked(i)

Order == /\ StreamsOK /\ Turns /\ Contents /\ MainOrder /\ MainPairs /\ SideOrder /\ SidePairs
         /\ LookedUpFirst /\ KeptApart /\ TrainedFirst /\ Gated
         /\ TrainedIsOver /\ InsertedIsOver

\* How far the batches are does not change, but for batch n, prefetched now.
SameUpTo(n) ==
    /\ \A j \in Batches : /\ IsTrained(j)' <=> IsTrained(j)
                          /\ Unlocked(j)' <=> Unlocked(j)
                          /\ \A p : Mid(j, p)' <=> Mid(j, p)
                          /\ j # n => /\ batch'[j] = batch[j] /\ (ToInsert(j)' <=> ToInsert(j))
                                      /\ \A p : ToLookUp(j, p)' <=> ToLookUp(j, p)

-----------------------------------------------------------------------------
(* A stream ends a piece of work. *)
LEMMA Shrink ==
    ASSUME StreamsOK, NEW s \in Streams, todo[s] # <<>>, Finish(s)
    PROVE  /\ StreamsOK'
           /\ ran[s] + 1 \in Queue(s) /\ Piece(s, ran[s] + 1) = Head(todo[s])
           /\ Head(todo[s]) \in Pieces
           /\ \A t \in Streams : /\ Queue(t)' = IF t = s THEN Queue(t) \ {ran[t] + 1} ELSE Queue(t)
                                 /\ \A q \in Queue(t)' : Piece(t, q)' = Piece(t, q)
                                 /\ \A q \in Queue(t) : Piece(t, q) \in Pieces /\ q \in Nat
                                 /\ End(t)' = End(t)
                                 /\ ran'[t] = IF t = s THEN ran[t] + 1 ELSE ran[t]
<1>1. /\ \A t \in Streams : ran[t] \in Nat /\ todo[t] \in Seq(Pieces) /\ Len(todo[t]) \in Nat
      /\ Tail(todo[s]) \in Seq(Pieces) /\ Len(Tail(todo[s])) = Len(todo[s]) - 1
      /\ Head(todo[s]) = todo[s][1] /\ Len(todo[s]) > 0
      /\ \A n \in 1..(Len(todo[s]) - 1) : Tail(todo[s])[n] = todo[s][n + 1]
  BY DEF StreamsOK
<1>2. /\ \A t \in Streams : t # s => todo'[t] = todo[t] /\ ran'[t] = ran[t]
      /\ todo'[s] = Tail(todo[s]) /\ ran'[s] = ran[s] + 1
  BY DEF Finish, StreamsOK
<1>3. StreamsOK'
  BY <1>1 DEF Finish, StreamsOK
<1>4. \A t \in Streams : \A q \in Queue(t) : Piece(t, q) \in Pieces /\ q \in Nat
  <2> SUFFICES ASSUME NEW t \in Streams, NEW q \in Queue(t) PROVE Piece(t, q) \in Pieces /\ q \in Nat
    OBVIOUS
  <2>1. q \in Nat /\ q - ran[t] \in 1..Len(todo[t])
    BY <1>1 DEF Queue, End
  <2>. QED BY <1>1, <2>1 DEF Piece
<1>5. ASSUME NEW t \in Streams, t # s
      PROVE  /\ Queue(t)' = Queue(t) /\ End(t)' = End(t)
             /\ \A q \in Queue(t)' : Piece(t, q)' = Piece(t, q)
  BY <1>2, <1>5 DEF Queue, End, Piece
<1>6. End(s)' = End(s) /\ Queue(s)' = Queue(s) \ {ran[s] + 1}
  <2>1. End(s)' = End(s)
    BY <1>1, <1>2 DEF End
  <2>2. ran[s] \in Nat /\ End(s) \in Nat /\ Queue(s)' = (ran[s] + 2)..End(s)
    BY <1>1, <1>2, <2>1 DEF Queue, End
  <2>3. \A a, b \in Nat : (a + 2)..b = ((a + 1)..b) \ {a + 1}
    OBVIOUS
  <2>. QED BY <2>1, <2>2, <2>3 DEF Queue
<1>7. ASSUME NEW q \in Queue(s)' PROVE Piece(s, q)' = Piece(s, q)
  <2>1. q - (ran[s] + 1) \in 1..(Len(todo[s]) - 1) /\ q - (ran[s] + 1) + 1 = q - ran[s]
    <3>1. q \in (ran[s] + 1 + 1)..(ran[s] + 1 + (Len(todo[s]) - 1))
      BY <1>1, <1>2 DEF Queue, End
    <3>2. ran[s] \in Nat /\ Len(todo[s]) \in Nat
      BY <1>1
    <3>3. \A a, n \in Nat : \A c \in (a + 1 + 1)..(a + 1 + (n - 1)) :
             c - (a + 1) \in 1..(n - 1) /\ c - (a + 1) + 1 = c - a
      OBVIOUS
    <3>. QED BY Zenon, <3>1, <3>2, <3>3
  <2>2. Tail(todo[s])[q - (ran[s] + 1)] = todo[s][q - ran[s]]
    BY <1>1, <2>1
  <2>. QED BY <1>1, <1>2, <2>1, <2>2 DEF Piece
<1>8. ran[s] + 1 \in Queue(s) /\ Piece(s, ran[s] + 1) = Head(todo[s])
  BY <1>1 DEF Queue, End, Piece
<1>. QED BY <1>1, <1>2, <1>3, <1>4, <1>5, <1>6, <1>7, <1>8

(* The host queues more work. *)
LEMMA Extend ==
    ASSUME StreamsOK, NEW s \in Streams, NEW W \in Seq(Pieces),
           todo' = [todo EXCEPT ![s] = @ \o W], ran' = ran
    PROVE  /\ StreamsOK'
           /\ \A t \in Streams :
                 /\ Queue(t) \subseteq Queue(t)' /\ (t # s => Queue(t)' = Queue(t) /\ End(t)' = End(t))
                 /\ \A q \in Queue(t) : Piece(t, q)' = Piece(t, q)
                 /\ \A q \in Queue(t)' : Piece(t, q)' \in Pieces /\ q \in Nat
                 /\ End(t) \in Nat /\ ran[t] \in Nat /\ \A q \in Queue(t) : q <= End(t)
           /\ End(s)' = End(s) + Len(W)
           /\ \A n \in 1..Len(W), q \in Nat :
                 q = End(s) + n => q \in Queue(s)' /\ Piece(s, q)' = W[n]
           /\ \A q \in Queue(s)' : q \in Queue(s) \/ \E n \in 1..Len(W) : q = End(s) + n
<1>1. /\ \A t \in Streams : ran[t] \in Nat /\ todo[t] \in Seq(Pieces) /\ Len(todo[t]) \in Nat
      /\ Len(W) \in Nat /\ todo[s] \o W \in Seq(Pieces) /\ Len(todo[s] \o W) = Len(todo[s]) + Len(W)
      /\ \A n \in 1..Len(todo[s]) : (todo[s] \o W)[n] = todo[s][n]
      /\ \A n \in 1..Len(W) : (todo[s] \o W)[Len(todo[s]) + n] = W[n]
  BY DEF StreamsOK
<1>2. /\ \A t \in Streams : (t # s => todo'[t] = todo[t]) /\ ran'[t] = ran[t]
      /\ todo'[s] = todo[s] \o W
  BY DEF StreamsOK
<1>3. StreamsOK'
  BY <1>1 DEF StreamsOK
<1>4. \A t \in Streams : \A q \in Queue(t)' : Piece(t, q)' \in Pieces /\ q \in Nat
  <2> SUFFICES ASSUME NEW t \in Streams, NEW q \in Queue(t)' PROVE Piece(t, q)' \in Pieces /\ q \in Nat
    OBVIOUS
  <2>1. ran'[t] \in Nat /\ todo'[t] \in Seq(Pieces)
    BY <1>3 DEF StreamsOK
  <2>2. q \in Nat /\ q - ran'[t] \in 1..Len(todo'[t])
    BY <2>1 DEF Queue, End
  <2>. QED BY <2>1, <2>2 DEF Piece
<1>5. ASSUME NEW t \in Streams, t # s
      PROVE  /\ Queue(t)' = Queue(t) /\ End(t)' = End(t)
             /\ \A q \in Queue(t) : Piece(t, q)' = Piece(t, q)
  BY <1>2, <1>5 DEF Queue, End, Piece
<1>6. /\ End(s)' = End(s) + Len(W) /\ Queue(s) \subseteq Queue(s)'
      /\ \A q \in Queue(s)' : q \in Queue(s) \/ \E n \in 1..Len(W) : q = End(s) + n
  <2>1. End(s)' = End(s) + Len(W) /\ Queue(s) \subseteq Queue(s)' /\ End(s) \in Nat
    BY <1>1, <1>2 DEF Queue, End
  <2>2. ASSUME NEW q \in Queue(s)', q \notin Queue(s) PROVE \E n \in 1..Len(W) : q = End(s) + n
    <3>1. ran'[s] = ran[s] /\ ran[s] \in Nat /\ q \in (ran[s] + 1)..(End(s) + Len(W))
      BY <1>1, <1>2, <2>1 DEF Queue
    <3>2. q \notin (ran[s] + 1)..End(s)
      BY <2>2 DEF Queue
    <3>3. q - End(s) \in 1..Len(W) /\ q = End(s) + (q - End(s))
      BY <1>1, <2>1, <3>1, <3>2
    <3>. QED BY <3>3
  <2>. QED BY <2>1, <2>2
<1>7. ASSUME NEW q \in Queue(s) PROVE Piece(s, q)' = Piece(s, q)
  <2>1. q - ran[s] \in 1..Len(todo[s])
    BY <1>1 DEF Queue, End
  <2>. QED BY <1>1, <1>2, <2>1 DEF Piece
<1>8. ASSUME NEW n \in 1..Len(W), NEW q \in Nat, q = End(s) + n
      PROVE  q \in Queue(s)' /\ Piece(s, q)' = W[n]
  <2>1. q - ran[s] = Len(todo[s]) + n /\ End(s) = ran[s] + Len(todo[s])
        /\ n \in Nat /\ 1 <= n /\ n <= Len(W)
    BY <1>1, <1>8 DEF End
  <2>2. q \in (ran[s] + 1)..(End(s) + Len(W))
    BY <1>1, <1>8, <2>1
  <2>3. q \in Queue(s)'
    BY <1>1, <1>2, <1>6, <2>2 DEF Queue
  <2>4. Piece(s, q)' = (todo[s] \o W)[Len(todo[s]) + n]
    BY <1>1, <1>2, <2>1 DEF Piece
  <2>. QED BY <1>1, <2>1, <2>3, <2>4
<1>9. \A t \in Streams : End(t) \in Nat /\ \A q \in Queue(t) : q <= End(t)
  BY <1>1 DEF End, Queue
<1>. QED BY <1>1, <1>3, <1>4, <1>5, <1>6, <1>7, <1>8, <1>9

Ready(s) == todo[s] # <<>> /\ \A p \in Head(todo[s]).after : ran[p[1]] >= p[2]

LEMMA QueueFacts ==
    ASSUME StreamsOK, NEW s \in Streams
    PROVE  /\ ran[s] \in Nat /\ End(s) \in Nat
           /\ \A q \in Queue(s) : /\ Piece(s, q) \in Pieces /\ q \in Nat
                                  /\ ran[s] + 1 <= q /\ q <= End(s)
           /\ todo[s] # <<>> => ran[s] + 1 \in Queue(s) /\ Piece(s, ran[s] + 1) = Head(todo[s])
           /\ todo[s] = <<>> => Queue(s) = {}
<1>1. ran[s] \in Nat /\ todo[s] \in Seq(Pieces) /\ Len(todo[s]) \in Nat
  BY DEF StreamsOK
<1>2. ASSUME NEW q \in Queue(s)
      PROVE  Piece(s, q) \in Pieces /\ q \in Nat /\ ran[s] + 1 <= q /\ q <= End(s)
  <2>1. q \in Nat /\ q - ran[s] \in 1..Len(todo[s]) /\ ran[s] + 1 <= q /\ q <= End(s)
    BY <1>1, <1>2 DEF Queue, End
  <2>. QED BY <1>1, <2>1 DEF Piece
<1>3. ASSUME todo[s] # <<>>
      PROVE  ran[s] + 1 \in Queue(s) /\ Piece(s, ran[s] + 1) = Head(todo[s])
  BY <1>1, <1>3 DEF Queue, End, Piece
<1>4. todo[s] = <<>> => Queue(s) = {}
  BY <1>1 DEF Queue, End
<1>. QED BY <1>1, <1>2, <1>3, <1>4 DEF End

(* What the head of a stream waits for is done. *)
LEMMA HeadIsFirst ==
    ASSUME StreamsOK, NEW t \in Streams, Ready(t), NEW s \in Streams, NEW q \in Queue(s),
           NEW r, r = ran[t] + 1
    PROVE  ~ Before(s, q, t, r)
<1>1. /\ ran[s] \in Nat /\ ran[t] \in Nat /\ q \in Nat /\ ran[s] + 1 <= q
      /\ Piece(t, r) = Head(todo[t]) /\ Piece(t, r) \in Pieces
  BY QueueFacts DEF Ready
<1>2. CASE s = t
  BY <1>1, <1>2 DEF Before
<1>3. CASE s # t
  <2>1. SUFFICES ASSUME NEW n \in Queue(t), n <= r, NEW p \in Piece(t, n).after, p[1] = s, p[2] >= q
                 PROVE  FALSE
    BY <1>3 DEF Before
  <2>2. n = r
    BY <1>1, <2>1, QueueFacts
  <2>3. p[2] \in Nat /\ ran[s] >= p[2]
    BY <1>1, <2>1, <2>2 DEF Ready, Pieces
  <2>. QED BY <1>1, <2>1, <2>3
<1>. QED BY <1>2, <1>3

(* What comes before what does not change when a stream ends a piece. *)
LEMMA BeforeStays ==
    ASSUME StreamsOK, NEW s \in Streams, Ready(s), Finish(s),
           NEW u \in Streams, NEW t \in Streams, NEW q \in Queue(u)', NEW r \in Nat,
           Before(u, q, t, r)
    PROVE  Before(u, q, t, r)'
<1>1. CASE u = t
  BY <1>1 DEF Before
<1>2. CASE u # t
  <2>1. PICK n \in Queue(t) : n <= r /\ \E p \in Piece(t, n).after : p[1] = u /\ p[2] >= q
    BY <1>2 DEF Before
  <2>2. PICK p \in Piece(t, n).after : p[1] = u /\ p[2] >= q
    BY <2>1
  <2>3. q \in Queue(u)
    BY Shrink DEF Ready
  <2>4. CASE n \in Queue(t)'
    <3>1. Piece(t, n)' = Piece(t, n)
      BY <2>4, Shrink DEF Ready
    <3>2. \E m \in Queue(t)' : m <= r /\ \E o \in Piece(t, m)'.after : o[1] = u /\ o[2] >= q
      BY <2>1, <2>4, <3>1
    <3>. QED BY <1>2, <3>2 DEF Before
  <2>5. CASE n \notin Queue(t)'
    <3>1. t = s /\ n = ran[s] + 1 /\ Piece(t, n) = Head(todo[s])
      BY <2>5, Shrink DEF Ready
    <3>2. p[2] \in Nat /\ ran[u] >= p[2]
      BY <2>2, <3>1, QueueFacts DEF Ready, Pieces
    <3>. QED BY <2>2, <2>3, <3>2, QueueFacts
  <2>. QED BY <2>4, <2>5
<1>. QED BY <1>1, <1>2

(* Nor when the host queues more. *)
LEMMA BeforeExtends ==
    ASSUME StreamsOK, NEW s \in Streams, NEW W \in Seq(Pieces),
           todo' = [todo EXCEPT ![s] = @ \o W], ran' = ran,
           NEW u \in Streams, NEW t \in Streams, NEW q, NEW r, Before(u, q, t, r)
    PROVE  Before(u, q, t, r)'
<1>1. CASE u = t
  BY <1>1 DEF Before
<1>2. CASE u # t
  <2>1. PICK n \in Queue(t) : n <= r /\ \E p \in Piece(t, n).after : p[1] = u /\ p[2] >= q
    BY <1>2 DEF Before
  <2>2. n \in Queue(t)' /\ Piece(t, n)' = Piece(t, n)
    BY Extend
  <2>3. \E m \in Queue(t)' : m <= r /\ \E o \in Piece(t, m)'.after : o[1] = u /\ o[2] >= q
    BY <2>1, <2>2
  <2>. QED BY <1>2, <2>3 DEF Before
<1>. QED BY <1>1, <1>2

-----------------------------------------------------------------------------
(* A stream that ends a piece of work keeps the order of the others. *)
LEMMA DoneOrder ==
    ASSUME Order, NEW s \in Streams, Ready(s), Done(s)
    PROVE  Order'
<1> USE DEF Order
<1>0. Finish(s) /\ UNCHANGED host /\ todo[s] # <<>>
  BY DEF Done, Ready
<1>1. /\ UNCHANGED <<pipeline, lfu, side, nextP, nextF, nextB, flushes, gate, batch>>
      /\ Gap' = Gap
  BY <1>0 DEF host, Gap
<1>2. \A t \in Streams : \A q \in Queue(t)' :
          q \in Queue(t) /\ Piece(t, q)' = Piece(t, q) /\ q \in Nat /\ Piece(t, q) \in Pieces
  BY <1>0, Shrink
<1>3. \A t \in Streams : \A q \in Queue(t)' :
          /\ Inserting(t, q)' <=> Inserting(t, q)
          /\ \A w, i : Is(t, q, w, i)' <=> Is(t, q, w, i)
  BY <1>2 DEF Inserting, Is
<1>4. \A q \in Queue("main")' : Training(q)' <=> Training(q)
  BY <1>3 DEF Training, Streams
<1>5. \A u, t \in Streams : \A q \in Queue(u)', r \in Nat : Before(u, q, t, r) => Before(u, q, t, r)'
  BY <1>0, BeforeStays
<1>6. "main" \in Streams /\ "prefetch" \in Streams
  BY DEF Streams
<1>7. StreamsOK' /\ Turns'
  BY <1>0, <1>1, Shrink DEF Turns
<1>8. Contents'
  <2> SUFFICES ASSUME NEW t \in Streams, NEW q \in Queue(t)' PROVE ContentOf(t, q)'
    BY DEF Contents
  <2>1. ContentOf(t, q)
    BY <1>2 DEF Contents
  <2>. QED BY <1>1, <1>2, <1>3, <2>1 DEF ContentOf
<1>9. MainOrder'
  BY <1>2, <1>4, <1>6 DEF MainOrder
<1>10. MainPairs'
  <2> SUFFICES ASSUME NEW r \in Queue("main")'
               PROVE  /\ Piece("main", r)'.work = "unlock" =>
                            r + 1 \in Queue("main")' /\ Is("main", r + 1, "backward", Piece("main", r).i)'
                      /\ Piece("main", r)'.work = "backward" /\ pipeline' /\ r - 1 \in Queue("main")' =>
                            Piece("main", r - 1)'.work = "unlock"
    BY DEF MainPairs
  <2>1. r \in Queue("main") /\ Piece("main", r)' = Piece("main", r) /\ r \in Nat
    BY <1>2, <1>6
  <2>2. r + 1 \in Queue("main") => r + 1 \in Queue("main")'
    <3>1. ran["main"] + 1 <= r /\ ran["main"] \in Nat
      BY <1>6, <2>1, QueueFacts
    <3>2. r + 1 # ran["main"] + 1
      BY <2>1, <3>1
    <3>. QED BY <1>0, <1>6, <3>2, Shrink
  <2>3. CASE Piece("main", r)'.work = "unlock"
    BY <1>2, <1>6, <2>1, <2>2, <2>3 DEF MainPairs, Is
  <2>4. CASE Piece("main", r)'.work = "backward"
    BY <1>1, <1>2, <1>6, <2>1, <2>4 DEF MainPairs
  <2>. QED BY <2>3, <2>4
<1>11. SideOrder'
  BY <1>2, <1>3 DEF SideOrder
<1>12. SidePairs'
  <2> SUFFICES ASSUME NEW t \in Streams, NEW q \in Queue(t)'
               PROVE  /\ Piece(t, q)'.work = "insert" =>
                            /\ q + 1 \in Queue(t)' /\ Is(t, q + 1, "lookup", Piece(t, q).i)'
                            /\ Piece(t, q + 1)'.k = Piece(t, q)'.k
                      /\ Piece(t, q)'.work = "lookup" /\ q - 1 \in Queue(t)' =>
                            Piece(t, q - 1)'.work = "insert"
    BY DEF SidePairs
  <2>1. q \in Queue(t) /\ Piece(t, q)' = Piece(t, q) /\ q \in Nat
    BY <1>2
  <2>2. q + 1 \in Queue(t) => q + 1 \in Queue(t)'
    BY <1>0, <2>1, Shrink, QueueFacts
  <2>. QED BY <1>2, <2>1, <2>2 DEF SidePairs, Is
<1>13. LookedUpFirst'
  BY <1>2, <1>3, <1>5, <1>6 DEF LookedUpFirst
<1>14. KeptApart'
  BY <1>2, <1>3, <1>5, <1>6 DEF KeptApart
<1>15. TrainedFirst'
  BY <1>1, <1>2, <1>3, <1>5, <1>6 DEF TrainedFirst
<1>17. Gated'
  BY <1>1, <1>2, <1>6 DEF Gated
<1>18. TrainedIsOver'
  <2> SUFFICES ASSUME NEW j \in Batches, NEW r \in Queue("main")', IsTrained(j)', Training(r)
               PROVE  j < Piece("main", r).i
    BY <1>2, <1>4, <1>6 DEF TrainedIsOver
  <2>1. r \in Queue("main") /\ r \in Nat
    BY <1>2, <1>6
  <2>2. CASE IsTrained(j)
    BY <2>1, <2>2 DEF TrainedIsOver
  <2>3. CASE ~ IsTrained(j)
    <3>1. PICK q \in Queue("main") : Is("main", q, "backward", j)
      BY <1>1, <2>3 DEF IsTrained, Queued
    <3>2. q \notin Queue("main")'
      BY <1>3, <1>6, <3>1 DEF IsTrained, Queued
    <3>3. q < r
      BY <1>0, <1>6, <2>1, <3>2, Shrink, QueueFacts
    <3>. QED BY <2>1, <3>1, <3>3 DEF MainOrder, Is, Training, Inserting
  <2>. QED BY <2>2, <2>3
<1>19. InsertedIsOver'
  <2> SUFFICES ASSUME NEW i \in Batches, ToInsert(i)' PROVE ~ IsTrained(i)' /\ ~ Unlocked(i)'
    BY DEF InsertedIsOver
  <2>0. PICK t \in Streams : \E q \in Queue(t)' : Inserting(t, q)' /\ Piece(t, q)'.i = i
    BY DEF ToInsert
  <2>1. PICK q \in Queue(t)' : Inserting(t, q)' /\ Piece(t, q)'.i = i
    BY <2>0
  <2>2. q \in Queue(t) /\ Inserting(t, q) /\ Piece(t, q).i = i
    BY <1>2, <1>3, <2>1
  <2>3. ~ IsTrained(i) /\ ~ Unlocked(i)
    BY <2>2 DEF InsertedIsOver, ToInsert
  <2>4. ASSUME NEW w \in {"unlock", "backward"}, Queued(w, i) PROVE Queued(w, i)'
    <3>1. PICK r \in Queue("main") : Is("main", r, w, i)
      BY <2>4 DEF Queued
    <3>2. Before(t, q, "main", r)
      BY <2>2, <3>1 DEF LookedUpFirst, Is, Batches
    <3>3. r \in Queue("main")'
      <4>1. SUFFICES ASSUME s = "main", r = ran["main"] + 1 PROVE FALSE
        BY <1>0, <1>6, Shrink
      <4>. QED BY <2>2, <3>2, <4>1, <1>6, HeadIsFirst
    <3>. QED BY <1>3, <1>6, <3>1, <3>3 DEF Queued
  <2>. QED BY <1>1, <2>3, <2>4 DEF IsTrained, Unlocked
<1>. QED BY <1>7, <1>8, <1>9, <1>10, <1>11, <1>12, <1>13, <1>14, <1>15, <1>17, <1>18, <1>19

-----------------------------------------------------------------------------
(* The work of a prefetch, in one pass or two. *)
PassWork(i, p, g) == <<Work("insert", i, p, {<<"main", g>>}), Work("lookup", i, p, {})>>

InPasses(W, i, g, second) ==
    /\ W \in Seq(Pieces) /\ Len(W) \in {2, 4}
    /\ \A n \in 1..Len(W) :
          /\ W[n].i = i /\ W[n].work \in {"insert", "lookup"} /\ W[n].k \in Passes
          /\ W[n].k = 2 => second # <<>>
          /\ W[n].work = "insert" => /\ n + 1 \in 1..Len(W)
                                     /\ W[n + 1].work = "lookup" /\ W[n + 1].k = W[n].k
                                     /\ W[n].after = {<<"main", g>>}
          /\ W[n].work = "lookup" => /\ n - 1 \in 1..Len(W) /\ W[n - 1].work = "insert"
                                     /\ W[n].after = {}
    /\ \A m, n \in 1..Len(W) : m < n => Ahead(W[m], W[n])
    /\ \A p \in Passes : p = 1 \/ second # <<>> =>
          \E n \in 1..Len(W) : W[n].work = "lookup" /\ W[n].k = p

LEMMA PrefetchWork ==
    ASSUME NEW i \in Nat, NEW g \in Nat, NEW second \in {<<>>, PassWork(i, 2, g)}, NEW W,
           W = PassWork(i, 1, g) \o second
    PROVE  InPasses(W, i, g, second)
<1>1. PICK a1, b1, a2, b2 :
          /\ a1 = [work |-> "insert", i |-> i, k |-> 1, after |-> {<<"main", g>>}]
          /\ b1 = [work |-> "lookup", i |-> i, k |-> 1, after |-> {}]
          /\ a2 = [work |-> "insert", i |-> i, k |-> 2, after |-> {<<"main", g>>}]
          /\ b2 = [work |-> "lookup", i |-> i, k |-> 2, after |-> {}]
  OBVIOUS
<1>2. a1 \in Pieces /\ b1 \in Pieces /\ a2 \in Pieces /\ b2 \in Pieces /\ 1 \in Passes /\ 2 \in Passes
  BY <1>1 DEF Pieces, Streams, Passes
<1>3. PassWork(i, 1, g) = <<a1, b1>> /\ PassWork(i, 2, g) = <<a2, b2>>
  BY <1>1 DEF PassWork, Work
<1>4. Ahead(a1, b1) /\ Ahead(a1, a2) /\ Ahead(a1, b2) /\ Ahead(b1, a2) /\ Ahead(b1, b2) /\ Ahead(a2, b2)
  BY <1>1 DEF Ahead
<1>5. /\ PassWork(i, 1, g) \in Seq(Pieces) /\ Len(PassWork(i, 1, g)) = 2
      /\ PassWork(i, 1, g)[1] = a1 /\ PassWork(i, 1, g)[2] = b1
      /\ PassWork(i, 2, g) \in Seq(Pieces) /\ Len(PassWork(i, 2, g)) = 2
      /\ PassWork(i, 2, g)[1] = a2 /\ PassWork(i, 2, g)[2] = b2
  <2>1. ASSUME NEW a \in Pieces, NEW b \in Pieces
        PROVE  /\ <<a, b>> \in Seq(Pieces) /\ Len(<<a, b>>) = 2
               /\ <<a, b>>[1] = a /\ <<a, b>>[2] = b
    OBVIOUS
  <2>2. PICK u, v : u = <<a1, b1>> /\ v = <<a2, b2>>
    OBVIOUS
  <2>3. u \in Seq(Pieces) /\ Len(u) = 2 /\ u[1] = a1 /\ u[2] = b1
    BY <1>2, <2>1, <2>2
  <2>4. v \in Seq(Pieces) /\ Len(v) = 2 /\ v[1] = a2 /\ v[2] = b2
    BY <1>2, <2>1, <2>2
  <2>5. PassWork(i, 1, g) = u /\ PassWork(i, 2, g) = v
    BY <1>3, <2>2
  <2>. QED BY <2>3, <2>4, <2>5
<1> DEFINE two == second # <<>>
<1>6. /\ W \in Seq(Pieces) /\ Len(W) = (IF two THEN 4 ELSE 2) /\ W[1] = a1 /\ W[2] = b1
      /\ two => W[3] = a2 /\ W[4] = b2
  <2>0. PICK u \in Seq(Pieces), v \in Seq(Pieces) : u = PassWork(i, 1, g) /\ v = PassWork(i, 2, g)
    BY <1>5
  <2>1. CASE two
    <3>1. W = u \o v
      BY <2>0, <2>1
    <3>2. Len(u) = 2 /\ Len(v) = 2 /\ u[1] = a1 /\ u[2] = b1 /\ v[1] = a2 /\ v[2] = b2
      BY <1>5, <2>0
    <3>3. /\ u \o v \in Seq(Pieces) /\ Len(u \o v) = Len(u) + Len(v)
          /\ \A n \in 1..Len(u) : (u \o v)[n] = u[n]
          /\ \A n \in 1..Len(v) : (u \o v)[Len(u) + n] = v[n]
      BY <2>0
    <3>4. /\ 1 \in 1..Len(u) /\ 2 \in 1..Len(u) /\ 1 \in 1..Len(v) /\ 2 \in 1..Len(v)
          /\ Len(u) + 1 = 3 /\ Len(u) + 2 = 4 /\ Len(u) + Len(v) = 4
      BY <3>2
    <3>5. W[1] = a1 /\ W[2] = b1 /\ W[3] = a2 /\ W[4] = b2
      BY <3>1, <3>2, <3>3, <3>4
    <3>. QED BY <2>1, <3>1, <3>3, <3>4, <3>5
  <2>2. CASE ~ two
    <3>1. W = u /\ u \o <<>> = u
      BY <2>0, <2>2
    <3>. QED BY <1>5, <2>0, <2>2, <3>1
  <2>. QED BY <2>1, <2>2
<1>7. ASSUME NEW n \in 1..Len(W) PROVE n = 1 \/ n = 2 \/ (two /\ n = 3) \/ (two /\ n = 4)
  BY <1>6, <1>7
<1>8. ASSUME NEW m \in 1..Len(W), NEW n \in 1..Len(W), m < n PROVE Ahead(W[m], W[n])
  <2>1. /\ m = 1 \/ m = 2 \/ (two /\ m = 3)
        /\ m = 1 => n = 2 \/ (two /\ n = 3) \/ (two /\ n = 4)
        /\ m = 2 => (two /\ n = 3) \/ (two /\ n = 4)
        /\ m = 3 => n = 4
    BY <1>7, <1>8
  <2>2. W[1] = a1 /\ W[2] = b1 /\ (two => W[3] = a2 /\ W[4] = b2)
    BY <1>6
  <2>. QED BY Zenon, <1>4, <2>1, <2>2
<1>9. ASSUME NEW n \in 1..Len(W)
      PROVE  /\ W[n].i = i /\ W[n].work \in {"insert", "lookup"} /\ W[n].k \in Passes
             /\ W[n].k = 2 => two
             /\ W[n].work = "insert" => /\ n + 1 \in 1..Len(W)
                                        /\ W[n + 1].work = "lookup" /\ W[n + 1].k = W[n].k
                                        /\ W[n].after = {<<"main", g>>}
             /\ W[n].work = "lookup" => /\ n - 1 \in 1..Len(W) /\ W[n - 1].work = "insert"
                                        /\ W[n].after = {}
  <2>1. CASE n = 1
    <3>1. W[n] = a1 /\ n + 1 \in 1..Len(W) /\ W[n + 1] = b1
      BY <1>6, <2>1
    <3>. QED BY <1>1, <1>2, <2>1, <3>1
  <2>2. CASE n = 2
    <3>1. W[n] = b1 /\ n - 1 \in 1..Len(W) /\ W[n - 1] = a1
      BY <1>6, <2>2
    <3>. QED BY <1>1, <1>2, <2>2, <3>1
  <2>3. CASE two /\ n = 3
    <3>1. W[n] = a2 /\ n + 1 \in 1..Len(W) /\ W[n + 1] = b2
      BY <1>6, <2>3
    <3>. QED BY <1>1, <1>2, <2>3, <3>1
  <2>4. CASE two /\ n = 4
    <3>0. Len(W) = 4 /\ W[3] = a2 /\ W[4] = b2
      BY <1>6, <2>4
    <3>1. W[n] = b2 /\ n - 1 \in 1..Len(W) /\ W[n - 1] = a2
      BY <2>4, <3>0
    <3>. QED BY <1>1, <1>2, <2>4, <3>1
  <2>. QED BY <1>7, <2>1, <2>2, <2>3, <2>4
<1>10. ASSUME NEW p \in Passes, p = 1 \/ two
       PROVE  \E n \in 1..Len(W) : W[n].work = "lookup" /\ W[n].k = p
  <2>1. CASE p = 1
    <3>1. 2 \in 1..Len(W) /\ W[2].work = "lookup" /\ W[2].k = 1
      BY <1>1, <1>6
    <3>. QED BY <2>1, <3>1
  <2>2. CASE p = 2
    <3>1. 4 \in 1..Len(W) /\ W[4].work = "lookup" /\ W[4].k = 2
      BY <1>1, <1>6, <1>10, <2>2
    <3>. QED BY <2>2, <3>1
  <2>. QED BY <2>1, <2>2 DEF Passes
<1>. QED BY <1>6, <1>8, <1>9, <1>10 DEF InPasses

(* What the host queues leaves in order what is queued. *)
LEMMA PrefetchOrder ==
    ASSUME Depth = 1, Order, NEW P \in [Passes -> SUBSET Idx], Prefetch(P), NEW now, now = nextP
    PROVE  Order' /\ SameUpTo(now) /\ \A p \in Passes : batch'[now][p] = {} \/ ToLookUp(now, p)'
<1> USE DEF Order
<1>1. PICK z \in Streams, i \in Nat, g \in Nat : z = side /\ i = nextP /\ g = gate
  BY DEF Turns
<1>2. PICK second : second = IF P[2] = {} THEN <<>> ELSE PassWork(i, 2, g)
  OBVIOUS
<1>3. PICK W : W = PassWork(i, 1, g) \o second
  OBVIOUS
<1>w. /\ W \in Seq(Pieces) /\ Len(W) \in {2, 4}
      /\ \A n \in 1..Len(W) :
            /\ W[n].i = i /\ W[n].work \in {"insert", "lookup"} /\ W[n].k \in Passes
            /\ W[n].k = 2 => second # <<>>
            /\ W[n].work = "insert" => /\ n + 1 \in 1..Len(W)
                                       /\ W[n + 1].work = "lookup" /\ W[n + 1].k = W[n].k
                                       /\ W[n].after = {<<"main", g>>}
            /\ W[n].work = "lookup" => /\ n - 1 \in 1..Len(W) /\ W[n - 1].work = "insert"
                                       /\ W[n].after = {}
      /\ \A m, n \in 1..Len(W) : m < n => Ahead(W[m], W[n])
      /\ \A p \in Passes : p = 1 \/ second # <<>> =>
            \E n \in 1..Len(W) : W[n].work = "lookup" /\ W[n].k = p
  <2>1. second \in {<<>>, PassWork(i, 2, g)}
    BY <1>2
  <2>2. InPasses(W, i, g, second)
    BY <1>1, <1>3, <2>1, PrefetchWork
  <2>. QED BY <2>2 DEF InPasses
<1>4. /\ W \in Seq(Pieces) /\ todo' = [todo EXCEPT ![z] = @ \o W] /\ ran' = ran
      /\ UNCHANGED <<pipeline, lfu, side, nextF, nextB, gate>> /\ Gap' = Gap
      /\ nextP' = i + 1 /\ batch' = [batch EXCEPT ![i] = P]
  <2>1. todo' = [todo EXCEPT ![z] = (@ \o PassWork(i, 1, g)) \o second]
    BY <1>1, <1>2 DEF Prefetch, PassWork
  <2>2. PassWork(i, 1, g) \in Seq(Pieces) /\ PassWork(i, 2, g) \in Seq(Pieces)
    <3>1. \A a, b \in Pieces : <<a, b>> \in Seq(Pieces)
      OBVIOUS
    <3>2. \A p \in {1, 2} : /\ Work("insert", i, p, {<<"main", g>>}) \in Pieces
                            /\ Work("lookup", i, p, {}) \in Pieces
      BY <1>1 DEF Work, Pieces, Streams
    <3>. QED BY <3>1, <3>2 DEF PassWork
  <2>3. (todo[z] \o PassWork(i, 1, g)) \o second = todo[z] \o W
    <3>1. todo[z] \in Seq(Pieces) /\ second \in Seq(Pieces)
      BY <1>2, <2>2 DEF StreamsOK
    <3>2. PICK t \in Seq(Pieces), u \in Seq(Pieces), v \in Seq(Pieces) :
              t = todo[z] /\ u = PassWork(i, 1, g) /\ v = second
      BY <2>2, <3>1
    <3>3. (t \o u) \o v = t \o (u \o v)
      BY ConcatAssociative
    <3>. QED BY <1>3, <3>2, <3>3
  <2>4. todo' = [todo EXCEPT ![z] = @ \o W]
    BY <1>1, <2>1, <2>3 DEF StreamsOK
  <2>. QED BY <1>1, <1>w, <2>4 DEF Prefetch, Gap
<1>5. /\ i \in Batches /\ i <= MaxBatches /\ (P[2] # {} => pipeline)
      /\ i < nextB + Gap /\ nextB <= i /\ nextF <= i
  BY <1>1, <1>2, UVMConstants DEF Prefetch, Turns, Gap, Batches
<1> DEFINE New(q) == q \in Queue(z)' /\ q \notin Queue(z)
<1>6. /\ \A t \in Streams :
             /\ Queue(t) \subseteq Queue(t)' /\ (t # z => Queue(t)' = Queue(t) /\ End(t)' = End(t))
             /\ \A q \in Queue(t) : Piece(t, q)' = Piece(t, q) /\ q <= End(t)
             /\ \A q \in Queue(t)' : Piece(t, q)' \in Pieces /\ q \in Nat
             /\ End(t) \in Nat
      /\ "main" \in Streams /\ "prefetch" \in Streams
  BY <1>4, Extend DEF Streams
<1>7. \A q : New(q) => \E n \in 1..Len(W) : q = End(z) + n
  BY <1>4, Extend
<1>8. \A n \in 1..Len(W), q \in Nat : q = End(z) + n => q \in Queue(z)' /\ Piece(z, q)' = W[n]
  BY <1>4, Extend
<1>9. \A q : New(q) => /\ q > End(z) /\ q \in Nat /\ Inserting(z, q)' /\ Piece(z, q)'.i = i
                       /\ Piece(z, q)'.k \in Passes /\ (Piece(z, q)'.k = 2 => pipeline)
                       /\ Piece(z, q)'.work = "lookup" => Piece(z, q)'.after = {}
  <2> SUFFICES ASSUME NEW q, New(q)
               PROVE  /\ q > End(z) /\ q \in Nat /\ Inserting(z, q)' /\ Piece(z, q)'.i = i
                      /\ Piece(z, q)'.k \in Passes /\ (Piece(z, q)'.k = 2 => pipeline)
                      /\ Piece(z, q)'.work = "lookup" => Piece(z, q)'.after = {}
    OBVIOUS
  <2>1. PICK n \in 1..Len(W) : q = End(z) + n
    BY <1>7
  <2>2. q > End(z) /\ q \in Nat /\ Piece(z, q)' = W[n]
    BY <1>6, <1>8, <2>1
  <2>. QED BY <1>2, <1>5, <2>1, <2>2, <1>w DEF Inserting
<1>10. \A t \in Streams : \A q \in Queue(t)' : q \in Queue(t) \/ (t = z /\ New(q))
  BY <1>6
<1>11. \A t \in Streams : \A q \in Queue(t) :
          /\ Inserting(t, q)' <=> Inserting(t, q)
          /\ \A w, j : Is(t, q, w, j)' <=> Is(t, q, w, j)
  BY <1>6 DEF Inserting, Is
<1>12. \A r \in Queue("main")' : ~ Inserting("main", r)' => r \in Queue("main") /\ ~ Inserting("main", r)
  BY <1>6, <1>9, <1>10, <1>11
<1>13. \A u, t \in Streams : \A q, r : Before(u, q, t, r) => Before(u, q, t, r)'
  BY <1>4, BeforeExtends
\* What is prefetched now comes after all training queued.
<1>14. ASSUME NEW q, New(q), NEW r \in Queue("main"), Piece("main", r).work \in {"unlock", "backward"}
       PROVE  Before("main", r, z, q)'
  <2>1. CASE z = "main"
    BY <1>6, <1>9, <1>14, <2>1 DEF Before
  <2>2. CASE z # "main"
    <3>1. r <= g
      BY <1>1, <1>14, <2>2 DEF Gated, Streams
    <3>2. PICK n \in 1..Len(W) : q = End(z) + n
      BY <1>7, <1>14
    <3>3. PICK m \in 1..Len(W) : m <= n /\ W[m].after = {<<"main", g>>}
      <4>1. W[n].work = "lookup" => n - 1 \in 1..Len(W) /\ W[n - 1].work = "insert"
        BY <1>w
      <4>2. \A m \in 1..Len(W) : W[m].work = "insert" => W[m].after = {<<"main", g>>}
        BY <1>w
      <4>3. W[n].work \in {"insert", "lookup"}
        BY <1>w
      <4>4. n - 1 <= n /\ n <= n
        OBVIOUS
      <4>. QED BY <4>1, <4>2, <4>3, <4>4
    <3>4. PICK e \in Nat : e = End(z) + m
      BY <1>6
    <3>5. e \in Queue(z)' /\ e <= q /\ Piece(z, e)'.after = {<<"main", g>>}
      BY <1>6, <1>8, <3>2, <3>3, <3>4
    <3>6. \E p \in Piece(z, e)'.after : p[1] = "main" /\ p[2] >= r
      BY <3>1, <3>5
    <3>. QED BY <2>2, <3>5, <3>6 DEF Before
  <2>. QED BY <2>1, <2>2
<1>15. StreamsOK' /\ Turns'
  <2>1. StreamsOK'
    BY <1>4, Extend
  <2>2. /\ batch' \in [Batches -> [Passes -> SUBSET Idx]]
        /\ \A j \in Batches, p \in Passes : j >= nextP' => batch'[j][p] = {}
        /\ pipeline' \/ \A j \in Batches : batch'[j][2] = {}
    BY <1>1, <1>4, <1>5 DEF Turns, Batches
  <2>3. nextP' \in Nat /\ nextF' <= nextP' /\ nextP' <= nextB' + Gap' /\ nextP' <= MaxBatches + 1
    BY <1>4, <1>5, UVMConstants DEF Turns, Gap
  <2>. QED BY <1>4, <2>1, <2>2, <2>3 DEF Turns
<1>16. Contents'
  <2> SUFFICES ASSUME NEW t \in Streams, NEW q \in Queue(t)' PROVE ContentOf(t, q)'
    BY DEF Contents
  <2>1. CASE q \in Queue(t)
    <3>1. ContentOf(t, q) /\ Piece(t, q)' = Piece(t, q) /\ Piece(t, q) \in Pieces
      BY <1>6, <2>1, QueueFacts DEF Contents
    <3>2. Inserting(t, q) => Piece(t, q).i \in 1..(nextP' - 1)
      BY <1>1, <1>4, <3>1 DEF ContentOf
    <3>. QED BY <1>4, <1>11, <2>1, <3>1, <3>2 DEF ContentOf
  <2>2. CASE t = z /\ New(q)
    <3>1. Piece(z, q)'.work \in {"insert", "lookup"}
      BY <1>9, <2>2 DEF Inserting
    <3>2. i \in 1..(nextP' - 1)
      BY <1>4, <1>5 DEF Batches
    <3>. QED BY <1>1, <1>4, <1>9, <2>2, <3>1, <3>2 DEF ContentOf
  <2>. QED BY <1>10, <2>1, <2>2
<1>17. MainOrder'
  BY <1>6, <1>12 DEF MainOrder, Training
<1>18. MainPairs'
  <2> SUFFICES ASSUME NEW r \in Queue("main")', ~ Inserting("main", r)'
               PROVE  /\ Piece("main", r)'.work = "unlock" =>
                            r + 1 \in Queue("main")' /\ Is("main", r + 1, "backward", Piece("main", r).i)'
                      /\ Piece("main", r)'.work = "backward" /\ pipeline' /\ r - 1 \in Queue("main")' =>
                            Piece("main", r - 1)'.work = "unlock"
    BY DEF MainPairs, Inserting
  <2>1. r \in Queue("main") /\ Piece("main", r)' = Piece("main", r) /\ r \in Nat /\ r <= End("main")
    BY <1>6, <1>12
  <2>2. r - 1 \in Queue("main")' => r - 1 \in Queue("main")
    BY <1>6, <1>9, <1>10, <2>1
  <2>. QED BY <1>4, <1>6, <2>1, <2>2 DEF MainPairs, Is
<1>19. SideOrder'
  <2> SUFFICES ASSUME NEW t \in Streams, NEW q \in Queue(t)', NEW r \in Queue(t)', q < r,
                      Inserting(t, q)', Inserting(t, r)'
               PROVE  Ahead(Piece(t, q), Piece(t, r))'
    BY DEF SideOrder
  <2>1. CASE q \in Queue(t) /\ r \in Queue(t)
    BY <1>6, <1>11, <2>1 DEF SideOrder
  <2>2. CASE q \in Queue(t) /\ t = z /\ New(r)
    <3>1. Piece(t, q)' = Piece(t, q) /\ Piece(t, q).i \in 1..(nextP - 1)
      BY <1>6, <1>11, <2>2 DEF Contents, ContentOf
    <3>. QED BY <1>1, <1>9, <2>2, <3>1 DEF Ahead
  <2>3. CASE t = z /\ New(q) /\ r \in Queue(t)
    BY <1>6, <1>9, <2>3
  <2>4. CASE t = z /\ New(q) /\ New(r)
    <3>1. PICK m \in 1..Len(W), n \in 1..Len(W) : q = End(z) + m /\ r = End(z) + n
      BY <1>7, <2>4
    <3>2. m < n /\ Piece(z, q)' = W[m] /\ Piece(z, r)' = W[n]
      BY <1>6, <1>8, <2>4, <3>1
    <3>3. Ahead(W[m], W[n])
      BY <3>2, <1>w
    <3>. QED BY <2>4, <3>2, <3>3
  <2>. QED BY <1>10, <2>1, <2>2, <2>3, <2>4
<1>20. SidePairs'
  <2> SUFFICES ASSUME NEW t \in Streams, NEW q \in Queue(t)'
               PROVE  /\ Piece(t, q)'.work = "insert" =>
                            /\ q + 1 \in Queue(t)' /\ Is(t, q + 1, "lookup", Piece(t, q).i)'
                            /\ Piece(t, q + 1)'.k = Piece(t, q)'.k
                      /\ Piece(t, q)'.work = "lookup" /\ q - 1 \in Queue(t)' =>
                            Piece(t, q - 1)'.work = "insert"
    BY DEF SidePairs
  <2>1. CASE q \in Queue(t)
    <3>1. Piece(t, q)' = Piece(t, q) /\ q \in Nat /\ q <= End(t)
      BY <1>6, <2>1
    <3>2. q - 1 \in Queue(t)' => q - 1 \in Queue(t)
      BY <1>6, <1>9, <1>10, <3>1
    <3>. QED BY <1>6, <2>1, <3>1, <3>2 DEF SidePairs, Is
  <2>2. CASE t = z /\ New(q)
    <3>1. PICK n \in 1..Len(W) : q = End(z) + n
      BY <1>7, <2>2
    <3>2. Piece(z, q)' = W[n] /\ q \in Nat /\ End(z) \in Nat
      BY <1>6, <1>8, <2>2, <3>1
    <3>3. ASSUME W[n].work = "insert"
          PROVE  q + 1 \in Queue(z)' /\ Piece(z, q + 1)' = W[n + 1] /\ W[n + 1].work = "lookup"
                 /\ W[n + 1].i = W[n].i /\ W[n + 1].k = W[n].k
      <4>1. n + 1 \in 1..Len(W) /\ W[n + 1].work = "lookup" /\ W[n + 1].k = W[n].k
            /\ W[n + 1].i = i /\ W[n].i = i
        BY <3>3, <1>w
      <4>2. q + 1 \in Nat /\ q + 1 = End(z) + (n + 1)
        BY <3>1, <3>2
      <4>. QED BY <1>8, <4>1, <4>2
    <3>4. ASSUME W[n].work = "lookup" PROVE Piece(z, q - 1)'.work = "insert"
      <4>1. n - 1 \in 1..Len(W) /\ W[n - 1].work = "insert"
        BY <3>4, <1>w
      <4>2. q - 1 \in Nat /\ q - 1 = End(z) + (n - 1)
        BY <3>1, <3>2, <4>1
      <4>. QED BY <1>8, <4>1, <4>2
    <3>. QED BY <2>2, <3>2, <3>3, <3>4 DEF Is
  <2>. QED BY <1>10, <2>1, <2>2
<1>21. LookedUpFirst'
  <2> SUFFICES ASSUME NEW t \in Streams, NEW q \in Queue(t)', NEW r \in Queue("main")', Inserting(t, q)',
                      Piece("main", r)'.work \in {"forward", "unlock", "backward"},
                      Piece(t, q)'.i <= Piece("main", r)'.i
               PROVE  Before(t, q, "main", r)'
    BY DEF LookedUpFirst
  <2>1. r \in Queue("main") /\ Piece("main", r)' = Piece("main", r)
        /\ Piece("main", r).work \in {"forward", "unlock", "backward"} /\ Piece("main", r) \in Pieces
    BY <1>6, <1>12, QueueFacts DEF Inserting
  <2>2. CASE q \in Queue(t)
    BY <1>6, <1>11, <1>13, <2>1, <2>2 DEF LookedUpFirst
  <2>3. CASE t = z /\ New(q)
    <3>1. Piece("main", r).i < i
      BY <1>1, <1>5, <1>6, <2>1 DEF Contents, ContentOf, Turns, Pieces
    <3>. QED BY <1>9, <2>1, <2>3, <3>1 DEF Pieces
  <2>. QED BY <1>10, <2>2, <2>3
<1>22. KeptApart'
  <2> SUFFICES ASSUME NEW t \in Streams, NEW q \in Queue(t)', NEW r \in Queue("main")', Inserting(t, q)',
                      Piece("main", r)'.work \in {"unlock", "backward"}
               PROVE  Before(t, q, "main", r)' \/ Before("main", r, t, q)'
    BY DEF KeptApart
  <2>1. r \in Queue("main") /\ Piece("main", r)' = Piece("main", r)
        /\ Piece("main", r).work \in {"unlock", "backward"}
    BY <1>6, <1>12 DEF Inserting
  <2>2. CASE q \in Queue(t)
    BY <1>6, <1>11, <1>13, <2>1, <2>2 DEF KeptApart
  <2>3. CASE t = z /\ New(q)
    BY <1>14, <2>1, <2>3
  <2>. QED BY <1>10, <2>2, <2>3
<1>23. TrainedFirst'
  <2> SUFFICES ASSUME NEW t \in Streams, NEW q \in Queue(t)', NEW r \in Queue("main")', Inserting(t, q)',
                      Piece("main", r)'.work = "backward", Piece("main", r)'.i + Gap' <= Piece(t, q)'.i
               PROVE  Before("main", r, t, q)'
    BY DEF TrainedFirst
  <2>1. r \in Queue("main") /\ Piece("main", r)' = Piece("main", r)
        /\ Piece("main", r).work = "backward"
    BY <1>6, <1>12 DEF Inserting
  <2>2. CASE q \in Queue(t)
    BY <1>4, <1>6, <1>11, <1>13, <2>1, <2>2 DEF TrainedFirst
  <2>3. CASE t = z /\ New(q)
    BY <1>14, <2>1, <2>3
  <2>. QED BY <1>10, <2>2, <2>3
<1>25. Gated'
  BY <1>4, <1>6, <1>12 DEF Gated, Inserting
<1>26. \A j : /\ IsTrained(j)' => IsTrained(j)
              /\ Unlocked(j)' => Unlocked(j)
  BY <1>4, <1>6, <1>11 DEF IsTrained, Unlocked, Queued
<1>27. TrainedIsOver'
  BY <1>6, <1>12, <1>26 DEF TrainedIsOver, Training
<1>28. InsertedIsOver'
  <2> SUFFICES ASSUME NEW j \in Batches, ToInsert(j)' PROVE ~ IsTrained(j)' /\ ~ Unlocked(j)'
    BY DEF InsertedIsOver
  <2>1. PICK t \in Streams : \E q \in Queue(t)' : Inserting(t, q)' /\ Piece(t, q)'.i = j
    BY DEF ToInsert
  <2>2. PICK q \in Queue(t)' : Inserting(t, q)' /\ Piece(t, q)'.i = j
    BY <2>1
  <2>3. CASE q \in Queue(t)
    BY <1>6, <1>11, <1>26, <2>2, <2>3 DEF InsertedIsOver, ToInsert
  <2>4. CASE t = z /\ New(q)
    <3>1. j = i /\ ~ (j < nextB')
      BY <1>4, <1>5, <1>9, <2>2, <2>4 DEF Turns
    <3>. QED BY <3>1 DEF IsTrained, Unlocked
  <2>. QED BY <1>10, <2>3, <2>4
<1>29. \A j : IsTrained(j) => IsTrained(j)'
  <2>1. \A j : Queued("backward", j)' => Queued("backward", j)
    BY <1>6, <1>11, <1>12 DEF Queued, Is, Inserting
  <2>. QED BY <1>4, <2>1 DEF IsTrained
<1>30. \A j : Unlocked(j) => Unlocked(j)'
  <2>1. \A j : Queued("unlock", j)' => Queued("unlock", j)
    BY <1>6, <1>11, <1>12 DEF Queued, Is, Inserting
  <2>. QED BY <1>4, <2>1 DEF Unlocked
<1>31. ASSUME NEW j, j # i
       PROVE  /\ ToInsert(j)' <=> ToInsert(j)
              /\ \A p : ToLookUp(j, p)' <=> ToLookUp(j, p)
  <2>1. \A t \in Streams : \A q \in Queue(t)' : Piece(t, q)'.i = j => q \in Queue(t)
    BY <1>9, <1>10, <1>31
  <2>2. ToInsert(j)' <=> ToInsert(j)
    BY <1>6, <1>11, <2>1 DEF ToInsert
  <2>3. \A p : ToLookUp(j, p)' <=> ToLookUp(j, p)
    BY <1>6, <1>11, <2>1 DEF ToLookUp, Is
  <2>. QED BY <2>2, <2>3
<1>32. ASSUME NEW j, NEW k PROVE Mid(j, k)' <=> Mid(j, k)
  <2>1. ASSUME NEW t \in Streams, NEW q \in Queue(t)', q = ran[t] + 1, Piece(t, q)'.work = "lookup"
        PROVE  q \in Queue(t)
    <3>1. SUFFICES ASSUME t = z, New(q) PROVE FALSE
      BY <1>10
    <3>2. PICK n \in 1..Len(W) : q = End(z) + n
      BY <1>7, <3>1
    <3>3. Piece(z, q)' = W[n] /\ q \in Nat
      BY <1>6, <1>8, <3>1, <3>2
    <3>4. n - 1 \in 1..Len(W)
      BY <2>1, <3>1, <3>2, <3>3, <1>w
    <3>5. End(z) \in Nat /\ ran[z] \in Nat /\ ran[z] <= End(z)
      BY DEF StreamsOK, End
    <3>. QED BY <2>1, <3>1, <3>2, <3>4, <3>5
  <2>. QED BY <1>4, <1>6, <1>11, <2>1 DEF Mid, Is
<1>33. ASSUME NEW p \in Passes PROVE batch'[i][p] = {} \/ ToLookUp(i, p)'
  <2>1. batch'[i] = P
    BY <1>4, <1>5 DEF Turns
  <2>2. SUFFICES ASSUME p = 1 \/ second # <<>> PROVE ToLookUp(i, p)'
    <3>1. p = 1 \/ p = 2
      BY DEF Passes
    <3>2. second = <<>> => P[2] = {}
      <4>1. <<>> # PassWork(i, 2, g)
        BY DEF PassWork
      <4>. QED BY <1>2, <4>1
    <3>. QED BY <2>1, <3>1, <3>2
  <2>3. PICK n \in 1..Len(W) : W[n].work = "lookup" /\ W[n].k = p /\ W[n].i = i
    BY <2>2, <1>w
  <2>4. PICK q \in Nat : q = End(z) + n
    BY <1>6
  <2>5. q \in Queue(z)' /\ Piece(z, q)' = W[n]
    BY <1>8, <2>4
  <2>. QED BY <2>3, <2>5 DEF ToLookUp, Is
<1>34. SameUpTo(i)
  BY <1>4, <1>5, <1>26, <1>29, <1>30, <1>31, <1>32 DEF SameUpTo, Turns
<1>. QED BY <1>1, <1>15, <1>16, <1>17, <1>18, <1>19, <1>20, <1>21, <1>22, <1>23, <1>25, <1>27, <1>28,
            <1>33, <1>34

(* The work W of a forward, a backward or a flush, queued on main after e.  *)
(* All but a flush waits for what is prefetched.                            *)
QueuesTraining(W, e) ==
    /\ W \in Seq(Pieces) /\ Len(W) > 0
    /\ todo' = [todo EXCEPT !["main"] = @ \o W] /\ ran' = ran
    /\ UNCHANGED <<pipeline, side, nextP, batch>>
    /\ nextF' \in Nat /\ gate' \in Nat /\ nextB' \in {nextB, nextB + 1}
    /\ nextF <= nextF' /\ nextB' <= nextF' /\ nextF' <= nextB' + 1 /\ nextF' <= nextP
    /\ \A n \in 1..Len(W) :
          /\ W[n].work \in {"forward", "unlock", "backward", "flush"} /\ W[n].i = nextB
          /\ W[n].work = "forward" => nextB < nextF'
          /\ W[n].work = "unlock" =>
                n + 1 \in 1..Len(W) /\ W[n + 1].work = "backward" /\ pipeline /\ nextB' = nextB + 1
          /\ W[n].work = "backward" =>
                /\ n = Len(W) /\ nextB' = nextB + 1
                /\ pipeline => n - 1 \in 1..Len(W) /\ W[n - 1].work = "unlock"
          /\ W[n].work \in {"backward", "flush"} => W[n].after = {}
    /\ nextB' = nextB + 1 => W[Len(W)].work = "backward"
    /\ side = "prefetch" =>
          /\ gate' = IF nextB' = nextB THEN gate ELSE e + Len(W)
          /\ \A q \in Queue("prefetch"), n \in 1..Len(W) :
                W[n].work # "flush" => Before("prefetch", q, "main", e + n)'

LEMMA TrainOrder ==
    ASSUME Order, NEW W, NEW e \in Nat, e = End("main"), QueuesTraining(W, e)
    PROVE  Order' /\ SameUpTo(0)
<1> USE DEF Order
<1>1. /\ W \in Seq(Pieces) /\ Len(W) > 0 /\ Len(W) \in Nat
      /\ todo' = [todo EXCEPT !["main"] = @ \o W] /\ ran' = ran
      /\ UNCHANGED <<pipeline, side, nextP, batch>> /\ Gap' = Gap
      /\ "main" \in Streams /\ "prefetch" \in Streams
  BY DEF QueuesTraining, Gap, Streams
<1>w. /\ \A n \in 1..Len(W) :
            /\ W[n].work \in {"forward", "unlock", "backward", "flush"} /\ W[n].i = nextB
            /\ W[n].work = "forward" => nextB < nextF'
            /\ W[n].work = "unlock" =>
                  n + 1 \in 1..Len(W) /\ W[n + 1].work = "backward" /\ pipeline /\ nextB' = nextB + 1
            /\ W[n].work = "backward" =>
                  /\ n = Len(W) /\ nextB' = nextB + 1
                  /\ pipeline => n - 1 \in 1..Len(W) /\ W[n - 1].work = "unlock"
            /\ W[n].work \in {"backward", "flush"} => W[n].after = {}
      /\ nextB' = nextB + 1 => W[Len(W)].work = "backward"
  BY DEF QueuesTraining
<1>5. /\ nextB \in Nat /\ nextB' \in Nat /\ nextF' \in Nat /\ nextP \in Nat /\ nextB <= nextB'
      /\ nextF <= nextF' /\ 1 <= nextB
      /\ nextB' \in {nextB, nextB + 1} /\ nextP <= nextB + Gap /\ Gap \in {1, 2}
  <2>1. nextB' \in {nextB, nextB + 1} /\ nextF <= nextF' /\ nextF' \in Nat
    BY DEF QueuesTraining
  <2>2. nextB \in Nat /\ nextP \in Nat /\ 1 <= nextB /\ nextP <= nextB + Gap
    BY DEF Turns
  <2>3. Gap \in {1, 2}
    BY DEF Gap
  <2>. QED BY <2>1, <2>2, <2>3
<1> DEFINE New(q) == q \in Queue("main")' /\ q \notin Queue("main")
<1>6. /\ \A t \in Streams :
             /\ Queue(t) \subseteq Queue(t)' /\ (t # "main" => Queue(t)' = Queue(t) /\ End(t)' = End(t))
             /\ \A q \in Queue(t) : Piece(t, q)' = Piece(t, q) /\ q <= End(t)
             /\ \A q \in Queue(t)' : Piece(t, q)' \in Pieces /\ q \in Nat
      /\ End("main")' = e + Len(W) /\ StreamsOK'
  BY <1>1, Extend
<1>7. \A q : New(q) => \E n \in 1..Len(W) : q = e + n
  <2>1. PICK z \in Streams : z = "main"
    BY <1>1
  <2>2. \A q \in Queue(z)' : q \in Queue(z) \/ \E n \in 1..Len(W) : q = End(z) + n
    BY <1>1, <2>1, Extend
  <2>. QED BY <2>1, <2>2
<1>8. \A n \in 1..Len(W), q \in Nat : q = e + n => q \in Queue("main")' /\ Piece("main", q)' = W[n]
  <2>0. PICK z \in Streams : z = "main"
    BY <1>1
  <2>1. z \in Streams /\ z = "main" /\ W \in Seq(Pieces) /\ todo' = [todo EXCEPT ![z] = @ \o W] /\ ran' = ran
    BY <1>1, <2>0
  <2>2. \A n \in 1..Len(W), q \in Nat : q = End(z) + n => q \in Queue(z)' /\ Piece(z, q)' = W[n]
    BY <2>1, Extend
  <2>. QED BY <2>1, <2>2
<1>9. \A q : New(q) => /\ q > e /\ q \in Nat /\ ~ Inserting("main", q)' /\ Piece("main", q)'.i = nextB
  <2> SUFFICES ASSUME NEW q, New(q)
               PROVE  q > e /\ q \in Nat /\ ~ Inserting("main", q)' /\ Piece("main", q)'.i = nextB
    OBVIOUS
  <2>1. PICK n \in 1..Len(W) : q = e + n
    BY <1>7
  <2>2. q > e /\ q \in Nat /\ Piece("main", q)' = W[n]
    BY <1>1, <1>8, <2>1
  <2>. QED BY <2>1, <2>2, <1>w DEF Inserting
<1>10. \A t \in Streams : \A q \in Queue(t)' : q \in Queue(t) \/ (t = "main" /\ New(q))
  BY <1>6
<1>11. \A t \in Streams : \A q \in Queue(t) :
          /\ Inserting(t, q)' <=> Inserting(t, q)
          /\ \A w, j : Is(t, q, w, j)' <=> Is(t, q, w, j)
  BY <1>6 DEF Inserting, Is
<1>12. \A t \in Streams : \A q \in Queue(t)' : Inserting(t, q)' =>
          q \in Queue(t) /\ Inserting(t, q) /\ Piece(t, q)' = Piece(t, q) /\ Piece(t, q) \in Pieces
          /\ t = side /\ Piece(t, q).i \in 1..(nextP - 1)
  BY <1>6, <1>9, <1>10, <1>11, QueueFacts DEF Contents, ContentOf
<1>13. \A u, t \in Streams : \A q, r : Before(u, q, t, r) => Before(u, q, t, r)'
  BY <1>1, BeforeExtends
\* What is prefetched already comes before the training queued now.
<1>14. ASSUME NEW t \in Streams, NEW q \in Queue(t)', Inserting(t, q)', NEW r, New(r),
              Piece("main", r)'.work # "flush"
       PROVE  Before(t, q, "main", r)'
  <2>1. CASE t = "main"
    BY <1>6, <1>9, <1>12, <1>14, <2>1 DEF Before
  <2>2. CASE t # "main"
    <3>1. t = "prefetch" /\ side = "prefetch" /\ q \in Queue("prefetch")
      BY <1>12, <1>14, <2>2 DEF Streams
    <3>2. PICK n \in 1..Len(W) : r = e + n
      BY <1>7, <1>14
    <3>3. \A p \in Queue("prefetch"), m \in 1..Len(W) :
              W[m].work # "flush" => Before("prefetch", p, "main", e + m)'
      BY <3>1 DEF QueuesTraining
    <3>4. W[n].work # "flush"
      <4>1. Piece("main", r)' = W[n]
        BY <1>8, <1>14, <3>2
      <4>. QED BY <1>14, <4>1
    <3>. QED BY <3>1, <3>2, <3>3, <3>4
  <2>. QED BY <2>1, <2>2
\* Training queued before is of earlier batches, or of this one's forward.
<1>15. ASSUME NEW r \in Queue("main"), ~ Inserting("main", r)
       PROVE  /\ Piece("main", r)' = Piece("main", r) /\ Piece("main", r) \in Pieces /\ r \in Nat
              /\ Piece("main", r).i <= nextB
              /\ Piece("main", r).work \in {"unlock", "backward"} => Piece("main", r).i < nextB
  <2>1. Piece("main", r)' = Piece("main", r) /\ Piece("main", r) \in Pieces /\ r \in Nat
        /\ ContentOf("main", r)
    BY <1>1, <1>6, QueueFacts DEF Contents
  <2>2. Piece("main", r).work \in {"forward", "unlock", "backward", "flush"}
    BY <1>15, <2>1 DEF Pieces, Inserting
  <2>3. nextF = nextB \/ (nextF = nextB + 1)
    BY DEF Turns
  <2>4. Piece("main", r).work = "forward" => Piece("main", r).i <= nextB
    BY <1>5, <2>1, <2>3 DEF ContentOf, Pieces
  <2>. QED BY <1>5, <1>15, <2>1, <2>2, <2>4 DEF ContentOf, Pieces
<1>16. Turns'
  <2>1. nextP <= nextB' + Gap
    <3>1. \A b, c, p, g \in Nat : b <= c /\ p <= b + g => p <= c + g
      OBVIOUS
    <3>2. Gap \in Nat
      BY <1>5
    <3>. QED BY <1>5, <3>1, <3>2
  <2>2. /\ nextF' \in Nat /\ gate' \in Nat
        /\ nextB' <= nextF' /\ nextF' <= nextB' + 1 /\ nextF' <= nextP
    BY DEF QueuesTraining
  <2>3. UNCHANGED <<pipeline, side, nextP, batch>> /\ nextP \in Nat /\ nextP <= nextB' + Gap'
    BY <1>1, <1>5, <2>1
  <2>4. 1 <= nextB' /\ nextB' \in Nat
    BY <1>5
  <2>. QED BY <2>2, <2>3, <2>4 DEF Turns
<1>17. Contents'
  <2> SUFFICES ASSUME NEW t \in Streams, NEW q \in Queue(t)' PROVE ContentOf(t, q)'
    BY DEF Contents
  <2>1. CASE q \in Queue(t)
    <3>1. ContentOf(t, q) /\ Piece(t, q)' = Piece(t, q) /\ Piece(t, q) \in Pieces
      BY <1>6, <2>1, QueueFacts DEF Contents
    <3>2. Piece(t, q).i \in Nat /\ nextF \in Nat
      BY <3>1 DEF Pieces, Turns
    <3>. QED BY <1>1, <1>5, <1>11, <2>1, <3>1, <3>2 DEF ContentOf
  <2>2. CASE t = "main" /\ New(q)
    <3>1. PICK n \in 1..Len(W) : q = e + n
      BY <1>7, <2>2
    <3>2. Piece("main", q)' = W[n] /\ ~ Inserting("main", q)'
      BY <1>8, <1>9, <2>2, <3>1
    <3>3. /\ W[n].i = nextB /\ W[n].work \in {"forward", "unlock", "backward", "flush"}
          /\ W[n].work = "forward" => nextB < nextF'
          /\ W[n].work \in {"unlock", "backward"} => nextB' = nextB + 1
          /\ W[n].work = "unlock" => pipeline
          /\ W[n].work \in {"backward", "flush"} => W[n].after = {}
      BY <3>1, <1>w
    <3>4. CASE W[n].work \in {"forward", "unlock"}
      BY <1>1, <1>5, <2>2, <3>2, <3>3, <3>4 DEF ContentOf
    <3>5. CASE W[n].work \in {"backward", "flush"}
      BY <1>1, <1>5, <2>2, <3>2, <3>3, <3>5 DEF ContentOf
    <3>. QED BY <3>3, <3>4, <3>5
  <2>. QED BY <1>10, <2>1, <2>2
<1>18. MainOrder'
  <2> SUFFICES ASSUME NEW q \in Queue("main")', NEW r \in Queue("main")', q < r,
                      ~ Inserting("main", q)', ~ Inserting("main", r)'
               PROVE  /\ Piece("main", q)'.i <= Piece("main", r)'.i
                      /\ Piece("main", q)'.work = "backward" => Piece("main", q)'.i < Piece("main", r)'.i
    BY DEF MainOrder, Training
  <2>1. CASE q \in Queue("main") /\ r \in Queue("main")
    BY <1>1, <1>6, <1>11, <2>1 DEF MainOrder, Training
  <2>2. CASE q \in Queue("main") /\ New(r)
    BY <1>1, <1>9, <1>11, <1>15, <2>2
  <2>3. CASE New(q) /\ r \in Queue("main")
    BY <1>1, <1>6, <1>9, <2>3
  <2>4. CASE New(q) /\ New(r)
    <3>1. PICK m \in 1..Len(W), n \in 1..Len(W) : q = e + m /\ r = e + n
      BY <1>7, <2>4
    <3>2. m < n /\ Piece("main", q)' = W[m] /\ Piece("main", q)'.i = nextB /\ Piece("main", r)'.i = nextB
      BY <1>8, <1>9, <2>4, <3>1
    <3>3. W[m].work # "backward"
      BY <1>1, <3>2, <1>w
    <3>. QED BY <1>5, <3>2, <3>3
  <2>. QED BY <1>1, <1>10, <2>1, <2>2, <2>3, <2>4
<1>19. MainPairs'
  <2> SUFFICES ASSUME NEW r \in Queue("main")'
               PROVE  /\ Piece("main", r)'.work = "unlock" =>
                            /\ r + 1 \in Queue("main")'
                            /\ Piece("main", r + 1)'.work = "backward"
                            /\ Piece("main", r + 1)'.i = Piece("main", r)'.i
                      /\ Piece("main", r)'.work = "backward" /\ pipeline' /\ r - 1 \in Queue("main")' =>
                            Piece("main", r - 1)'.work = "unlock"
    BY DEF MainPairs, Is
  <2>1. CASE r \in Queue("main")
    <3>1. Piece("main", r)' = Piece("main", r) /\ r \in Nat /\ r <= e
      BY <1>1, <1>6, <2>1
    <3>2. r - 1 \in Queue("main")' => r - 1 \in Queue("main")
      BY <1>1, <1>9, <1>10, <3>1
    <3>. QED BY <1>1, <1>6, <2>1, <3>1, <3>2 DEF MainPairs, Is
  <2>2. CASE New(r)
    <3>1. PICK n \in 1..Len(W) : r = e + n
      BY <1>7, <2>2
    <3>2. Piece("main", r)' = W[n] /\ W[n].i = nextB
      BY <1>8, <1>9, <2>2, <3>1
    <3>3. ASSUME W[n].work = "unlock"
          PROVE  r + 1 \in Queue("main")' /\ Piece("main", r + 1)' = W[n + 1]
                 /\ W[n + 1].work = "backward" /\ W[n + 1].i = nextB
      <4>1. n + 1 \in 1..Len(W) /\ r + 1 = e + (n + 1) /\ r + 1 \in Nat
        <5>1. n + 1 \in 1..Len(W)
          BY <3>3, <1>w
        <5>2. e \in Nat /\ n \in Nat
          BY <3>1, <1>1
        <5>. QED BY <3>1, <5>1, <5>2
      <4>. QED BY <1>8, <3>3, <4>1, <1>w
    <3>4. ASSUME W[n].work = "backward", pipeline PROVE Piece("main", r - 1)' = W[n - 1] /\ W[n - 1].work = "unlock"
      <4>0. n - 1 \in 1..Len(W) /\ W[n - 1].work = "unlock"
        BY <3>1, <3>4, <1>w
      <4>1. r - 1 = e + (n - 1) /\ r - 1 \in Nat
        BY <3>1, <4>0
      <4>. QED BY <1>8, <4>0, <4>1
    <3>. QED BY <1>1, <3>2, <3>3, <3>4
  <2>. QED BY <1>1, <1>10, <2>1, <2>2
<1>20. SideOrder'
  BY <1>6, <1>12 DEF SideOrder
<1>21. SidePairs'
  <2> SUFFICES ASSUME NEW t \in Streams, NEW q \in Queue(t)', Inserting(t, q)'
               PROVE  /\ Piece(t, q)'.work = "insert" =>
                            /\ q + 1 \in Queue(t)' /\ Is(t, q + 1, "lookup", Piece(t, q).i)'
                            /\ Piece(t, q + 1)'.k = Piece(t, q)'.k
                      /\ Piece(t, q)'.work = "lookup" /\ q - 1 \in Queue(t)' =>
                            Piece(t, q - 1)'.work = "insert"
    BY DEF SidePairs, Inserting
  <2>1. q \in Queue(t) /\ Piece(t, q)' = Piece(t, q) /\ q \in Nat /\ q <= End(t)
    BY <1>6, <1>12
  <2>2. q - 1 \in Queue(t)' => q - 1 \in Queue(t)
    BY <1>6, <1>9, <1>10, <2>1
  <2>. QED BY <1>6, <2>1, <2>2 DEF SidePairs, Is
<1>22. LookedUpFirst'
  <2> SUFFICES ASSUME NEW t \in Streams, NEW q \in Queue(t)', NEW r \in Queue("main")', Inserting(t, q)',
                      Piece("main", r)'.work \in {"forward", "unlock", "backward"},
                      Piece(t, q)'.i <= Piece("main", r)'.i
               PROVE  Before(t, q, "main", r)'
    BY DEF LookedUpFirst
  <2>1. CASE r \in Queue("main")
    BY <1>1, <1>6, <1>12, <1>13, <2>1 DEF LookedUpFirst
  <2>. QED BY <1>1, <1>10, <1>14, <2>1
<1>23. KeptApart'
  <2> SUFFICES ASSUME NEW t \in Streams, NEW q \in Queue(t)', NEW r \in Queue("main")', Inserting(t, q)',
                      Piece("main", r)'.work \in {"unlock", "backward"}
               PROVE  Before(t, q, "main", r)' \/ Before("main", r, t, q)'
    BY DEF KeptApart
  <2>1. CASE r \in Queue("main")
    BY <1>1, <1>6, <1>12, <1>13, <2>1 DEF KeptApart
  <2>. QED BY <1>1, <1>10, <1>14, <2>1
<1>24. TrainedFirst'
  <2> SUFFICES ASSUME NEW t \in Streams, NEW q \in Queue(t)', NEW r \in Queue("main")', Inserting(t, q)',
                      Piece("main", r)'.work = "backward", Piece("main", r)'.i + Gap' <= Piece(t, q)'.i
               PROVE  Before("main", r, t, q)'
    BY DEF TrainedFirst
  <2>1. CASE r \in Queue("main")
    BY <1>1, <1>6, <1>12, <1>13, <2>1 DEF TrainedFirst
  <2>2. CASE New(r)
    <3>1. nextB + Gap <= Piece(t, q).i /\ Piece(t, q).i \in 1..(nextP - 1)
      BY <1>1, <1>9, <1>12, <2>2
    <3>. QED BY <1>5, <3>1
  <2>. QED BY <1>1, <1>10, <2>1, <2>2
<1>26. Gated'
  <2> SUFFICES ASSUME side = "prefetch", NEW r \in Queue("main")',
                      Piece("main", r)'.work \in {"unlock", "backward"}
               PROVE  r <= gate'
    BY <1>1 DEF Gated
  <2>1. gate' = IF nextB' = nextB THEN gate ELSE e + Len(W)
    BY DEF QueuesTraining
  <2>2. CASE nextB' = nextB
    <3>1. ~ New(r)
      <4>1. SUFFICES ASSUME NEW n \in 1..Len(W), r = e + n PROVE FALSE
        BY <1>7
      <4>2. Piece("main", r)' = W[n]
        BY <1>1, <1>6, <1>8, <4>1
      <4>. QED BY <1>5, <2>2, <4>2, <1>w
    <3>. QED BY <1>1, <1>6, <1>10, <2>1, <2>2, <3>1 DEF Gated
  <2>3. CASE nextB' # nextB
    <3>1. r <= e + Len(W)
      BY <1>1, <1>6, <1>7, <1>10
    <3>. QED BY <2>1, <2>3, <3>1
  <2>. QED BY <2>2, <2>3
\* A batch queued for training now is not trained.
<1>27. ASSUME NEW j \in Nat PROVE /\ IsTrained(j)' => IsTrained(j)
                                  /\ Unlocked(j)' => Unlocked(j)
  <2>1. \A w : Queued(w, j) => Queued(w, j)'
    BY <1>1, <1>6, <1>11 DEF Queued
  <2>2. ASSUME nextB' # nextB, j = nextB PROVE Queued("backward", j)' /\ (pipeline => Queued("unlock", j)')
    <3>1. PICK m \in Nat : m = Len(W)
      BY <1>1
    <3>2. m \in 1..Len(W) /\ W[m].work = "backward" /\ W[m].i = j
      BY <1>1, <1>5, <2>2, <3>1, <1>w
    <3>3. PICK r \in Nat : r = e + m
      OBVIOUS
    <3>4. r \in Queue("main")' /\ Piece("main", r)' = W[m]
      BY <1>8, <3>2, <3>3
    <3>5. Queued("backward", j)'
      BY <3>2, <3>4 DEF Queued, Is
    <3>6. ASSUME pipeline PROVE Queued("unlock", j)'
      <4>1. m - 1 \in 1..Len(W) /\ W[m - 1].work = "unlock" /\ W[m - 1].i = j
        BY <2>2, <3>2, <3>6, <1>w
      <4>2. PICK v \in Nat : v = e + (m - 1)
        BY <4>1
      <4>3. v \in Queue("main")' /\ Piece("main", v)' = W[m - 1]
        BY <1>8, <4>1, <4>2
      <4>. QED BY <4>1, <4>3 DEF Queued, Is
    <3>. QED BY <3>5, <3>6
  <2>. QED BY <1>1, <1>5, <2>1, <2>2 DEF IsTrained, Unlocked
<1>28. TrainedIsOver'
  <2> SUFFICES ASSUME NEW j \in Batches, NEW r \in Queue("main")', IsTrained(j)', ~ Inserting("main", r)'
               PROVE  j < Piece("main", r)'.i
    BY DEF TrainedIsOver, Training
  <2>1. IsTrained(j) /\ j < nextB
    BY <1>27 DEF Batches, IsTrained
  <2>2. CASE r \in Queue("main")
    BY <1>1, <1>6, <1>11, <2>1, <2>2 DEF TrainedIsOver, Training
  <2>. QED BY <1>1, <1>9, <1>10, <2>1, <2>2
<1>29. InsertedIsOver'
  <2> SUFFICES ASSUME NEW j \in Batches, ToInsert(j)' PROVE ToInsert(j)
    BY <1>27 DEF InsertedIsOver, Batches
  <2>. QED BY <1>12 DEF ToInsert
<1>30. ASSUME NEW j \in Nat PROVE /\ IsTrained(j) => IsTrained(j)'
                                  /\ Unlocked(j) => Unlocked(j)'
  <2>1. ASSUME NEW w, j < nextB, Queued(w, j)' PROVE Queued(w, j)
    <3>1. PICK q \in Queue("main")' : Is("main", q, w, j)'
      BY <2>1 DEF Queued
    <3>2. q \in Queue("main")
      BY <1>1, <1>5, <1>9, <1>10, <2>1, <3>1 DEF Is
    <3>. QED BY <1>1, <1>11, <3>1, <3>2 DEF Queued
  <2>. QED BY <1>1, <1>5, <2>1 DEF IsTrained, Unlocked
<1>31. ASSUME NEW j PROVE /\ ToInsert(j)' <=> ToInsert(j)
                          /\ \A p : /\ ToLookUp(j, p)' <=> ToLookUp(j, p)
                                    /\ Mid(j, p)' <=> Mid(j, p)
  <2>1. ToInsert(j)' <=> ToInsert(j)
    BY <1>6, <1>11, <1>12 DEF ToInsert
  <2>2. \A p : ToLookUp(j, p)' <=> ToLookUp(j, p)
    BY <1>6, <1>11, <1>12 DEF ToLookUp, Is, Inserting
  <2>3. \A p : Mid(j, p)' <=> Mid(j, p)
    BY <1>1, <1>6, <1>11, <1>12 DEF Mid, Is, Inserting
  <2>. QED BY <2>1, <2>2, <2>3
<1>32. SameUpTo(0)
  <2> SUFFICES ASSUME NEW j \in Batches
               PROVE  /\ IsTrained(j)' <=> IsTrained(j)
                      /\ Unlocked(j)' <=> Unlocked(j)
    BY <1>1, <1>31 DEF SameUpTo
  <2>1. j \in Nat
    BY DEF Batches
  <2>. QED BY <1>27, <1>30, <2>1
<1>. QED BY <1>6, <1>16, <1>17, <1>18, <1>19, <1>20, <1>21, <1>22, <1>23, <1>24, <1>26, <1>28, <1>29, <1>32

LEMMA ForwardOrder ==
    ASSUME Order, Forward
    PROVE  Order' /\ SameUpTo(0)
<1> USE DEF Order
<1>1. PICK e \in Nat, f \in Nat : e = End("main") /\ f = End(side)
  BY QueueFacts DEF Streams, Turns
<1>2. PICK p : p = [work |-> "forward", i |-> nextB, k |-> 0, after |-> {<<side, f>>}]
  OBVIOUS
<1>3. PICK W : W = <<p>>
  OBVIOUS
<1>4. p \in Pieces /\ nextB \in Nat /\ nextF = nextB /\ nextP \in Nat /\ nextF < nextP
  BY <1>1, <1>2 DEF Forward, Turns, Pieces
<1>5. W \in Seq(Pieces) /\ Len(W) = 1 /\ W[1] = p
  BY <1>3, <1>4
<1>6. todo' = [todo EXCEPT !["main"] = @ \o W]
  <2>1. todo' = [todo EXCEPT !["main"] = Append(@, p)]
    BY <1>1, <1>2, <1>4 DEF Forward, Work
  <2>2. Append(todo["main"], p) = todo["main"] \o W
    <3>1. PICK t \in Seq(Pieces) : t = todo["main"]
      BY DEF StreamsOK, Streams
    <3>2. \A u \in Seq(Pieces), a \in Pieces : Append(u, a) = u \o <<a>>
      OBVIOUS
    <3>. QED BY <1>3, <1>4, <3>1, <3>2
  <2>. QED BY <2>1, <2>2 DEF StreamsOK, Streams
<1>7. /\ ran' = ran /\ UNCHANGED <<pipeline, side, nextP, batch>>
      /\ nextF' = nextB + 1 /\ nextB' = nextB /\ gate' = gate /\ gate \in Nat
  BY <1>1, <1>4 DEF Forward, Turns
<1>8. ASSUME side = "prefetch", NEW q \in Queue("prefetch"), NEW n \in 1..Len(W)
      PROVE  Before("prefetch", q, "main", e + n)'
  <2>1. PICK r \in Nat : r = e + 1
    OBVIOUS
  <2>2. r \in Queue("main")' /\ Piece("main", r)' = p
    <3>1. PICK z \in Streams : z = "main"
      BY DEF Streams
    <3>2. \A m \in 1..Len(W), v \in Nat : v = End(z) + m => v \in Queue(z)' /\ Piece(z, v)' = W[m]
      BY <1>5, <1>6, <1>7, <3>1, Extend
    <3>3. 1 \in 1..Len(W)
      BY <1>5
    <3>. QED BY <1>1, <1>5, <2>1, <3>1, <3>2, <3>3
  <2>3. q \in Nat /\ q <= f
    BY <1>1, <1>8, QueueFacts DEF Streams
  <2>4. \E o \in Piece("main", r)'.after : o[1] = "prefetch" /\ o[2] >= q
    <3>1. PICK o : o = <<side, f>>
      OBVIOUS
    <3>2. o[1] = "prefetch" /\ o[2] = f
      BY <1>8, <3>1
    <3>3. o \in Piece("main", r)'.after
      BY <1>2, <2>2, <3>1
    <3>. QED BY <2>3, <3>2, <3>3
  <2>5. r <= e + n
    BY <1>5, <1>8, <2>1
  <2>. QED BY <2>2, <2>4, <2>5 DEF Before
<1>9. QueuesTraining(W, e)
  <2>1. \A n \in 1..Len(W) : W[n].work = "forward" /\ W[n].i = nextB
    BY <1>2, <1>5
  <2>. QED BY <1>1, <1>4, <1>5, <1>6, <1>7, <1>8, <2>1 DEF QueuesTraining
<1>. QED BY <1>1, <1>9, TrainOrder

LEMMA FlushOrder ==
    ASSUME Order, Flush
    PROVE  Order' /\ SameUpTo(0)
<1> USE DEF Order
<1>1. PICK e \in Nat : e = End("main")
  BY QueueFacts DEF Streams
<1>2. PICK p : p = [work |-> "flush", i |-> nextB, k |-> 0, after |-> {}]
  OBVIOUS
<1>3. PICK W : W = <<p>>
  OBVIOUS
<1>4. p \in Pieces /\ nextB \in Nat /\ nextF \in Nat
  BY <1>2 DEF Turns, Pieces
<1>5. W \in Seq(Pieces) /\ Len(W) = 1 /\ W[1] = p
  BY <1>3, <1>4
<1>6. todo' = [todo EXCEPT !["main"] = @ \o W]
  <2>1. todo' = [todo EXCEPT !["main"] = Append(@, p)]
    BY <1>2 DEF Flush, Work
  <2>2. Append(todo["main"], p) = todo["main"] \o W
    <3>1. PICK t \in Seq(Pieces) : t = todo["main"]
      BY DEF StreamsOK, Streams
    <3>2. \A u \in Seq(Pieces), a \in Pieces : Append(u, a) = u \o <<a>>
      OBVIOUS
    <3>. QED BY <1>3, <1>4, <3>1, <3>2
  <2>. QED BY <2>1, <2>2 DEF StreamsOK, Streams
<1>7. /\ ran' = ran /\ UNCHANGED <<pipeline, side, nextP, batch>>
      /\ nextF' = nextF /\ nextB' = nextB /\ gate' = gate /\ gate \in Nat
      /\ nextB <= nextF /\ nextF <= nextB + 1 /\ nextF <= nextP
  BY DEF Flush, Turns
<1>9. QueuesTraining(W, e)
  <2>1. \A n \in 1..Len(W) : W[n].work = "flush" /\ W[n].i = nextB /\ W[n].after = {}
    BY <1>2, <1>5
  <2>. QED BY <1>1, <1>4, <1>5, <1>6, <1>7, <2>1 DEF QueuesTraining
<1>. QED BY <1>1, <1>9, TrainOrder

LEMMA BackwardOrder ==
    ASSUME Order, Backward
    PROVE  Order' /\ SameUpTo(0)
<1> USE DEF Order
<1>1. PICK e \in Nat, f \in Nat : e = End("main") /\ f = End(side)
  BY QueueFacts DEF Streams, Turns
<1>2. PICK u, b : /\ u = [work |-> "unlock", i |-> nextB, k |-> 0, after |-> {<<side, f>>}]
                  /\ b = [work |-> "backward", i |-> nextB, k |-> 0, after |-> {}]
  OBVIOUS
<1>3. PICK before, W : before = (IF pipeline THEN <<u>> ELSE <<>>) /\ W = before \o <<b>>
  OBVIOUS
<1>4. /\ u \in Pieces /\ b \in Pieces /\ nextB \in Nat /\ nextF = nextB + 1 /\ nextF <= nextP
      /\ pipeline \in BOOLEAN /\ (side = "prefetch" => pipeline) /\ gate \in Nat
  BY <1>1, <1>2 DEF Backward, Turns, Pieces
<1>5. /\ before \in Seq(Pieces) /\ W \in Seq(Pieces) /\ Len(W) = Len(before) + 1
      /\ Len(before) = IF pipeline THEN 1 ELSE 0
      /\ pipeline => W[1] = u /\ W[2] = b
      /\ ~ pipeline => W[1] = b
  <2>1. <<u>> \in Seq(Pieces) /\ <<b>> \in Seq(Pieces) /\ Len(<<u>>) = 1 /\ Len(<<b>>) = 1
        /\ <<u>>[1] = u /\ <<b>>[1] = b
    BY <1>4
  <2>2. PICK a \in Seq(Pieces), c \in Seq(Pieces) : a = <<u>> /\ c = <<b>>
    BY <2>1
  <2>3. CASE pipeline
    <3>1. W = a \o c /\ before = a
      BY <1>3, <2>2, <2>3
    <3>2. Len(a) = 1 /\ Len(c) = 1 /\ a[1] = u /\ c[1] = b
      BY <2>1, <2>2
    <3>3. /\ a \o c \in Seq(Pieces) /\ Len(a \o c) = Len(a) + Len(c)
          /\ \A n \in 1..Len(a) : (a \o c)[n] = a[n]
          /\ \A n \in 1..Len(c) : (a \o c)[Len(a) + n] = c[n]
      BY <2>2
    <3>4. 1 \in 1..Len(a) /\ 1 \in 1..Len(c) /\ Len(a) + 1 = 2
      BY <3>2
    <3>5. W[1] = u /\ W[2] = b /\ Len(W) = 2 /\ W \in Seq(Pieces)
      BY <3>1, <3>2, <3>3, <3>4
    <3>. QED BY <2>2, <2>3, <3>1, <3>2, <3>5
  <2>4. CASE ~ pipeline
    <3>1. W = <<>> \o c /\ before = <<>>
      BY <1>3, <2>2, <2>4
    <3>2. W = c
      BY <2>2, <3>1
    <3>. QED BY <2>1, <2>2, <2>4, <3>1, <3>2
  <2>. QED BY <2>3, <2>4
<1>6. todo' = [todo EXCEPT !["main"] = @ \o W]
  <2>1. todo' = [todo EXCEPT !["main"] = (@ \o before) \o <<b>>]
    BY <1>1, <1>2, <1>3 DEF Backward, Work, Prefetched
  <2>2. PICK t \in Seq(Pieces), a \in Seq(Pieces), c \in Seq(Pieces) :
            t = todo["main"] /\ a = before /\ c = <<b>>
    <3>1. todo["main"] \in Seq(Pieces)
      BY DEF StreamsOK, Streams
    <3>2. <<b>> \in Seq(Pieces)
      BY <1>4
    <3>. QED BY <1>5, <3>1, <3>2
  <2>3. (t \o a) \o c = t \o (a \o c)
    BY ConcatAssociative
  <2>. QED BY <1>3, <2>1, <2>2, <2>3 DEF StreamsOK, Streams
<1>7. /\ ran' = ran /\ UNCHANGED <<pipeline, side, nextP, batch>>
      /\ nextF' = nextF /\ nextB' = nextB + 1
      /\ gate' = (IF side = "prefetch" THEN e + Len(W) ELSE gate)
  <2>1. gate' = IF side = "prefetch" THEN e + Len(before) + 1 ELSE gate
    BY <1>1, <1>2, <1>3 DEF Backward, Work, Prefetched
  <2>. QED BY <1>1, <1>5, <2>1 DEF Backward
<1>8. ASSUME side = "prefetch", NEW q \in Queue("prefetch"), NEW n \in 1..Len(W)
      PROVE  Before("prefetch", q, "main", e + n)'
  <2>1. PICK r \in Nat : r = e + 1
    OBVIOUS
  <2>2. r \in Queue("main")' /\ Piece("main", r)' = u
    <3>1. PICK z \in Streams : z = "main"
      BY DEF Streams
    <3>2. \A m \in 1..Len(W), v \in Nat : v = End(z) + m => v \in Queue(z)' /\ Piece(z, v)' = W[m]
      BY <1>5, <1>6, <1>7, <3>1, Extend
    <3>3. 1 \in 1..Len(W) /\ W[1] = u
      BY <1>4, <1>5, <1>8
    <3>. QED BY <1>1, <2>1, <3>1, <3>2, <3>3
  <2>3. q \in Nat /\ q <= f
    BY <1>1, <1>8, QueueFacts DEF Streams
  <2>4. \E o \in Piece("main", r)'.after : o[1] = "prefetch" /\ o[2] >= q
    <3>1. PICK o : o = <<side, f>>
      OBVIOUS
    <3>2. o[1] = "prefetch" /\ o[2] = f
      BY <1>8, <3>1
    <3>3. o \in Piece("main", r)'.after
      BY <1>2, <2>2, <3>1
    <3>. QED BY <2>3, <3>2, <3>3
  <2>5. r <= e + n
    BY <1>5, <1>8, <2>1
  <2>. QED BY <2>2, <2>4, <2>5 DEF Before
<1>9. QueuesTraining(W, e)
  <2>1. ASSUME NEW n \in 1..Len(W)
        PROVE  /\ W[n].work \in {"forward", "unlock", "backward", "flush"} /\ W[n].i = nextB
               /\ W[n].work # "forward"
               /\ W[n].work = "unlock" => n + 1 \in 1..Len(W) /\ W[n + 1].work = "backward" /\ pipeline
               /\ W[n].work = "backward" =>
                    /\ n = Len(W)
                    /\ pipeline => n - 1 \in 1..Len(W) /\ W[n - 1].work = "unlock"
               /\ W[n].work \in {"backward", "flush"} => W[n].after = {}
    <3>1. CASE n = 1
      BY <1>2, <1>4, <1>5, <3>1
    <3>2. CASE n = 2 /\ pipeline
      BY <1>2, <1>4, <1>5, <3>2
    <3>3. n = 1 \/ (n = 2 /\ pipeline)
      BY <1>4, <1>5
    <3>. QED BY <3>1, <3>2, <3>3
  <2>2. W[Len(W)].work = "backward" /\ Len(W) > 0
    BY <1>2, <1>4, <1>5
  <2>3. nextB' # nextB /\ nextB' = nextB + 1 /\ nextF' = nextB + 1 /\ nextF' \in Nat /\ gate' \in Nat
    BY <1>1, <1>4, <1>5, <1>7
  <2>4. ASSUME side = "prefetch"
        PROVE  /\ gate' = IF nextB' = nextB THEN gate ELSE e + Len(W)
               /\ \A q \in Queue("prefetch"), n \in 1..Len(W) : Before("prefetch", q, "main", e + n)'
    BY <1>1, <1>4, <1>7, <1>8, <2>3, <2>4
  <2>5. /\ nextB' \in {nextB, nextB + 1}
        /\ nextF <= nextF' /\ nextB' <= nextF' /\ nextF' <= nextB' + 1 /\ nextF' <= nextP
    BY <1>4, <1>7
  <2>. QED BY <1>5, <1>6, <1>7, <2>1, <2>2, <2>3, <2>4, <2>5 DEF QueuesTraining
<1>. QED BY <1>1, <1>9, TrainOrder

LEMMA InitOrder ==
    ASSUME Init
    PROVE  Order
<1>1. todo = [s \in Streams |-> <<>>] /\ ran = [s \in Streams |-> 0]
  BY DEF Init, StreamsInit, Streams
<1>2. StreamsOK
  BY <1>1 DEF StreamsOK
<1>3. \A s \in Streams : Queue(s) = {} /\ End(s) = 0
  BY <1>1, <1>2, QueueFacts DEF End
<1>4. "main" \in Streams /\ "prefetch" \in Streams
  BY DEF Streams
<1>5. Turns
  BY UVMConstants DEF Init, Turns, Streams, Gap, Batches, Passes
<1>7. Contents /\ MainOrder /\ MainPairs /\ SideOrder /\ SidePairs /\ LookedUpFirst /\ KeptApart /\ TrainedFirst /\ Gated
  BY <1>3, <1>4 DEF Contents, MainOrder, MainPairs, SideOrder, SidePairs, LookedUpFirst, KeptApart, TrainedFirst, Gated
<1>8. TrainedIsOver /\ InsertedIsOver
  BY <1>3, <1>4 DEF TrainedIsOver, InsertedIsOver, ToInsert
<1>. QED BY <1>2, <1>5, <1>7, <1>8 DEF Order

-----------------------------------------------------------------------------
(* The device. *)
-----------------------------------------------------------------------------
UniqueTags(c) == \A v, w \in Ways : c.tag[v] = c.tag[w] /\ c.tag[v] # NoIdx => v = w
Caches        == [tag : [Ways -> Idx \cup {NoIdx}], time : [Ways -> Nat], lock : [Ways -> Nat]]
Locations     == UNION {[D -> Ways \cup {NoWay}] : D \in SUBSET (Idx \X Passes)}

InLoc(i, w) == \E q \in DOMAIN loc[i] : loc[i][q] = w
Hit(i, w)   == \E p \in Passes : Mid(i, p) /\ cache.tag[w] \in batch[i][p]
InUse(i, w) == InLoc(i, w) \/ Hit(i, w)
Users(w)    == {i \in Batches : Holds(i) /\ InUse(i, w)}

DeviceOK ==
    /\ lfu \in BOOLEAN /\ (pipeline => ~ lfu)
    /\ cache \in Caches /\ UniqueTags(cache)
    /\ l1 \in [Ways -> Int] /\ uvm \in [Idx -> Int]
    /\ loc \in [Batches -> Locations] /\ taken \in UNION {[D -> Ways] : D \in SUBSET Idx}

(* Which locations there are: of the passes looked up, of no batch later    *)
(* than one to be inserted, nor two ahead of one not trained.               *)
LocDomain ==
    \A i \in Batches : DOMAIN loc[i] =
        IF Live(i) THEN {q \in Idx \X Passes : q[1] \in batch[i][q[2]] /\ ~ ToLookUp(i, q[2])} ELSE {}

LaterEmpty ==
    /\ \A i, j \in Batches : ToInsert(i) /\ i < j => DOMAIN loc[j] = {}
    /\ \A i, j \in Batches : Live(i) /\ i + Gap <= j => DOMAIN loc[j] = {}

(* A location stays right, and is exact once the batch's ways are unlocked. *)
Located == \A i \in Batches : \A q \in DOMAIN loc[i] : \A w \in Ways : loc[i][q] = w => cache.tag[w] = q[1]

Fixed == \A i \in Batches : Live(i) /\ ~ Holds(i) =>
             \A q \in DOMAIN loc[i] : loc[i][q] = Location(cache, q[1])

(* Between the rows and the tags of an insertion. *)
Taking ==
    /\ \A x, y \in DOMAIN taken : taken[x] = taken[y] => x = y
    /\ DOMAIN taken # {} => \E i \in Batches, p \in Passes : Mid(i, p)
    /\ \A i \in Batches, p \in Passes : Mid(i, p) => DOMAIN taken \subseteq batch[i][p] \ Cached(cache)
    /\ pipeline => \A x \in DOMAIN taken : cache.lock[taken[x]] = 0

Locks == \A w \in Ways : cache.lock[w] = Cardinality(Users(w))

Times ==
    /\ pipeline => \A w \in Ways : cache.time[w] < nextP
    /\ pipeline => \A i \in Batches, w \in Ways : ToInsert(i) => cache.time[w] <= i
    /\ \A i \in Batches, w \in Ways : Holds(i) /\ cache.time[w] = i => InUse(i, w)
    /\ \A i \in Batches, w \in Ways : Holds(i) /\ InUse(i, w) => i <= cache.time[w]

(* A row is refused a way while the batch before holds its ways only when   *)
(* all are taken, and so it is not inserted for a later batch either.       *)
Full ==
    /\ \A i, j \in Batches, w \in Ways :
          i < j /\ Holds(i) /\ InLoc(j, NoWay) => cache.lock[w] > 0
    /\ \A i, j \in Batches, p \in Passes, w \in Ways :
          /\ i < j /\ Holds(i) /\ Mid(j, p)
          /\ \E x \in batch[j][p] : x \notin Cached(cache) /\ x \notin DOMAIN taken
          => cache.lock[w] > 0 \/ w \in Range(taken)

StillMissing ==
    \A i, j \in Batches : i < j /\ Live(i) =>
        \A q \in DOMAIN loc[j] : loc[j][q] = NoWay => q[1] \notin Cached(cache)

(* The rows: in their way if they have one, in UVM otherwise, and there     *)
(* too while a batch that missed them is not trained; but for those that a  *)
(* flush met while they were evicted.                                       *)
Latest(x) == Cardinality({j \in Batches : IsTrained(j) /\ x \in Indices(j)})

Values ==
    /\ \A w \in Ways : w \notin Range(taken) /\ cache.tag[w] # NoIdx /\ cache.tag[w] \notin torn =>
          l1[w] = Latest(cache.tag[w])
    /\ \A x \in Idx : x \notin Cached(cache) /\ x \notin torn => uvm[x] = Latest(x)
    /\ \A x \in DOMAIN taken :
          /\ x \notin torn => l1[taken[x]] = Latest(x)
          /\ cache.tag[taken[x]] # NoIdx /\ cache.tag[taken[x]] \notin torn =>
                uvm[cache.tag[taken[x]]] = Latest(cache.tag[taken[x]])
    /\ \A i \in Batches : Holds(i) =>
          \A q \in DOMAIN loc[i] :
              loc[i][q] = NoWay /\ q[1] \notin torn => uvm[q[1]] = Latest(q[1])

Device == /\ DeviceOK /\ LocDomain /\ LaterEmpty /\ Located /\ Fixed /\ Taking /\ Locks /\ Times
          /\ Full /\ StillMissing /\ Values

-----------------------------------------------------------------------------
(* How far the batches are. *)

(* The work at the head of main is of the first batch not trained. *)
LEMMA TrainedBefore ==
    ASSUME Order, todo["main"] # <<>>, Training(ran["main"] + 1), NEW i, i = Piece("main", ran["main"] + 1).i
    PROVE  /\ i \in Nat /\ 1 <= i /\ i <= MaxBatches + 1 /\ i <= nextB
           /\ \A j \in Batches : IsTrained(j) <=> j < i
<1> USE DEF Order
<1>1. PICK r \in Nat : r = ran["main"] + 1 /\ r \in Queue("main") /\ Piece("main", r) \in Pieces
      /\ \A q \in Queue("main") : r <= q /\ q \in Nat
  BY QueueFacts DEF Streams
<1>2. ContentOf("main", r) /\ ~ Inserting("main", r) /\ i = Piece("main", r).i
  BY <1>1 DEF Contents, Streams, Training
<1>3. /\ i \in Nat /\ 1 <= i /\ nextB \in Nat /\ nextF \in Nat /\ nextP \in Nat
      /\ nextF <= nextB + 1 /\ nextF <= nextP /\ nextB <= nextP /\ nextP <= MaxBatches + 1 /\ MaxBatches \in Nat
  BY <1>1, <1>2, UVMConstants DEF ContentOf, Turns, Pieces
<1>4. i <= nextB
  <2>1. Piece("main", r).work \in {"forward", "unlock", "backward", "flush"}
    BY <1>1, <1>2 DEF Pieces, Inserting
  <2>. QED BY <1>2, <1>3, <2>1 DEF ContentOf
<1>5. ASSUME NEW j \in Batches, IsTrained(j) PROVE j < i
  BY <1>1, <1>2, <1>5 DEF TrainedIsOver, Training
<1>6. ASSUME NEW j \in Batches, j < i PROVE IsTrained(j)
  <2>1. j < nextB /\ j \in Nat
    BY <1>3, <1>4, <1>6 DEF Batches
  <2>2. SUFFICES ASSUME Queued("backward", j) PROVE FALSE
    BY <2>1 DEF IsTrained
  <2>3. PICK q \in Queue("main") : Is("main", q, "backward", j)
    BY <2>2 DEF Queued
  <2>4. q # r
    BY <1>2, <1>3, <1>6, <2>1, <2>3 DEF Is
  <2>5. r < q /\ Training(q) /\ Training(r)
    BY <1>1, <1>2, <2>3, <2>4 DEF Is, Training, Inserting
  <2>6. i <= j
    BY <1>1, <1>2, <2>3, <2>5 DEF MainOrder, Is
  <2>. QED BY <1>3, <1>6, <2>1, <2>6
<1>. QED BY <1>3, <1>4, <1>5, <1>6

(* No insertion is between its rows and its tags when main is about to      *)
(* unlock or train.                                                         *)
LEMMA NotMid ==
    ASSUME Order, Ready("main"), Piece("main", ran["main"] + 1).work \in {"unlock", "backward"},
           NEW i, NEW p
    PROVE  ~ Mid(i, p)
<1> USE DEF Order
<1>1. PICK r \in Nat : r = ran["main"] + 1 /\ r \in Queue("main")
  BY QueueFacts DEF Streams, Ready
<1>2. SUFFICES ASSUME NEW s \in Streams, NEW q \in Queue(s), q = ran[s] + 1, Is(s, q, "lookup", i)
               PROVE  FALSE
  BY DEF Mid
<1>3. Inserting(s, q) /\ Piece(s, q).after = {} /\ todo[s] # <<>> /\ Piece(s, q) = Head(todo[s])
  BY <1>2, QueueFacts DEF Is, Inserting, Contents, ContentOf
<1>4. Ready(s)
  BY <1>3 DEF Ready
<1>5. ~ Before(s, q, "main", r) /\ ~ Before("main", r, s, q)
  BY <1>1, <1>2, <1>4, HeadIsFirst DEF Streams
<1>. QED BY <1>1, <1>3, <1>5 DEF KeptApart

(* What main has done of training: a backward trains its batch, an unlock   *)
(* unlocks it, and nothing else changes.                                    *)
LEMMA TrainingDone ==
    ASSUME Order, Ready("main"), Training(ran["main"] + 1), Done("main"),
           NEW i, i = Piece("main", ran["main"] + 1).i,
           NEW work, work = Piece("main", ran["main"] + 1).work,
           NEW j \in Batches
    PROVE  /\ IsTrained(j)' <=> IsTrained(j) \/ (work = "backward" /\ j = i)
           /\ Unlocked(j)' <=> Unlocked(j) \/ (work = "unlock" /\ j = i)
           /\ ToInsert(j)' <=> ToInsert(j)
           /\ \A p : /\ ToLookUp(j, p)' <=> ToLookUp(j, p)
                     /\ Mid(j, p)' <=> Mid(j, p)
<1> USE DEF Order
<1>1. PICK r \in Nat : r = ran["main"] + 1 /\ r \in Queue("main") /\ Piece("main", r) \in Pieces
      /\ \A q \in Queue("main") : r <= q /\ q \in Nat
  BY QueueFacts DEF Streams, Ready
<1>2. Finish("main") /\ todo["main"] # <<>> /\ UNCHANGED <<pipeline, nextB, nextP, batch>>
  BY DEF Done, Ready, host
<1>3. \A t \in Streams : /\ Queue(t)' = IF t = "main" THEN Queue(t) \ {r} ELSE Queue(t)
                         /\ ran'[t] = IF t = "main" THEN r ELSE ran[t]
                         /\ \A q \in Queue(t)' : Piece(t, q)' = Piece(t, q) /\ q \in Nat
  BY <1>1, <1>2, Shrink DEF Streams
<1>4. ~ Inserting("main", r) /\ i = Piece("main", r).i /\ work = Piece("main", r).work /\ ContentOf("main", r)
  BY <1>1 DEF Training, Contents, Streams
<1>5. ASSUME NEW w, NEW k PROVE Queued(w, k)' <=> \E q \in Queue("main") : q # r /\ Is("main", q, w, k)
  BY <1>3 DEF Queued, Is, Streams
<1>6. ASSUME work # "backward" \/ j # i PROVE Queued("backward", j)' <=> Queued("backward", j)
  <2>1. ~ Is("main", r, "backward", j)
    BY <1>4, <1>6 DEF Is
  <2>2. Queued("backward", j)' <=> \E q \in Queue("main") : q # r /\ Is("main", q, "backward", j)
    BY <1>5
  <2>. QED BY <2>1, <2>2 DEF Queued
<1>7. ASSUME work # "unlock" \/ j # i PROVE Queued("unlock", j)' <=> Queued("unlock", j)
  <2>1. ~ Is("main", r, "unlock", j)
    BY <1>4, <1>7 DEF Is
  <2>2. Queued("unlock", j)' <=> \E q \in Queue("main") : q # r /\ Is("main", q, "unlock", j)
    BY <1>5
  <2>. QED BY <2>1, <2>2 DEF Queued
<1>8. ASSUME work = "backward", j = i PROVE IsTrained(j)'
  <2>1. j < nextB
    BY <1>4, <1>8 DEF ContentOf
  <2>2. SUFFICES ASSUME NEW q \in Queue("main"), q # r, Is("main", q, "backward", j) PROVE FALSE
    BY <1>2, <1>5, <2>1 DEF IsTrained
  <2>3. r < q /\ Training(q) /\ Training(r) /\ q \in Nat
    BY <1>1, <1>4, <2>2 DEF Is, Training, Inserting
  <2>4. i < j
    BY <1>1, <1>4, <1>8, <2>2, <2>3 DEF MainOrder, Is
  <2>. QED BY <1>8, <2>4 DEF Batches
<1>9. ASSUME work = "unlock", j = i PROVE Unlocked(j)'
  <2>1. j < nextB /\ pipeline
    BY <1>4, <1>9 DEF ContentOf
  <2>2. SUFFICES ASSUME NEW q \in Queue("main"), q # r, Is("main", q, "unlock", j) PROVE FALSE
    BY <1>2, <1>5, <2>1 DEF Unlocked
  <2>3. r + 1 \in Queue("main") /\ Is("main", r + 1, "backward", i)
    BY <1>1, <1>4, <1>9 DEF MainPairs
  <2>4. q # r + 1 /\ r < q /\ q \in Nat
    BY <1>1, <2>2, <2>3 DEF Is
  <2>5. r + 1 < q /\ Training(q) /\ Training(r + 1)
    BY <1>1, <2>2, <2>3, <2>4 DEF Is, Training, Inserting
  <2>6. i < j
    BY <2>2, <2>3, <2>5 DEF MainOrder, Is
  <2>. QED BY <1>9, <2>6 DEF Batches
<1>10. \A t \in Streams : \A q \in Queue(t) : Inserting(t, q) => q \in Queue(t)'
  BY <1>3, <1>4
<1>11. \A t \in Streams : \A q \in Queue(t)' : q \in Queue(t) /\ (Inserting(t, q)' <=> Inserting(t, q))
          /\ \A w, k : Is(t, q, w, k)' <=> Is(t, q, w, k)
  BY <1>3 DEF Inserting, Is
<1>12. ToInsert(j)' <=> ToInsert(j)
  BY <1>3, <1>10, <1>11 DEF ToInsert
<1>13. ASSUME NEW p PROVE ToLookUp(j, p)' <=> ToLookUp(j, p)
  BY <1>3, <1>10, <1>11 DEF ToLookUp, Is, Inserting
<1>14. ASSUME NEW p, Mid(j, p) PROVE Mid(j, p)'
  <2>1. PICK t \in Streams : \E q \in Queue(t) : q = ran[t] + 1 /\ Is(t, q, "lookup", j) /\ Piece(t, q).k = p
    BY <1>14 DEF Mid
  <2>2. PICK q \in Queue(t) : q = ran[t] + 1 /\ Is(t, q, "lookup", j) /\ Piece(t, q).k = p
    BY <2>1
  <2>3. t # "main"
    BY <1>1, <1>4, <2>2 DEF Is, Inserting
  <2>4. q \in Queue(t)' /\ Piece(t, q)' = Piece(t, q) /\ ran'[t] = ran[t]
    BY <1>3, <2>3
  <2>5. q = ran'[t] + 1 /\ Is(t, q, "lookup", j)' /\ Piece(t, q)'.k = p
    BY <2>2, <2>4 DEF Is
  <2>. QED BY <2>4, <2>5 DEF Mid
<1>15. ASSUME NEW p, Mid(j, p)' PROVE Mid(j, p)
  <2>1. PICK t \in Streams : \E q \in Queue(t)' : q = ran'[t] + 1 /\ Is(t, q, "lookup", j)' /\ Piece(t, q)'.k = p
    BY <1>15 DEF Mid
  <2>2. PICK q \in Queue(t)' : q = ran'[t] + 1 /\ Is(t, q, "lookup", j)' /\ Piece(t, q)'.k = p
    BY <2>1
  <2>3. q \in Queue(t) /\ Piece(t, q)' = Piece(t, q) /\ Is(t, q, "lookup", j) /\ Piece(t, q).k = p
    BY <1>3, <1>11, <2>2
  <2>4. CASE t # "main"
    BY <1>3, <2>2, <2>3, <2>4 DEF Mid
  <2>5. CASE t = "main"
    <3>1. q - 1 = r
      BY <1>1, <1>3, <2>2, <2>5
    <3>2. Piece("main", r).work = "insert"
      BY <1>1, <2>3, <2>5, <3>1 DEF SidePairs, Is
    <3>. QED BY <1>4, <3>2 DEF Inserting
  <2>. QED BY <2>4, <2>5
<1>. QED BY <1>2, <1>6, <1>7, <1>8, <1>9, <1>12, <1>13, <1>14, <1>15 DEF IsTrained, Unlocked

(* A batch whose ways are unlocked is about to be trained. *)
LEMMA UnlockedIsNext ==
    ASSUME Order, NEW j \in Batches, Live(j), Unlocked(j)
    PROVE  Ready("main") /\ Is("main", ran["main"] + 1, "backward", j)
<1> USE DEF Order
<1>1. j < nextB /\ Queued("backward", j) /\ ~ Queued("unlock", j) /\ pipeline
  BY DEF Live, IsTrained, Unlocked
<1>2. PICK r \in Queue("main") : Is("main", r, "backward", j)
  BY <1>1 DEF Queued
<1>3. ran["main"] \in Nat /\ r \in Nat /\ ran["main"] + 1 <= r /\ todo["main"] # <<>>
      /\ ran["main"] + 1 \in Queue("main") /\ Piece("main", ran["main"] + 1) = Head(todo["main"])
  BY <1>2, QueueFacts DEF Streams
<1>4. r - 1 \notin Queue("main")
  <2>1. SUFFICES ASSUME r - 1 \in Queue("main") PROVE FALSE
    OBVIOUS
  <2>2. Piece("main", r - 1).work = "unlock"
    BY <1>1, <1>2, <2>1 DEF MainPairs, Is
  <2>3. Is("main", (r - 1) + 1, "backward", Piece("main", r - 1).i) /\ (r - 1) + 1 = r
    BY <1>3, <2>1, <2>2 DEF MainPairs
  <2>4. Is("main", r - 1, "unlock", j)
    BY <1>2, <2>2, <2>3 DEF Is
  <2>. QED BY <1>1, <2>1, <2>4 DEF Queued
<1>5. r = ran["main"] + 1
  <2>1. r \in (ran["main"] + 1)..End("main") /\ r - 1 \notin (ran["main"] + 1)..End("main") /\ End("main") \in Nat
    BY <1>2, <1>4, QueueFacts DEF Queue, Streams
  <2>. QED BY <1>3, <2>1
<1>6. Head(todo["main"]).after = {}
  BY <1>2, <1>3, <1>5 DEF Contents, ContentOf, Is, Streams
<1>. QED BY <1>2, <1>3, <1>5, <1>6 DEF Ready

(* Where an insertion comes: before the insertions of later batches, and at *)
(* most Gap batches ahead of the first not trained, which holds its ways.   *)
LEMMA Insertion ==
    ASSUME Order, Ready(side), Inserting(side, ran[side] + 1),
           NEW i, i = Piece(side, ran[side] + 1).i, NEW p, p = Piece(side, ran[side] + 1).k
    PROVE  /\ side \in Streams /\ i \in Batches /\ p \in Passes /\ (p = 2 => pipeline) /\ i < nextP
           /\ ToInsert(i) /\ Live(i) /\ ToLookUp(i, p) /\ (pipeline => Holds(i))
           /\ \A j \in Batches : /\ ToInsert(j) => i <= j
                                 /\ Live(j) => i < j + Gap /\ (pipeline => Holds(j))
           /\ \A j, k : Mid(j, k) <=> Piece(side, ran[side] + 1).work = "lookup" /\ j = i /\ k = p
<1> USE DEF Order
<1>1. PICK r \in Nat : /\ r = ran[side] + 1 /\ r \in Queue(side) /\ Piece(side, r) \in Pieces
                       /\ \A q \in Queue(side) : r <= q /\ q \in Nat
  BY QueueFacts DEF Ready, Turns
<1>2. /\ ContentOf(side, r) /\ Inserting(side, r) /\ i = Piece(side, r).i /\ p = Piece(side, r).k
      /\ side \in Streams /\ nextP \in Nat /\ nextB \in Nat /\ MaxBatches \in Nat /\ nextP <= MaxBatches + 1
      /\ nextP <= nextB + Gap /\ Gap \in {1, 2}
  BY <1>1, UVMConstants DEF Contents, Turns, Gap
<1>3. i \in Batches /\ p \in Passes /\ (p = 2 => pipeline) /\ i < nextP /\ i \in Nat
  BY <1>2 DEF ContentOf, Batches
<1>4. ToInsert(i)
  BY <1>1, <1>2 DEF ToInsert
<1>5. Live(i)
  BY <1>3, <1>4 DEF InsertedIsOver, Live
<1>6. ToLookUp(i, p)
  <2>1. CASE Piece(side, r).work = "lookup"
    BY <1>1, <1>2, <2>1 DEF ToLookUp, Is
  <2>2. CASE Piece(side, r).work = "insert"
    BY <1>1, <1>2, <2>2 DEF ToLookUp, SidePairs
  <2>. QED BY <1>2, <2>1, <2>2 DEF Inserting
<1>7. ASSUME NEW j \in Batches, ToInsert(j) PROVE i <= j
  <2>1. PICK t \in Streams : \E q \in Queue(t) : Inserting(t, q) /\ Piece(t, q).i = j
    BY <1>7 DEF ToInsert
  <2>2. PICK q \in Queue(t) : Inserting(t, q) /\ Piece(t, q).i = j
    BY <2>1
  <2>3. t = side
    BY <2>2 DEF Contents, ContentOf
  <2>4. CASE q = r
    BY <1>2, <1>3, <2>2, <2>3, <2>4
  <2>5. CASE q # r
    <3>1. r < q
      BY <1>1, <2>2, <2>3, <2>5
    <3>2. Ahead(Piece(side, r), Piece(side, q))
      BY <1>1, <1>2, <2>2, <2>3, <3>1 DEF SideOrder
    <3>. QED BY <1>2, <1>3, <1>7, <2>2, <2>3, <3>2 DEF Ahead, Batches
  <2>. QED BY <2>4, <2>5
<1>8. ASSUME NEW j \in Batches, Live(j) PROVE i < j + Gap
  <2>1. SUFFICES ASSUME j + Gap <= i PROVE FALSE
    BY <1>2, <1>3 DEF Batches
  <2>2. j < nextB /\ j \in Nat
    BY <1>2, <1>3, <2>1 DEF Batches
  <2>3. PICK m \in Queue("main") : Is("main", m, "backward", j)
    BY <1>8, <2>2 DEF Live, IsTrained, Queued
  <2>4. Before("main", m, side, r)
    BY <1>1, <1>2, <2>1, <2>3 DEF TrainedFirst, Is
  <2>. QED BY <1>1, <1>2, <2>3, <2>4, HeadIsFirst DEF Streams
<1>9. ASSUME NEW j \in Batches, Live(j), pipeline PROVE Holds(j)
  <2>1. SUFFICES ASSUME Unlocked(j) PROVE FALSE
    BY <1>9 DEF Holds
  <2>2. PICK m : m = ran["main"] + 1
    OBVIOUS
  <2>3. Ready("main") /\ Is("main", m, "backward", j) /\ m \in Queue("main") /\ m \in Nat
    BY <1>9, <2>1, <2>2, UnlockedIsNext, QueueFacts DEF Ready, Streams
  <2>4. Before(side, r, "main", m) \/ Before("main", m, side, r)
    BY <1>1, <1>2, <2>3 DEF KeptApart, Is
  <2>5. ~ Before(side, r, "main", m)
    BY <1>1, <1>2, <2>2, <2>3, HeadIsFirst DEF Streams
  <2>6. ~ Before("main", m, side, r)
    BY <1>1, <1>2, <2>3, HeadIsFirst DEF Streams
  <2>. QED BY <2>4, <2>5, <2>6
<1>10. ASSUME NEW j, NEW k, Mid(j, k) PROVE Piece(side, r).work = "lookup" /\ j = i /\ k = p
  <2>1. PICK t \in Streams : \E q \in Queue(t) : q = ran[t] + 1 /\ Is(t, q, "lookup", j) /\ Piece(t, q).k = k
    BY <1>10 DEF Mid
  <2>2. PICK q \in Queue(t) : q = ran[t] + 1 /\ Is(t, q, "lookup", j) /\ Piece(t, q).k = k
    BY <2>1
  <2>3. t = side
    BY <2>2 DEF Contents, ContentOf, Inserting, Is
  <2>. QED BY <1>1, <1>2, <2>2, <2>3 DEF Is
<1>11. ASSUME Piece(side, r).work = "lookup" PROVE Mid(i, p)
  BY <1>1, <1>2, <1>11 DEF Mid, Is
<1>. QED BY <1>1, <1>2, <1>3, <1>4, <1>5, <1>6, <1>7, <1>8, <1>9, <1>10, <1>11

(* What a step of an insertion changes. *)
LEMMA InsertionDone ==
    ASSUME Order, Ready(side), Inserting(side, ran[side] + 1), Done(side),
           NEW i, i = Piece(side, ran[side] + 1).i, NEW p, p = Piece(side, ran[side] + 1).k,
           NEW j \in Batches
    PROVE  /\ IsTrained(j)' <=> IsTrained(j)
           /\ Unlocked(j)' <=> Unlocked(j)
           /\ ToInsert(j)' => ToInsert(j)
           /\ Piece(side, ran[side] + 1).work = "insert" =>
                 \A k : /\ ToLookUp(j, k)' <=> ToLookUp(j, k)
                        /\ Mid(j, k)' <=> j = i /\ k = p
           /\ Piece(side, ran[side] + 1).work = "lookup" =>
                 \A k : /\ ToLookUp(j, k)' <=> ToLookUp(j, k) /\ ~ (j = i /\ k = p)
                        /\ ~ Mid(j, k)'
<1> USE DEF Order
<1>0. PICK z \in Streams : z = side
  BY DEF Turns
<1>1. PICK r \in Nat : /\ r = ran[z] + 1 /\ r \in Queue(z) /\ Piece(z, r) \in Pieces
                       /\ \A q \in Queue(z) : r <= q /\ q \in Nat
  BY <1>0, QueueFacts DEF Ready
<1>2. /\ ContentOf(z, r) /\ Inserting(z, r) /\ i = Piece(z, r).i /\ p = Piece(z, r).k
      /\ i \in Nat
  BY <1>0, <1>1 DEF Contents, Pieces
<1>3. Finish(z) /\ todo[z] # <<>> /\ UNCHANGED <<pipeline, side, nextB, nextP, batch>>
  BY <1>0 DEF Done, Ready, host
<1>4. \A t \in Streams : /\ Queue(t)' = IF t = z THEN Queue(t) \ {r} ELSE Queue(t)
                         /\ ran'[t] = IF t = z THEN r ELSE ran[t]
                         /\ \A q \in Queue(t)' : Piece(t, q)' = Piece(t, q) /\ q \in Nat
  BY <1>1, <1>2, <1>3, Shrink
<1>5. \A t \in Streams : \A q \in Queue(t)' : q \in Queue(t) /\ (Inserting(t, q)' <=> Inserting(t, q))
          /\ \A w, k : Is(t, q, w, k)' <=> Is(t, q, w, k)
  BY <1>4 DEF Inserting, Is
<1>6. ASSUME NEW w \in {"unlock", "backward"} PROVE Queued(w, j)' <=> Queued(w, j)
  <2>1. ASSUME NEW q \in Queue("main"), Is("main", q, w, j) PROVE q \in Queue("main")'
    BY <1>2, <1>4, <2>1 DEF Is, Inserting, Streams
  <2>. QED BY <1>5, <2>1 DEF Queued, Streams
<1>7. ToInsert(j)' => ToInsert(j)
  BY <1>4, <1>5 DEF ToInsert
<1>8. ASSUME NEW k, ToLookUp(j, k)' PROVE ToLookUp(j, k)
  BY <1>4, <1>5, <1>8 DEF ToLookUp
<1>9. ASSUME NEW k, ToLookUp(j, k), ~ (Piece(z, r).work = "lookup" /\ j = i /\ k = p) PROVE ToLookUp(j, k)'
  <2>1. PICK t \in Streams : \E q \in Queue(t) : Is(t, q, "lookup", j) /\ Piece(t, q).k = k
    BY <1>9 DEF ToLookUp
  <2>2. PICK q \in Queue(t) : Is(t, q, "lookup", j) /\ Piece(t, q).k = k
    BY <2>1
  <2>3. q \in Queue(t)'
    BY <1>2, <1>4, <1>9, <2>2 DEF Is
  <2>. QED BY <1>4, <1>5, <2>2, <2>3 DEF ToLookUp
<1>10. ASSUME Piece(z, r).work = "lookup", ToLookUp(i, p)' PROVE FALSE
  <2>1. PICK t \in Streams : \E q \in Queue(t)' : Is(t, q, "lookup", i)' /\ Piece(t, q)'.k = p
    BY <1>10 DEF ToLookUp
  <2>2. PICK q \in Queue(t)' : Is(t, q, "lookup", i)' /\ Piece(t, q)'.k = p
    BY <2>1
  <2>3. q \in Queue(t) /\ Is(t, q, "lookup", i) /\ Piece(t, q).k = p /\ Inserting(t, q)
    BY <1>4, <1>5, <2>2 DEF Is, Inserting
  <2>4. t = z /\ r < q
    <3>1. t = z
      BY <1>0, <2>3 DEF Contents, ContentOf
    <3>2. q # r /\ r <= q /\ q \in Nat
      BY <1>1, <1>4, <2>2, <2>3, <3>1
    <3>. QED BY <3>1, <3>2
  <2>5. Ahead(Piece(z, r), Piece(z, q))
    BY <1>1, <1>2, <2>3, <2>4 DEF SideOrder
  <2>6. p \in Nat
    BY <1>1, <1>2 DEF Pieces
  <2>. QED BY <1>2, <1>10, <2>3, <2>4, <2>5, <2>6 DEF Ahead, Is
<1>11. ASSUME NEW k, Mid(j, k)'
       PROVE  r + 1 \in Queue(z)' /\ Is(z, r + 1, "lookup", j) /\ Piece(z, r + 1).k = k
              /\ r + 1 \in Queue(z)
  <2>1. PICK t \in Streams : \E q \in Queue(t)' : q = ran'[t] + 1 /\ Is(t, q, "lookup", j)' /\ Piece(t, q)'.k = k
    BY <1>11 DEF Mid
  <2>2. PICK q \in Queue(t)' : q = ran'[t] + 1 /\ Is(t, q, "lookup", j)' /\ Piece(t, q)'.k = k
    BY <2>1
  <2>3. q \in Queue(t) /\ Is(t, q, "lookup", j) /\ Piece(t, q).k = k /\ Inserting(t, q)
    BY <1>4, <1>5, <2>2 DEF Is, Inserting
  <2>4. t = z
    BY <1>0, <2>3 DEF Contents, ContentOf
  <2>. QED BY <1>1, <1>4, <2>2, <2>3, <2>4
<1>12. ASSUME Piece(z, r).work = "insert", NEW k PROVE Mid(j, k)' <=> j = i /\ k = p
  <2>1. r + 1 \in Queue(z) /\ Is(z, r + 1, "lookup", i) /\ Piece(z, r + 1).k = p
    BY <1>1, <1>2, <1>12 DEF SidePairs
  <2>2. ASSUME j = i, k = p PROVE Mid(j, k)'
    <3>1. r + 1 \in Queue(z)' /\ ran'[z] + 1 = r + 1
      BY <1>1, <1>2, <1>4, <2>1
    <3>2. Is(z, r + 1, "lookup", j)' /\ Piece(z, r + 1)'.k = p
      BY <1>2, <1>4, <1>5, <2>1, <2>2, <3>1
    <3>3. \E q \in Queue(z)' : q = ran'[z] + 1 /\ Is(z, q, "lookup", j)' /\ Piece(z, q)'.k = p
      BY <3>1, <3>2
    <3>. QED BY <1>2, <2>2, <3>3 DEF Mid
  <2>. QED BY <1>11, <2>1, <2>2 DEF Is
<1>13. ASSUME Piece(z, r).work = "lookup", NEW k, Mid(j, k)' PROVE FALSE
  <2>1. r + 1 \in Queue(z) /\ Piece(z, r + 1).work = "lookup" /\ (r + 1) - 1 = r
    BY <1>1, <1>11, <1>13 DEF Is
  <2>2. Piece(z, r).work = "insert"
    BY <1>1, <1>2, <2>1 DEF SidePairs
  <2>. QED BY <1>13, <2>2
<1>. QED BY <1>0, <1>1, <1>3, <1>6, <1>7, <1>8, <1>9, <1>10, <1>12, <1>13 DEF IsTrained, Unlocked

-----------------------------------------------------------------------------
(* The cache: where a row is, and which ways an insertion is given. *)
LEMMA LocationFacts ==
    ASSUME NEW c \in Caches, UniqueTags(c), NEW x \in Idx
    PROVE  /\ Location(c, x) \in Ways \cup {NoWay}
           /\ Location(c, x) = NoWay <=> x \notin Cached(c)
           /\ \A w \in Ways : Location(c, x) = w <=> c.tag[w] = x
<1>1. x # NoIdx /\ Ways \subseteq Nat \ {0}
  BY UVMConstants
<1>2. CASE x \notin Cached(c)
  <2>1. \A w \in Ways : c.tag[w] # x /\ w # NoWay
    BY <1>1, <1>2 DEF Cached, NoWay
  <2>. QED BY <1>2, <2>1 DEF Location
<1>3. CASE x \in Cached(c)
  <2>1. PICK v \in Ways : c.tag[v] = x
    BY <1>3 DEF Cached
  <2>2. {w \in Ways : c.tag[w] = x} = {v}
    BY <1>1, <2>1 DEF UniqueTags
  <2>3. v <= v
    BY <1>1
  <2>4. Min({v}) = v
    BY <2>3 DEF Min
  <2>5. Location(c, x) = v /\ v # NoWay
    BY <1>1, <1>3, <2>2, <2>4 DEF Location, NoWay
  <2>. QED BY <1>1, <1>3, <2>1, <2>2, <2>5
<1>. QED BY <1>2, <1>3

LEMMA LocationOfTags ==
    ASSUME NEW c, NEW d, c.tag = d.tag
    PROVE  /\ Cached(c) = Cached(d)
           /\ \A x : Location(c, x) = Location(d, x)
BY DEF Cached, Location

LEMMA MinOfTwo ==
    ASSUME NEW m \in Nat, NEW n \in Nat
    PROVE  Min({m, n}) = IF m <= n THEN m ELSE n
<1>1. PICK k \in Nat : k = IF m <= n THEN m ELSE n
  OBVIOUS
<1>2. k \in {m, n} /\ \A y \in {m, n} : k <= y
  BY <1>1
<1>3. \A x \in {m, n} : (\A y \in {m, n} : x <= y) => x = k
  BY <1>1
<1>4. Min({m, n}) \in {m, n} /\ \A y \in {m, n} : Min({m, n}) <= y
  BY <1>2 DEF Min
<1>. QED BY <1>1, <1>3, <1>4

(* The ways given are not in use.  When a row gets none, either all ways    *)
(* were looked at or one of the oldest was in use.                          *)
GoodWays(c, missed, now, locking, a) ==
    /\ DOMAIN a \subseteq missed /\ a \in [DOMAIN a -> Ways]
    /\ \A x, y \in DOMAIN a : a[x] = a[y] => x = y
    /\ \A x \in DOMAIN a : c.time[a[x]] # now /\ ~ (locking /\ c.lock[a[x]] > 0)
    /\ DOMAIN a # missed => \E W \in SUBSET Ways :
          /\ \A w \in W : w \in Range(a) \/ c.time[w] = now \/ (locking /\ c.lock[w] > 0)
          /\ W = Ways \/ \E w \in W : w \notin Range(a)
          /\ \A w \in W, v \in Ways \ W : c.time[w] <= c.time[v]

LEMMA WaysGiven ==
    ASSUME NEW c \in Caches, NEW missed \in SUBSET Idx, NEW now, NEW locking,
           NEW a \in UVMAssignments(c, missed, now, locking)
    PROVE  GoodWays(c, missed, now, locking, a)
<1> DEFINE k == Min({Cardinality(missed), Cardinality(Ways)})
           usable(V) == {w \in V : c.time[w] # now /\ ~ (locking /\ c.lock[w] > 0)}
<1>1. PICK W \in OldestWays(c, Ways, k) : a \in Assignments(missed, usable(W))
  BY DEF UVMAssignments
<1>2. W \in SUBSET Ways /\ Cardinality(W) = k /\ \A w \in W, v \in Ways \ W : c.time[w] <= c.time[v]
  BY <1>1 DEF OldestWays, kSubset
<1>3. PICK S \in kSubset(Cardinality(usable(W)), missed) :
          a \in {f \in [S -> usable(W)] : \A x, y \in S : f[x] = f[y] => x = y}
  BY <1>1 DEF Assignments
<1>4. /\ S \subseteq missed /\ Cardinality(S) = Cardinality(usable(W))
      /\ a \in [S -> usable(W)] /\ DOMAIN a = S /\ \A x, y \in S : a[x] = a[y] => x = y
  BY <1>3 DEF kSubset
<1>5. IsFiniteSet(missed) /\ IsFiniteSet(W) /\ IsFiniteSet(usable(W)) /\ IsFiniteSet(S) /\ IsFiniteSet(Ways)
  <2>1. IsFiniteSet(missed) /\ IsFiniteSet(W) /\ IsFiniteSet(Ways)
    BY <1>2, UVMConstants, FS_Subset
  <2>. QED BY <1>4, <2>1, FS_Subset
<1>6. Range(a) = usable(W)
  <2>1. PICK U : U = usable(W)
    OBVIOUS
  <2>2. a \in Injection(S, U)
    BY <1>4, <2>1 DEF Injection, IsInjective
  <2>3. a \in Surjection(S, U)
    BY <1>4, <1>5, <2>1, <2>2, FS_Injection
  <2>. QED BY <1>4, <2>1, <2>3 DEF Surjection, Range
<1>7. ASSUME S # missed, \A w \in W : w \in Range(a) PROVE W = Ways
  <2>1. usable(W) = W
    BY <1>6, <1>7
  <2>2. Cardinality(S) = k
    BY <1>2, <1>4, <2>1
  <2>3. Cardinality(missed) \in Nat /\ Cardinality(Ways) \in Nat
    BY <1>5, FS_CardinalityType
  <2>4. k = Cardinality(missed) \/ k = Cardinality(Ways)
    BY <2>3, MinOfTwo
  <2>5. Cardinality(S) # Cardinality(missed)
    BY <1>4, <1>5, <1>7, FS_Subset
  <2>. QED BY <1>2, <1>5, <2>2, <2>4, <2>5, FS_Subset
<1>8. ASSUME S # missed
      PROVE  \E V \in SUBSET Ways :
                 /\ \A w \in V : w \in Range(a) \/ c.time[w] = now \/ (locking /\ c.lock[w] > 0)
                 /\ V = Ways \/ \E w \in V : w \notin Range(a)
                 /\ \A w \in V, v \in Ways \ V : c.time[w] <= c.time[v]
  <2>1. \A w \in W : w \in Range(a) \/ c.time[w] = now \/ (locking /\ c.lock[w] > 0)
    BY <1>6
  <2>. QED BY <1>2, <1>7, <1>8, <2>1
<1>. QED BY <1>2, <1>4, <1>8 DEF GoodWays

LEMMA LFUWaysGiven ==
    ASSUME NEW c, NEW n, NEW missed, NEW a \in LFUAssignments(c, n, missed)
    PROVE  /\ DOMAIN a \subseteq missed /\ a \in [DOMAIN a -> Ways]
           /\ \A x, y \in DOMAIN a : a[x] = a[y] => x = y
<1> DEFINE cost(w) == IF c.tag[w] = NoIdx THEN -1 ELSE n[c.tag[w]]
           sorted(f) == \A x, y \in DOMAIN f :
                            /\ f[x] = f[y] => x = y
                            /\ n[x] > n[y] => cost(f[x]) <= cost(f[y])
           taken0(f) == {x \in DOMAIN f : cost(f[x]) <= n[x]}
           k == Min({Cardinality(missed), Cardinality(Ways)})
           most(S)   == \A x \in S, y \in missed \ S : n[x] >= n[y]
           least(W)  == \A w \in W, v \in Ways \ W : cost(w) <= cost(v)
           pairings == UNION {{f \in [S -> W] : sorted(f)} :
                                 S \in {T \in kSubset(k, missed) : most(T)},
                                 W \in {V \in kSubset(k, Ways) : least(V)}}
<1>a. LFUAssignments(c, n, missed) = {[x \in taken0(f) |-> f[x]] : f \in pairings}
  BY DEF LFUAssignments
<1>b. ASSUME NEW f \in pairings
      PROVE  \E S \in kSubset(k, missed), W \in kSubset(k, Ways) : f \in [S -> W] /\ sorted(f)
  <2> HIDE DEF sorted, most, least, k
  <2>1. PICK Z \in {{g \in [S -> W] : sorted(g)} :
                       S \in {T \in kSubset(k, missed) : most(T)},
                       W \in {V \in kSubset(k, Ways) : least(V)}} : f \in Z
    OBVIOUS
  <2>2. PICK S \in {T \in kSubset(k, missed) : most(T)}, W \in {V \in kSubset(k, Ways) : least(V)} :
            Z = {g \in [S -> W] : sorted(g)}
    OBVIOUS
  <2>3. S \in kSubset(k, missed) /\ W \in kSubset(k, Ways) /\ f \in [S -> W] /\ sorted(f)
    BY <2>1, <2>2
  <2>. QED BY <2>3
<1> HIDE DEF pairings, k
<1>0. PICK f \in pairings : a = [x \in taken0(f) |-> f[x]]
  BY <1>a
<1>1. PICK S \in kSubset(k, missed), W \in kSubset(k, Ways) : f \in [S -> W] /\ sorted(f)
  BY <1>0, <1>b
<1>2. S \subseteq missed /\ W \subseteq Ways /\ f \in [S -> W] /\ sorted(f)
  BY <1>1 DEF kSubset
<1>3. DOMAIN a \subseteq S /\ \A x \in DOMAIN a : a[x] = f[x]
  BY <1>0, <1>2
<1>4. a \in [DOMAIN a -> Ways]
  BY <1>0, <1>2, <1>3
<1>. QED BY <1>2, <1>3, <1>4

-----------------------------------------------------------------------------
(* The host's steps and the ends of forwards leave the device as it is. *)
LEMMA SameLatest ==
    ASSUME \A j \in Batches : /\ IsTrained(j)' <=> IsTrained(j)
                              /\ IsTrained(j) => Indices(j)' = Indices(j),
           NEW x
    PROVE  Latest(x)' = Latest(x)
<1>1. {j \in Batches : IsTrained(j)' /\ x \in Indices(j)'} = {j \in Batches : IsTrained(j) /\ x \in Indices(j)}
  OBVIOUS
<1>. QED BY <1>1 DEF Latest

LEMMA DeviceStays ==
    ASSUME Order, Device, UNCHANGED <<pipeline, lfu, device>>, nextP' \in {nextP, nextP + 1},
           NEW n, n = (IF nextP' = nextP THEN 0 ELSE nextP), SameUpTo(n),
           n # 0 => \A p \in Passes : batch'[n][p] = {} \/ ToLookUp(n, p)'
    PROVE  Device'
<1> USE DEF Device
<1>1. UNCHANGED <<pipeline, lfu, cache, l1, uvm, loc, taken, torn>> /\ Gap' = Gap
  BY DEF device, Gap
<1>2. nextP \in Nat /\ n \in Nat /\ 0 \notin Batches
      /\ \A j \in Batches : j # n => (j < nextP' <=> j < nextP)
  BY DEF Order, Turns, Batches
<1>3. ASSUME n \in Batches
      PROVE  n = nextP /\ ~ IsTrained(n) /\ ~ Live(n) /\ nextP' = n + 1 /\ \A p : ~ Mid(n, p)
  <2>1. n = nextP /\ nextP' = n + 1
    BY <1>2, <1>3
  <2>2. ~ IsTrained(n) /\ ~ Live(n)
    BY <2>1 DEF Order, Turns, IsTrained, Live
  <2>3. ASSUME NEW p, Mid(n, p) PROVE FALSE
    <3>1. \E s \in Streams : \E q \in Queue(s) : Is(s, q, "lookup", n)
      BY <2>3 DEF Mid
    <3>2. n \in 1..(nextP - 1)
      BY <3>1 DEF Order, Contents, ContentOf, Is, Inserting
    <3>. QED BY <1>2, <2>1, <3>2
  <2>. QED BY <2>1, <2>2, <2>3
<1>4. \A j \in Batches : /\ IsTrained(j)' <=> IsTrained(j)
                         /\ Live(j)' <=> Live(j) \/ j = n
                         /\ Holds(j)' <=> Holds(j) \/ (j = n /\ pipeline /\ ~ Unlocked(n))
                         /\ \A p : Mid(j, p)' <=> Mid(j, p)
                         /\ j # n => /\ batch'[j] = batch[j] /\ (ToInsert(j)' <=> ToInsert(j))
                                     /\ \A p : ToLookUp(j, p)' <=> ToLookUp(j, p)
  <2>1. ASSUME NEW j \in Batches PROVE Live(j)' <=> Live(j) \/ j = n
    BY <1>2, <1>3 DEF SameUpTo, Live
  <2>. QED BY <1>1, <2>1 DEF SameUpTo, Holds
<1>5. \A j \in Batches : \A p : Mid(j, p) => batch'[j] = batch[j]
  BY <1>3, <1>4
<1>6. \A j \in Batches : \A w : InLoc(j, w)' <=> InLoc(j, w)
  BY <1>1 DEF InLoc
<1>7. \A j \in Batches : \A w : InUse(j, w)' <=> InUse(j, w)
  BY <1>1, <1>4, <1>5, <1>6 DEF InUse, Hit
<1>8. n \in Batches => DOMAIN loc[n] = {} /\ \A w : ~ InUse(n, w)
  BY <1>3 DEF LocDomain, InUse, InLoc, Hit
<1>9. \A w : Users(w)' = Users(w)
  BY <1>4, <1>7, <1>8 DEF Users
<1>10. \A x : Latest(x)' = Latest(x)
  BY <1>3, <1>4, SameLatest DEF Indices
<1>11. DeviceOK'
  BY <1>1 DEF DeviceOK, UniqueTags
<1>12. LocDomain'
  <2> SUFFICES ASSUME NEW j \in Batches
               PROVE  DOMAIN loc[j] = IF Live(j)' THEN {q \in Idx \X Passes : q[1] \in batch'[j][q[2]] /\ ~ ToLookUp(j, q[2])'}
                                      ELSE {}
    BY <1>1 DEF LocDomain
  <2>1. CASE j # n
    BY <1>4, <2>1 DEF LocDomain
  <2>2. CASE j = n
    <3>1. \A q \in Idx \X Passes : ~ (q[1] \in batch'[j][q[2]] /\ ~ ToLookUp(j, q[2])')
      BY <1>2, <2>2
    <3>. QED BY <1>4, <1>8, <2>2, <3>1
  <2>. QED BY <2>1, <2>2
<1>13. LaterEmpty'
  <2> SUFFICES ASSUME NEW i \in Batches, NEW j \in Batches, DOMAIN loc[j] # {}
               PROVE  /\ ~ (ToInsert(i)' /\ i < j)
                      /\ ~ (Live(i)' /\ i + Gap <= j)
    BY <1>1 DEF LaterEmpty
  <2>1. Live(j) /\ j < nextP
    BY DEF LocDomain, Live
  <2>2. i = n => ~ (i < j) /\ ~ (i + Gap <= j)
    <3>1. Gap \in {1, 2}
      BY DEF Gap
    <3>. QED BY <1>2, <1>3, <2>1, <3>1 DEF Batches
  <2>. QED BY <1>4, <2>2 DEF LaterEmpty
<1>14. Located'
  BY <1>1 DEF Located
<1>15. Fixed'
  <2> SUFFICES ASSUME NEW j \in Batches, Live(j)', ~ Holds(j)', NEW q \in DOMAIN loc[j]
               PROVE  loc[j][q] = Location(cache, q[1])
    BY <1>1 DEF Fixed
  <2>. QED BY <1>4, <1>8 DEF Fixed
<1>16. Taking'
  <2>1. \A i \in Batches, p \in Passes : Mid(i, p)' => DOMAIN taken \subseteq batch'[i][p] \ Cached(cache)
    BY <1>4, <1>5 DEF Taking
  <2>2. DOMAIN taken # {} => \E i \in Batches, p \in Passes : Mid(i, p)'
    BY <1>4 DEF Taking
  <2>. QED BY <1>1, <2>1, <2>2 DEF Taking
<1>17. Locks'
  BY <1>1, <1>9 DEF Locks
<1>18. Times'
  <2>1. ASSUME pipeline PROVE \A w \in Ways : cache.time[w] < nextP /\ cache.time[w] < nextP' /\ cache.time[w] \in Nat
    BY <1>2, <2>1 DEF Times, DeviceOK, Caches
  <2>2. ASSUME pipeline, NEW i \in Batches, NEW w \in Ways, ToInsert(i)' PROVE cache.time[w] <= i
    <3>1. CASE i = n
      BY <1>2, <1>3, <2>1, <2>2, <3>1
    <3>2. CASE i # n
      BY <1>4, <2>2, <3>2 DEF Times
    <3>. QED BY <3>1, <3>2
  <2>3. ASSUME NEW i \in Batches, NEW w \in Ways, Holds(i)'
        PROVE  /\ cache.time[w] = i => InUse(i, w)
               /\ InUse(i, w) => i <= cache.time[w]
    <3>1. CASE i = n
      BY <1>2, <1>3, <1>4, <1>8, <2>1, <2>3, <3>1 DEF Holds
    <3>2. CASE i # n
      BY <1>4, <2>3, <3>2 DEF Times
    <3>. QED BY <3>1, <3>2
  <2>. QED BY <1>1, <1>7, <2>1, <2>2, <2>3 DEF Times
<1>19. Full'
  <2>1. ASSUME NEW i \in Batches, NEW j \in Batches, i < j, Holds(i)', Live(j) PROVE Holds(i)
    <3>1. i # n
      BY <1>2, <1>3, <2>1 DEF Live, Batches
    <3>. QED BY <1>4, <2>1, <3>1
  <2>2. ASSUME NEW j \in Batches, DOMAIN loc[j] # {} \/ \E p : Mid(j, p) PROVE Live(j)
    <3>1. CASE DOMAIN loc[j] # {}
      BY <3>1 DEF LocDomain
    <3>2. CASE \E p : Mid(j, p)
      <4>1. \E s \in Streams : \E q \in Queue(s) : Is(s, q, "lookup", j)
        BY <3>2 DEF Mid
      <4>2. ToInsert(j) /\ j \in 1..(nextP - 1)
        BY <4>1 DEF Order, Contents, ContentOf, Is, Inserting, ToInsert
      <4>. QED BY <1>2, <4>2 DEF Order, InsertedIsOver, Live
    <3>. QED BY <2>2, <3>1, <3>2
  <2>. QED BY <1>1, <1>4, <1>5, <1>6, <2>1, <2>2 DEF Full, InLoc
<1>20. StillMissing'
  <2> SUFFICES ASSUME NEW i \in Batches, NEW j \in Batches, i < j, Live(i)', NEW q \in DOMAIN loc[j],
                      loc[j][q] = NoWay
               PROVE  q[1] \notin Cached(cache)
    BY <1>1 DEF StillMissing
  <2>1. j < nextP
    BY DEF LocDomain, Live
  <2>2. i # n
    BY <1>2, <1>3, <2>1 DEF Batches
  <2>. QED BY <1>4, <2>2 DEF StillMissing
<1>21. Values'
  <2>1. ASSUME NEW w \in Ways, w \notin Range(taken), cache.tag[w] # NoIdx, cache.tag[w] \notin torn
        PROVE  l1[w] = Latest(cache.tag[w])'
    <3>1. PICK x : x = cache.tag[w]
      OBVIOUS
    <3>. QED BY <1>1, <1>10, <2>1, <3>1 DEF Values
  <2>2. ASSUME NEW x \in Idx, x \notin Cached(cache), x \notin torn PROVE uvm[x] = Latest(x)'
    BY <1>10, <2>2 DEF Values
  <2>3. ASSUME NEW x \in DOMAIN taken, x \notin torn PROVE l1[taken[x]] = Latest(x)'
    BY <1>10, <2>3 DEF Values
  <2>4. ASSUME NEW x \in DOMAIN taken, cache.tag[taken[x]] # NoIdx, cache.tag[taken[x]] \notin torn
        PROVE  uvm[cache.tag[taken[x]]] = Latest(cache.tag[taken[x]])'
    <3>1. PICK y : y = cache.tag[taken[x]]
      OBVIOUS
    <3>. QED BY <1>1, <1>10, <2>4, <3>1 DEF Values
  <2>5. ASSUME NEW i \in Batches, Holds(i)', NEW q \in DOMAIN loc[i], loc[i][q] = NoWay, q[1] \notin torn
        PROVE  uvm[q[1]] = Latest(q[1])'
    <3>1. Holds(i)
      BY <1>4, <1>8, <2>5
    <3>. QED BY <1>10, <2>5, <3>1 DEF Values
  <2>. QED BY <1>1, <2>1, <2>2, <2>3, <2>4, <2>5 DEF Values
<1>. QED BY <1>11, <1>12, <1>13, <1>14, <1>15, <1>16, <1>17, <1>18, <1>19, <1>20, <1>21

LEMMA HostDevice ==
    ASSUME Depth = 1, Order, Device,
           (\E P \in [Passes -> SUBSET Idx] : Prefetch(P)) \/ Forward \/ Backward \/ Flush
    PROVE  Device'
<1>1. PICK n \in Nat : n = nextP /\ n # 0
  BY DEF Order, Turns
<1>2. ASSUME NEW P \in [Passes -> SUBSET Idx], Prefetch(P) PROVE Device'
  <2>1. SameUpTo(n) /\ \A p \in Passes : batch'[n][p] = {} \/ ToLookUp(n, p)'
    BY <1>1, <1>2, PrefetchOrder
  <2>2. UNCHANGED <<pipeline, lfu, device>> /\ nextP' = nextP + 1
    BY <1>2 DEF Prefetch
  <2>3. n = (IF nextP' = nextP THEN 0 ELSE nextP) /\ nextP' \in {nextP, nextP + 1}
    BY <1>1, <2>2
  <2>. QED BY <2>1, <2>2, <2>3, DeviceStays
<1>3. ASSUME SameUpTo(0), UNCHANGED <<pipeline, lfu, device>>, nextP' = nextP PROVE Device'
  <2>1. PICK m : m = 0 /\ SameUpTo(m)
    BY <1>3
  <2>2. m = (IF nextP' = nextP THEN 0 ELSE nextP) /\ nextP' \in {nextP, nextP + 1}
    BY <1>3, <2>1
  <2>. QED BY <1>3, <2>1, <2>2, DeviceStays
<1>4. CASE Forward
  BY <1>3, <1>4, ForwardOrder DEF Forward
<1>5. CASE Backward
  <2>1. UNCHANGED <<pipeline, lfu, device>> /\ nextP' = nextP
    BY <1>5 DEF Backward
  <2>. QED BY <1>3, <1>5, <2>1, BackwardOrder
<1>6. CASE Flush
  BY <1>3, <1>6, FlushOrder DEF Flush
<1>. QED BY <1>2, <1>4, <1>5, <1>6

LEMMA ForwardDevice ==
    ASSUME Order, Device, ForwardRun
    PROVE  Device'
<1>1. Ready("main") /\ Done("main") /\ UNCHANGED device /\ Head(todo["main"]).work = "forward"
  BY DEF ForwardRun, Runs, Ready
<1>2. PICK i, work : i = Piece("main", ran["main"] + 1).i /\ work = Piece("main", ran["main"] + 1).work
  OBVIOUS
<1>3. work = "forward" /\ Training(ran["main"] + 1)
  BY <1>1, <1>2, QueueFacts DEF Order, Ready, Streams, Training, Inserting
<1>4. UNCHANGED <<pipeline, lfu, nextP, batch>>
  BY <1>1 DEF Done, host
<1>5. PICK m : m = 0
  OBVIOUS
<1>6. SameUpTo(m)
  BY <1>1, <1>2, <1>3, <1>4, TrainingDone DEF SameUpTo
<1>7. m = (IF nextP' = nextP THEN 0 ELSE nextP) /\ nextP' \in {nextP, nextP + 1}
  BY <1>4, <1>5
<1>. QED BY <1>1, <1>4, <1>5, <1>6, <1>7, DeviceStays

-----------------------------------------------------------------------------
(* The kernels of the training. *)

(* A batch about to be run forward, unlocked or trained is looked up, and   *)
(* holds its ways until it is unlocked.                                     *)
LEMMA AboutToTrain ==
    ASSUME Order, Device, Ready("main"),
           NEW i, i = Piece("main", ran["main"] + 1).i,
           NEW work, work = Piece("main", ran["main"] + 1).work, work \in {"forward", "unlock", "backward"}
    PROVE  /\ i \in Batches /\ Live(i) /\ ~ ToInsert(i) /\ Training(ran["main"] + 1)
           /\ pipeline => (Holds(i) <=> work # "backward")
           /\ work = "unlock" => pipeline
           /\ \A j \in Batches : IsTrained(j) <=> j < i
           /\ DOMAIN loc[i] = {q \in Idx \X Passes : q[1] \in batch[i][q[2]]}
<1> USE DEF Order, Device
<1>1. PICK r \in Nat : /\ r = ran["main"] + 1 /\ r \in Queue("main") /\ Piece("main", r) \in Pieces
                       /\ \A q \in Queue("main") : r <= q /\ q \in Nat
  BY QueueFacts DEF Ready, Streams
<1>2. /\ ContentOf("main", r) /\ Training(r) /\ i = Piece("main", r).i /\ work = Piece("main", r).work
      /\ todo["main"] # <<>>
  BY <1>1 DEF Contents, Streams, Training, Inserting, Ready
<1>3. /\ i \in Nat /\ 1 <= i /\ \A j \in Batches : IsTrained(j) <=> j < i
  BY <1>1, <1>2, TrainedBefore
<1>4. /\ i < nextP /\ i \in Batches
  BY <1>2, <1>3, UVMConstants DEF ContentOf, Turns, Training, Batches
<1>5. Live(i)
  BY <1>3, <1>4 DEF Live
<1>6. ~ ToInsert(i)
  <2>1. SUFFICES ASSUME NEW s \in Streams, NEW q \in Queue(s), Inserting(s, q), Piece(s, q).i = i PROVE FALSE
    BY DEF ToInsert
  <2>2. Before(s, q, "main", r)
    BY <1>1, <1>2, <1>3, <2>1 DEF LookedUpFirst
  <2>. QED BY <1>1, <2>1, <2>2, HeadIsFirst DEF Streams
<1>7. ASSUME pipeline, work = "backward" PROVE ~ Holds(i)
  <2>1. SUFFICES ASSUME NEW q \in Queue("main"), Is("main", q, "unlock", i) PROVE FALSE
    BY <1>2, <1>7 DEF ContentOf, Holds, Unlocked, Queued
  <2>2. q # r
    BY <1>2, <1>7, <2>1 DEF Is
  <2>3. r < q /\ Training(q)
    BY <1>1, <2>1, <2>2 DEF Is, Training, Inserting
  <2>4. i < i
    BY <1>1, <1>2, <1>7, <2>1, <2>3 DEF MainOrder, Is
  <2>. QED BY <1>3, <2>4
<1>8. ASSUME pipeline, work # "backward" PROVE Holds(i)
  <2>1. SUFFICES ASSUME Unlocked(i) PROVE FALSE
    BY <1>5, <1>8 DEF Holds
  <2>. QED BY <1>1, <1>2, <1>4, <1>5, <1>8, <2>1, UnlockedIsNext DEF Is
<1>9. work = "unlock" => pipeline
  BY <1>2 DEF ContentOf
<1>10. \A p : ~ ToLookUp(i, p)
  BY <1>6 DEF ToLookUp, ToInsert, Is, Inserting
<1>11. DOMAIN loc[i] = {q \in Idx \X Passes : q[1] \in batch[i][q[2]]}
  BY <1>4, <1>5, <1>10 DEF LocDomain
<1>. QED BY <1>1, <1>2, <1>3, <1>4, <1>5, <1>6, <1>7, <1>8, <1>9, <1>11

LEMMA NothingTaken ==
    ASSUME Order, Device, Ready("main"), Piece("main", ran["main"] + 1).work \in {"unlock", "backward"}
    PROVE  DOMAIN taken = {} /\ Range(taken) = {}
BY NotMid DEF Device, Taking, Range

LEMMA CacheFacts ==
    ASSUME Device
    PROVE  /\ cache.tag \in [Ways -> Idx \cup {NoIdx}] /\ cache.time \in [Ways -> Nat]
           /\ cache.lock \in [Ways -> Nat] /\ cache \in Caches /\ UniqueTags(cache)
           /\ \A i \in Batches : /\ loc[i] \in Locations /\ DOMAIN loc[i] \subseteq Idx \X Passes
                                 /\ \A q \in DOMAIN loc[i] : loc[i][q] \in Ways \cup {NoWay} /\ q[1] \in Idx
           /\ NoIdx \notin Idx /\ NoWay \notin Ways
<1> USE DEF Device, DeviceOK
<1>1. ASSUME NEW i \in Batches
      PROVE  /\ loc[i] \in Locations /\ DOMAIN loc[i] \subseteq Idx \X Passes
             /\ \A q \in DOMAIN loc[i] : loc[i][q] \in Ways \cup {NoWay} /\ q[1] \in Idx
  <2>1. PICK D \in SUBSET (Idx \X Passes) : loc[i] \in [D -> Ways \cup {NoWay}]
    BY DEF Locations
  <2>. QED BY <2>1
<1>. QED BY <1>1, UVMConstants DEF Caches, NoWay

(* Batches finitely many: a user more or less is one lock more or less. *)
LEMMA UsersFinite ==
    ASSUME NEW w
    PROVE  IsFiniteSet(Users(w)) /\ Cardinality(Users(w)) \in Nat /\ (Cardinality(Users(w)) = 0 <=> Users(w) = {})
<1>1. IsFiniteSet(Batches)
  BY UVMConstants, FS_Interval DEF Batches
<1>2. Users(w) \in SUBSET Batches
  BY DEF Users
<1>3. IsFiniteSet(Users(w))
  BY <1>1, <1>2, FS_Subset
<1>. QED BY <1>3, FS_CardinalityType, FS_EmptySet

(* The unlocking and the second lookup. *)
LEMMA UnlockDevice ==
    ASSUME Order, Device, UpdateLocations
    PROVE  Device'
<1> USE DEF Device
<1>1. PICK i, r : i = Piece("main", ran["main"] + 1).i /\ r = ran["main"] + 1
  OBVIOUS
<1>2. /\ Ready("main") /\ Done("main") /\ i = Head(todo["main"]).i
      /\ Piece("main", ran["main"] + 1).work = "unlock"
  BY <1>1, QueueFacts DEF UpdateLocations, Runs, Ready, Order, Streams
<1>3. /\ i \in Batches /\ Live(i) /\ ~ ToInsert(i) /\ Training(ran["main"] + 1) /\ Holds(i) /\ pipeline
      /\ \A j \in Batches : IsTrained(j) <=> j < i
  <2>1. PICK work : work = "unlock"
    OBVIOUS
  <2>. QED BY <1>1, <1>2, <2>1, AboutToTrain
<1>4. DOMAIN taken = {} /\ Range(taken) = {} /\ \A j, p : ~ Mid(j, p)
  BY <1>2, NothingTaken, NotMid
<1>5. /\ cache' = [cache EXCEPT !.lock = [w \in Ways |-> IF InLoc(i, w) THEN @[w] - 1 ELSE @[w]]]
      /\ loc' = [loc EXCEPT ![i] = LookedUp(i)] /\ UNCHANGED <<l1, uvm, taken, torn>>
      /\ UNCHANGED <<pipeline, lfu, nextP, batch>> /\ Gap' = Gap
  <2>1. \A w \in Ways : w \in {loc[i][q] : q \in DOMAIN loc[i]} <=> InLoc(i, w)
    BY DEF InLoc
  <2>2. cache' = Unlock(cache, loc[i]) /\ loc' = [loc EXCEPT ![i] = LookedUp(i)] /\ UNCHANGED <<l1, uvm, taken, torn>>
    BY <1>2 DEF UpdateLocations
  <2>3. Unlock(cache, loc[i]) =
            [cache EXCEPT !.lock = [w \in Ways |-> IF InLoc(i, w) THEN @[w] - 1 ELSE @[w]]]
    BY <2>1 DEF Unlock
  <2>. QED BY <1>2, <2>2, <2>3 DEF Done, host, Gap
<1>6. /\ cache'.tag = cache.tag /\ cache'.time = cache.time
      /\ \A w \in Ways : cache'.lock[w] = IF InLoc(i, w) THEN cache.lock[w] - 1 ELSE cache.lock[w]
  BY <1>5, CacheFacts DEF Caches
<1>7. \A j \in Batches : /\ IsTrained(j)' <=> IsTrained(j)
                         /\ Unlocked(j)' <=> Unlocked(j) \/ j = i
                         /\ ToInsert(j)' <=> ToInsert(j)
                         /\ \A p : /\ ToLookUp(j, p)' <=> ToLookUp(j, p)
                                   /\ ~ Mid(j, p)'
  <2>1. PICK work : work = "unlock"
    OBVIOUS
  <2>. QED BY <1>1, <1>2, <1>3, <1>4, <2>1, TrainingDone
<1>8. \A j \in Batches : /\ Live(j)' <=> Live(j)
                         /\ Holds(j)' <=> Holds(j) /\ j # i
  BY <1>3, <1>5, <1>7 DEF Live, Holds
<1>9. /\ \A j \in Batches : j # i => loc'[j] = loc[j]
      /\ \A j \in Batches : DOMAIN loc'[j] = DOMAIN loc[j]
      /\ loc'[i] = LookedUp(i) /\ \A q \in DOMAIN loc[i] : loc'[i][q] = Location(cache, q[1])
      /\ loc' \in [Batches -> Locations]
  <2>1. loc \in [Batches -> Locations]
    BY DEF DeviceOK
  <2>2. LookedUp(i) = [q \in DOMAIN loc[i] |-> Location(cache, q[1])]
    BY DEF LookedUp
  <2>3. \A q \in DOMAIN loc[i] : Location(cache, q[1]) \in Ways \cup {NoWay}
    BY <1>3, CacheFacts, LocationFacts
  <2>4. LookedUp(i) \in Locations
    <3>1. PICK D \in SUBSET (Idx \X Passes) : D = DOMAIN loc[i]
      BY <1>3, CacheFacts
    <3>2. LookedUp(i) \in [D -> Ways \cup {NoWay}]
      BY <2>2, <2>3, <3>1
    <3>. QED BY <3>2 DEF Locations
  <2>. QED BY <1>3, <1>5, <2>1, <2>2, <2>4
<1>10. /\ \A j \in Batches : j # i => \A w : InLoc(j, w)' <=> InLoc(j, w)
       /\ \A j \in Batches : \A w : /\ InUse(j, w) <=> InLoc(j, w)
                                    /\ InUse(j, w)' <=> InLoc(j, w)'
  BY <1>4, <1>7, <1>9 DEF InLoc, InUse, Hit
<1>11. \A w : Users(w)' = Users(w) \ {i}
  BY <1>8, <1>10 DEF Users
<1>12. \A w : InLoc(i, w) <=> i \in Users(w)
  BY <1>3, <1>10 DEF Users
<1>13. Locks' /\ cache'.lock \in [Ways -> Nat]
  <2>1. ASSUME NEW w \in Ways PROVE cache'.lock[w] = Cardinality(Users(w) \ {i}) /\ cache'.lock[w] \in Nat
    <3>1. Cardinality(Users(w) \ {i}) = (IF i \in Users(w) THEN Cardinality(Users(w)) - 1 ELSE Cardinality(Users(w)))
          /\ Cardinality(Users(w) \ {i}) \in Nat
      BY UsersFinite, FS_RemoveElement, FS_CardinalityType
    <3>2. cache.lock[w] = Cardinality(Users(w))
      BY DEF Locks
    <3>. QED BY <1>6, <1>12, <3>1, <3>2
  <2>2. DOMAIN cache'.lock = Ways /\ cache'.lock = [w \in Ways |-> cache'.lock[w]]
    BY <1>5, CacheFacts DEF Caches
  <2>. QED BY <1>11, <2>1, <2>2 DEF Locks
<1>14. DeviceOK'
  <2>1. cache' \in Caches
    BY <1>5, <1>6, <1>13, CacheFacts DEF Caches
  <2>2. UniqueTags(cache')
    BY <1>6, CacheFacts DEF UniqueTags
  <2>. QED BY <1>5, <1>9, <2>1, <2>2 DEF DeviceOK
<1>15. LocDomain' /\ LaterEmpty'
  <2>1. ASSUME NEW j \in Batches
        PROVE  DOMAIN loc'[j] = IF Live(j)' THEN {q \in Idx \X Passes : q[1] \in batch'[j][q[2]] /\ ~ ToLookUp(j, q[2])'}
                                ELSE {}
    <3>1. DOMAIN loc[j] = IF Live(j) THEN {q \in Idx \X Passes : q[1] \in batch[j][q[2]] /\ ~ ToLookUp(j, q[2])}
                          ELSE {}
      BY DEF LocDomain
    <3>. QED BY <1>5, <1>7, <1>8, <1>9, <3>1
  <2>2. LocDomain'
    BY <2>1 DEF LocDomain
  <2>3. LaterEmpty'
    BY <1>5, <1>7, <1>8, <1>9 DEF LaterEmpty
  <2>. QED BY <2>2, <2>3
<1>16. /\ Cached(cache') = Cached(cache)
       /\ \A x : Location(cache', x) = Location(cache, x)
  BY <1>6, LocationOfTags
<1>17. Located'
  <2> SUFFICES ASSUME NEW j \in Batches, NEW q \in DOMAIN loc'[j], NEW w \in Ways, loc'[j][q] = w
               PROVE  cache'.tag[w] = q[1]
    BY DEF Located
  <2>1. CASE j = i
    BY <1>6, <1>9, <2>1, CacheFacts, LocationFacts
  <2>2. CASE j # i
    BY <1>6, <1>9, <2>2 DEF Located
  <2>. QED BY <2>1, <2>2
<1>18. Fixed'
  BY <1>8, <1>9, <1>16 DEF Fixed
<1>19. Taking'
  BY <1>4, <1>5, <1>7 DEF Taking
<1>20. Times'
  BY <1>5, <1>6, <1>7, <1>8, <1>10 DEF Times
<1>21. Full'
  <2>1. ASSUME NEW a \in Batches, NEW b \in Batches, a < b, Holds(a)' PROVE DOMAIN loc[b] = {}
    <3>1. Live(a) /\ a # i /\ ~ (a < i)
      BY <1>3, <1>8, <2>1 DEF Live, Holds
    <3>2. i + Gap <= b
      BY <1>3, <2>1, <3>1 DEF Gap, Batches
    <3>. QED BY <1>3, <2>1, <3>2 DEF LaterEmpty
  <2>. QED BY <1>7, <1>9, <2>1 DEF Full, InLoc
<1>22. StillMissing'
  <2> SUFFICES ASSUME NEW a \in Batches, NEW b \in Batches, a < b, Live(a), NEW q \in DOMAIN loc[b],
                      loc'[b][q] = NoWay
               PROVE  q[1] \notin Cached(cache)
    BY <1>8, <1>9, <1>16 DEF StillMissing
  <2>1. CASE b = i
    BY <1>3, <2>1 DEF Live
  <2>2. CASE b # i
    BY <1>9, <2>2 DEF StillMissing
  <2>. QED BY <2>1, <2>2
<1>23. \A x : Latest(x)' = Latest(x)
  BY <1>5, <1>7, SameLatest DEF Indices
<1>24. Values'
  <2>1. ASSUME NEW w \in Ways, cache.tag[w] # NoIdx, NEW x, x = cache.tag[w], x \notin torn PROVE l1[w] = Latest(x)'
    BY <1>4, <1>23, <2>1 DEF Values
  <2>2. ASSUME NEW x \in Idx, x \notin Cached(cache), x \notin torn PROVE uvm[x] = Latest(x)'
    BY <1>23, <2>2 DEF Values
  <2>3. ASSUME NEW j \in Batches, Holds(j)', NEW q \in DOMAIN loc'[j], loc'[j][q] = NoWay, q[1] \notin torn
        PROVE  uvm[q[1]] = Latest(q[1])'
    BY <1>8, <1>9, <1>23, <2>3 DEF Values
  <2>4. \A w \in Ways : cache'.tag[w] # NoIdx /\ cache'.tag[w] \notin torn => l1'[w] = Latest(cache.tag[w])'
    <3>1. ASSUME NEW w \in Ways, cache'.tag[w] # NoIdx, cache'.tag[w] \notin torn PROVE l1'[w] = Latest(cache.tag[w])'
      <4>1. PICK x : x = cache.tag[w] /\ x = cache'.tag[w]
        BY <1>6
      <4>. QED BY <1>5, <2>1, <3>1, <4>1
    <3>. QED BY <3>1
  <2>. QED BY <1>4, <1>5, <1>16, <2>2, <2>3, <2>4 DEF Values
<1>. QED BY <1>13, <1>14, <1>15, <1>17, <1>18, <1>19, <1>20, <1>21, <1>22, <1>24

LEMMA IndicesInIdx ==
    ASSUME Order, NEW j \in Batches
    PROVE  Indices(j) \subseteq Idx /\ \A x : x \in Indices(j) <=> \E p \in Passes : x \in batch[j][p]
BY DEF Order, Turns, Indices

(* The backward: every row of the batch is trained where it is found. *)
LEMMA BackwardDevice ==
    ASSUME Order, Device, BackwardRun
    PROVE  Device'
<1> USE DEF Device
<1>1. PICK i, r : i = Piece("main", ran["main"] + 1).i /\ r = ran["main"] + 1
  OBVIOUS
<1>2. /\ Ready("main") /\ Done("main") /\ i = Head(todo["main"]).i
      /\ Piece("main", ran["main"] + 1).work = "backward"
  BY <1>1, QueueFacts DEF BackwardRun, Runs, Ready, Order, Streams
<1>3. /\ i \in Batches /\ Live(i) /\ ~ ToInsert(i) /\ Training(ran["main"] + 1) /\ ~ Holds(i)
      /\ \A j \in Batches : IsTrained(j) <=> j < i
      /\ DOMAIN loc[i] = {q \in Idx \X Passes : q[1] \in batch[i][q[2]]}
  <2>1. PICK work : work = "backward"
    OBVIOUS
  <2>2. pipeline => ~ Holds(i)
    BY <1>1, <1>2, <2>1, AboutToTrain
  <2>. QED BY <1>1, <1>2, <2>1, <2>2, AboutToTrain DEF Holds
<1>4. DOMAIN taken = {} /\ Range(taken) = {} /\ \A j, p : ~ Mid(j, p)
  BY <1>2, NothingTaken, NotMid
<1>5. PICK at \in [Indices(i) -> Ways \cup {NoWay}] :
          /\ \A x \in Indices(i) : \E p \in Passes : x \in batch[i][p] /\ at[x] = loc[i][<<x, p>>]
          /\ l1' = [w \in Ways |-> l1[w] + Cardinality({x \in Indices(i) : at[x] = w})]
          /\ uvm' = [x \in Idx |-> IF x \in Indices(i) /\ at[x] = NoWay THEN uvm[x] + 1 ELSE uvm[x]]
  <2> DEFINE Ats(j) == {f \in [Indices(j) -> Ways \cup {NoWay}] :
                            \A x \in Indices(j) : \E p \in Passes : x \in batch[j][p] /\ f[x] = loc[j][<<x, p>>]}
             Trains(j, at) ==
                 /\ l1' = [w \in Ways |-> l1[w] + Cardinality({x \in Indices(j) : at[x] = w})]
                 /\ uvm' = [x \in Idx |-> IF x \in Indices(j) /\ at[x] = NoWay THEN uvm[x] + 1 ELSE uvm[x]]
  <2>1. \E at \in Ats(Head(todo["main"]).i) : Trains(Head(todo["main"]).i, at)
    BY Zenon DEF BackwardRun
  <2>2. \E at \in Ats(i) : Trains(i, at)
    <3> HIDE DEF Ats, Trains
    <3>. QED BY <1>2, <2>1
  <2>3. \A at \in Ats(i) : /\ at \in [Indices(i) -> Ways \cup {NoWay}]
                           /\ \A x \in Indices(i) : \E p \in Passes : x \in batch[i][p] /\ at[x] = loc[i][<<x, p>>]
    OBVIOUS
  <2>. QED BY <2>2, <2>3
<1>6. /\ loc' = [loc EXCEPT ![i] = Nothing] /\ UNCHANGED <<cache, taken, torn>>
      /\ UNCHANGED <<pipeline, lfu, nextP, batch>> /\ Gap' = Gap
  BY <1>2 DEF BackwardRun, Done, host, Gap
<1>7. \A j \in Batches : /\ IsTrained(j)' <=> IsTrained(j) \/ j = i
                         /\ Unlocked(j)' <=> Unlocked(j)
                         /\ ToInsert(j)' <=> ToInsert(j)
                         /\ \A p : /\ ToLookUp(j, p)' <=> ToLookUp(j, p)
                                   /\ ~ Mid(j, p)'
  <2>1. PICK work : work = "backward"
    OBVIOUS
  <2>. QED BY <1>1, <1>2, <1>3, <1>4, <2>1, TrainingDone
<1>8. \A j \in Batches : /\ Live(j)' <=> Live(j) /\ j # i
                         /\ Holds(j)' <=> Holds(j)
                         /\ Holds(j) => j # i
  BY <1>3, <1>6, <1>7 DEF Live, Holds
<1>9. /\ \A j \in Batches : j # i => loc'[j] = loc[j]
      /\ loc'[i] = Nothing /\ DOMAIN loc'[i] = {} /\ loc' \in [Batches -> Locations]
  <2>1. loc \in [Batches -> Locations]
    BY DEF DeviceOK
  <2>2. Nothing \in [{} -> Ways \cup {NoWay}] /\ DOMAIN Nothing = {}
    BY DEF Nothing
  <2>3. {} \in SUBSET (Idx \X Passes)
    OBVIOUS
  <2>4. Nothing \in Locations
    BY <2>2, <2>3 DEF Locations
  <2>. QED BY <1>3, <1>6, <2>1, <2>2, <2>4
<1>10. \A x \in Indices(i) : x \in Idx /\ at[x] = Location(cache, x)
  <2> SUFFICES ASSUME NEW x \in Indices(i) PROVE x \in Idx /\ at[x] = Location(cache, x)
    OBVIOUS
  <2>1. PICK p \in Passes : x \in batch[i][p] /\ at[x] = loc[i][<<x, p>>]
    BY <1>5
  <2>2. x \in Idx
    BY <1>3, IndicesInIdx
  <2>3. PICK q \in Idx \X Passes : q = <<x, p>> /\ q[1] = x /\ q[2] = p
    <3>1. <<x, p>> \in Idx \X Passes
      BY <2>1, <2>2
    <3>. QED BY <3>1
  <2>4. q \in DOMAIN loc[i]
    BY <1>3, <2>1, <2>3
  <2>5. loc[i][q] = Location(cache, q[1])
    BY <1>3, <2>4 DEF Fixed
  <2>. QED BY <2>1, <2>2, <2>3, <2>5
\* The rows and how often they are trained, one more each.
<1>11. ASSUME NEW x PROVE Latest(x)' = Latest(x) + (IF x \in Indices(i) THEN 1 ELSE 0) /\ Latest(x) \in Nat
  <2>1. PICK T : T = {j \in Batches : IsTrained(j) /\ x \in Indices(j)}
    OBVIOUS
  <2>2. IsFiniteSet(T) /\ i \notin T /\ Cardinality(T) \in Nat
    <3>1. IsFiniteSet(Batches) /\ T \in SUBSET Batches
      BY <2>1, UVMConstants, FS_Interval DEF Batches
    <3>2. IsFiniteSet(T)
      BY <3>1, FS_Subset
    <3>. QED BY <1>3, <2>1, <3>2, FS_CardinalityType DEF Live
  <2>3. {j \in Batches : IsTrained(j)' /\ x \in Indices(j)'} = IF x \in Indices(i) THEN T \cup {i} ELSE T
    BY <1>3, <1>6, <1>7, <2>1 DEF Indices
  <2>4. Latest(x) = Cardinality(T)
    BY <2>1 DEF Latest
  <2>5. Latest(x)' = Cardinality({j \in Batches : IsTrained(j)' /\ x \in Indices(j)'})
    BY DEF Latest
  <2>6. Cardinality(T \cup {i}) = Cardinality(T) + 1
    BY <2>2, FS_AddElement
  <2>. QED BY <2>2, <2>3, <2>4, <2>5, <2>6
<1>12. ASSUME NEW w \in Ways, NEW x, x = cache.tag[w]
       PROVE  l1'[w] = l1[w] + (IF x \in Indices(i) THEN 1 ELSE 0)
  <2>1. {y \in Indices(i) : at[y] = w} = IF x \in Indices(i) THEN {x} ELSE {}
    BY <1>10, <1>12, CacheFacts, LocationFacts
  <2>. QED BY <1>5, <2>1, FS_EmptySet, FS_Singleton
<1>13. ASSUME NEW x \in Idx, x \notin Cached(cache)
       PROVE  uvm'[x] = uvm[x] + (IF x \in Indices(i) THEN 1 ELSE 0)
  <2>1. Location(cache, x) = NoWay
    BY <1>13, CacheFacts, LocationFacts
  <2>2. uvm[x] \in Int
    BY <1>13 DEF DeviceOK
  <2>. QED BY <1>5, <1>10, <1>13, <2>1, <2>2
<1>14. DeviceOK'
  <2>1. l1' \in [Ways -> Int]
    <3>1. ASSUME NEW w \in Ways PROVE l1'[w] \in Int
      <4>1. PICK x : x = cache.tag[w]
        OBVIOUS
      <4>. QED BY <1>12, <4>1 DEF DeviceOK
    <3>. QED BY <1>5, <3>1
  <2>2. uvm' \in [Idx -> Int]
    BY <1>5 DEF DeviceOK
  <2>. QED BY <1>6, <1>9, <2>1, <2>2 DEF DeviceOK, UniqueTags
<1>15. /\ \A j \in Batches : \A w : /\ j # i => (InLoc(j, w)' <=> InLoc(j, w))
                                    /\ ~ InLoc(i, w)'
                                    /\ InUse(j, w) <=> InLoc(j, w)
                                    /\ InUse(j, w)' <=> InLoc(j, w)'
  BY <1>4, <1>7, <1>9 DEF InLoc, InUse, Hit
<1>16. LocDomain'
  <2> SUFFICES ASSUME NEW j \in Batches
               PROVE  DOMAIN loc'[j] = IF Live(j)' THEN {q \in Idx \X Passes : q[1] \in batch'[j][q[2]] /\ ~ ToLookUp(j, q[2])'}
                                       ELSE {}
    BY DEF LocDomain
  <2>1. CASE j = i
    BY <1>8, <1>9, <2>1
  <2>2. CASE j # i
    <3>1. DOMAIN loc[j] = IF Live(j) THEN {q \in Idx \X Passes : q[1] \in batch[j][q[2]] /\ ~ ToLookUp(j, q[2])}
                          ELSE {}
      BY DEF LocDomain
    <3>. QED BY <1>6, <1>7, <1>8, <1>9, <2>2, <3>1
  <2>. QED BY <2>1, <2>2
<1>17. LaterEmpty'
  <2>1. \A j \in Batches : DOMAIN loc[j] = {} => DOMAIN loc'[j] = {}
    BY <1>9
  <2>. QED BY <1>6, <1>7, <1>8, <2>1 DEF LaterEmpty
<1>18. Located'
  <2> SUFFICES ASSUME NEW j \in Batches, j # i, NEW q \in DOMAIN loc[j], NEW w \in Ways, loc[j][q] = w
               PROVE  cache.tag[w] = q[1]
    BY <1>6, <1>9 DEF Located
  <2>. QED BY DEF Located
<1>19. Fixed'
  <2> SUFFICES ASSUME NEW j \in Batches, j # i, Live(j), ~ Holds(j), NEW q \in DOMAIN loc[j]
               PROVE  loc[j][q] = Location(cache, q[1])
    BY <1>6, <1>8, <1>9 DEF Fixed
  <2>. QED BY DEF Fixed
<1>20. Taking'
  BY <1>4, <1>6, <1>7 DEF Taking
<1>21. Locks'
  <2>1. \A w : Users(w)' = Users(w)
    BY <1>8, <1>15 DEF Users
  <2>. QED BY <1>6, <2>1 DEF Locks
<1>22. Times'
  <2>1. \A j \in Batches : \A w \in Ways : Holds(j)' => Holds(j) /\ (InUse(j, w)' <=> InUse(j, w))
    BY <1>8, <1>15
  <2>. QED BY <1>6, <1>7, <2>1 DEF Times
<1>23. Full'
  <2>1. \A j \in Batches : InLoc(j, NoWay)' => InLoc(j, NoWay)
    BY <1>15
  <2>. QED BY <1>6, <1>7, <1>8, <2>1 DEF Full
<1>24. StillMissing'
  <2> SUFFICES ASSUME NEW a \in Batches, NEW b \in Batches, a < b, Live(a), b # i, NEW q \in DOMAIN loc[b],
                      loc[b][q] = NoWay
               PROVE  q[1] \notin Cached(cache)
    BY <1>6, <1>8, <1>9 DEF StillMissing
  <2>. QED BY DEF StillMissing
<1>25. Values'
  <2>1. ASSUME NEW w \in Ways, cache.tag[w] # NoIdx, NEW x, x = cache.tag[w], x \notin torn PROVE l1'[w] = Latest(x)'
    BY <1>4, <1>11, <1>12, <2>1 DEF Values
  <2>2. ASSUME NEW x \in Idx, x \notin Cached(cache), x \notin torn PROVE uvm'[x] = Latest(x)'
    BY <1>11, <1>13, <2>2 DEF Values
  <2>3. ASSUME NEW j \in Batches, Holds(j)', NEW q \in DOMAIN loc'[j], loc'[j][q] = NoWay, q[1] \notin torn
        PROVE  uvm'[q[1]] = Latest(q[1])'
    <3>1. j # i /\ Live(j) /\ Holds(j) /\ q \in DOMAIN loc[j] /\ loc[j][q] = NoWay
      BY <1>8, <1>9, <2>3 DEF Holds
    <3>2. i < j
      BY <1>3, <3>1 DEF Live, Batches
    <3>3. q[1] \notin Cached(cache) /\ q[1] \in Idx
      BY <1>3, <3>1, <3>2, CacheFacts DEF StillMissing
    <3>. QED BY <2>2, <2>3, <3>3
  <2>4. \A w \in Ways : cache'.tag[w] # NoIdx /\ cache'.tag[w] \notin torn => l1'[w] = Latest(cache.tag[w])'
    <3>1. ASSUME NEW w \in Ways, cache'.tag[w] # NoIdx, cache'.tag[w] \notin torn PROVE l1'[w] = Latest(cache.tag[w])'
      <4>1. PICK x : x = cache.tag[w] /\ x = cache'.tag[w]
        BY <1>6
      <4>. QED BY <1>6, <2>1, <3>1, <4>1
    <3>. QED BY <3>1
  <2>. QED BY <1>4, <1>6, <2>2, <2>3, <2>4 DEF Values
<1>. QED BY <1>14, <1>16, <1>17, <1>18, <1>19, <1>20, <1>21, <1>22, <1>23, <1>24, <1>25

LEMMA FlushDevice ==
    ASSUME Order, Device, FlushRun
    PROVE  Device'
<1> USE DEF Device
<1>1. PICK i : i = Piece("main", ran["main"] + 1).i
  OBVIOUS
<1>2. /\ Ready("main") /\ Done("main") /\ Piece("main", ran["main"] + 1).work = "flush"
      /\ Training(ran["main"] + 1)
  BY QueueFacts DEF FlushRun, Runs, Ready, Order, Streams, Training, Inserting
<1>3. PICK late \in SUBSET Range(taken) :
          /\ uvm' = [x \in Idx |-> IF x \in Cached(cache) \ Moving(Range(taken) \ late)
                                   THEN l1[Location(cache, x)] ELSE uvm[x]]
          /\ torn' = torn \cup Moving(late)
  BY DEF FlushRun
<1>4. /\ UNCHANGED <<cache, l1, loc, taken>>
      /\ UNCHANGED <<pipeline, lfu, nextP, batch>> /\ Gap' = Gap
  BY <1>2 DEF FlushRun, Done, host, Gap
<1>5. \A j \in Batches : /\ IsTrained(j)' <=> IsTrained(j)
                         /\ Unlocked(j)' <=> Unlocked(j)
                         /\ ToInsert(j)' <=> ToInsert(j)
                         /\ \A p : /\ ToLookUp(j, p)' <=> ToLookUp(j, p)
                                   /\ Mid(j, p)' <=> Mid(j, p)
  <2>1. PICK work : work = "flush"
    OBVIOUS
  <2>. QED BY <1>1, <1>2, <2>1, TrainingDone
<1>6. \A j \in Batches : /\ Live(j)' <=> Live(j)
                         /\ Holds(j)' <=> Holds(j)
  BY <1>4, <1>5 DEF Live, Holds
<1>7. \A j \in Batches : \A w : /\ InLoc(j, w)' <=> InLoc(j, w)
                                /\ InUse(j, w)' <=> InUse(j, w)
  BY <1>4, <1>5 DEF InLoc, InUse, Hit
<1>8. \A w : Users(w)' = Users(w)
  BY <1>6, <1>7 DEF Users
<1>9. \A x : Latest(x)' = Latest(x)
  BY <1>4, <1>5, SameLatest DEF Indices
<1>10. ASSUME NEW x \in Idx, x \notin torn' PROVE uvm'[x] = Latest(x) \/ uvm'[x] = uvm[x]
  <2>1. CASE x \in Cached(cache) \ Moving(Range(taken) \ late)
    <3>1. PICK w \in Ways : w = Location(cache, x) /\ cache.tag[w] = x
      BY <2>1, CacheFacts, LocationFacts
    <3>2. x # NoIdx
      BY CacheFacts
    <3>3. w \notin Range(taken)
      BY <1>3, <1>10, <2>1, <3>1, <3>2 DEF Moving
    <3>. QED BY <1>3, <1>10, <2>1, <3>1, <3>2, <3>3 DEF Values
  <2>2. CASE x \notin Cached(cache) \ Moving(Range(taken) \ late)
    BY <1>3, <2>2
  <2>. QED BY <2>1, <2>2
<1>11. DeviceOK'
  <2>1. ASSUME NEW x \in Idx, x \in Cached(cache) PROVE l1[Location(cache, x)] \in Int
    BY <2>1, CacheFacts, LocationFacts DEF DeviceOK
  <2>2. uvm' \in [Idx -> Int]
    BY <1>3, <2>1 DEF DeviceOK
  <2>. QED BY <1>4, <2>2 DEF DeviceOK, UniqueTags
<1>12. LocDomain'
  <2> SUFFICES ASSUME NEW j \in Batches
               PROVE  DOMAIN loc[j] = IF Live(j)' THEN {q \in Idx \X Passes : q[1] \in batch[j][q[2]] /\ ~ ToLookUp(j, q[2])'}
                                      ELSE {}
    BY <1>4 DEF LocDomain
  <2>1. DOMAIN loc[j] = IF Live(j) THEN {q \in Idx \X Passes : q[1] \in batch[j][q[2]] /\ ~ ToLookUp(j, q[2])}
                        ELSE {}
    BY DEF LocDomain
  <2>. QED BY <1>5, <1>6, <2>1
<1>13. LaterEmpty' /\ Located' /\ Fixed'
  BY <1>4, <1>5, <1>6 DEF LaterEmpty, Located, Fixed
<1>14. Taking'
  BY <1>4, <1>5 DEF Taking
<1>15. Locks'
  BY <1>4, <1>8 DEF Locks
<1>16. Times'
  BY <1>4, <1>5, <1>6, <1>7 DEF Times
<1>17. Full'
  BY <1>4, <1>5, <1>6, <1>7 DEF Full
<1>18. StillMissing'
  BY <1>4, <1>6 DEF StillMissing
<1>19. Values'
  <2> torn \subseteq torn'
    BY <1>3
  <2>1. ASSUME NEW w \in Ways, w \notin Range(taken), cache.tag[w] # NoIdx, NEW x, x = cache.tag[w], x \notin torn'
        PROVE  l1'[w] = Latest(x)'
    BY <1>3, <1>4, <1>9, <2>1 DEF Values
  <2>2. ASSUME NEW x \in Idx, x \notin Cached(cache), x \notin torn' PROVE uvm'[x] = Latest(x)'
    BY <1>3, <1>9, <1>10, <2>2 DEF Values
  <2>3. ASSUME NEW x \in DOMAIN taken, x \notin torn' PROVE l1'[taken[x]] = Latest(x)'
    BY <1>3, <1>4, <1>9, <2>3 DEF Values
  <2>4. ASSUME NEW x \in DOMAIN taken, NEW y, y = cache.tag[taken[x]], y # NoIdx, y \notin torn'
        PROVE  uvm'[y] = Latest(y)'
    <3>1. taken[x] \in Ways /\ y \in Idx
      <4>1. PICK D \in SUBSET Idx : taken \in [D -> Ways]
        BY DEF DeviceOK
      <4>. QED BY <2>4, <4>1, CacheFacts
    <3>2. uvm[y] = Latest(y)
      BY <1>3, <2>4 DEF Values
    <3>. QED BY <1>9, <1>10, <2>4, <3>1, <3>2
  <2>5. ASSUME NEW j \in Batches, Holds(j)', NEW q \in DOMAIN loc'[j], loc'[j][q] = NoWay, q[1] \notin torn'
        PROVE  uvm'[q[1]] = Latest(q[1])'
    <3>1. Holds(j) /\ q \in DOMAIN loc[j] /\ loc[j][q] = NoWay /\ q[1] \in Idx /\ q[1] \notin torn
      BY <1>3, <1>4, <1>6, <2>5, CacheFacts
    <3>2. uvm[q[1]] = Latest(q[1])
      BY <3>1 DEF Values
    <3>. QED BY <1>9, <1>10, <2>5, <3>1, <3>2
  <2>6. \A w \in Ways : w \notin Range(taken) /\ cache'.tag[w] # NoIdx /\ cache'.tag[w] \notin torn' =>
            l1'[w] = Latest(cache.tag[w])'
    <3>1. ASSUME NEW w \in Ways, w \notin Range(taken), cache'.tag[w] # NoIdx, cache'.tag[w] \notin torn'
          PROVE  l1'[w] = Latest(cache.tag[w])'
      <4>1. PICK x : x = cache.tag[w] /\ x = cache'.tag[w]
        BY <1>4
      <4>. QED BY <1>4, <2>1, <3>1, <4>1
    <3>. QED BY <3>1
  <2>7. ASSUME NEW x \in DOMAIN taken, cache'.tag[taken[x]] # NoIdx, cache'.tag[taken[x]] \notin torn'
        PROVE  uvm'[cache'.tag[taken[x]]] = Latest(cache.tag[taken[x]])'
    <3>1. PICK y : y = cache.tag[taken[x]] /\ y = cache'.tag[taken[x]]
      BY <1>4
    <3>. QED BY <1>4, <2>4, <2>7, <3>1
  <2>. QED BY <1>4, <2>2, <2>3, <2>5, <2>6, <2>7 DEF Values
<1>. QED BY <1>11, <1>12, <1>13, <1>14, <1>15, <1>16, <1>17, <1>18, <1>19

-----------------------------------------------------------------------------
(* The kernels of a prefetch. *)

(* The first part of an insertion: rows are moved, tags not yet. *)
LEMMA InsertRowsDevice ==
    ASSUME Order, Device, InsertRows
    PROVE  Device'
<1> USE DEF Device
<1>1. PICK i, p, work : /\ i = Piece(side, ran[side] + 1).i /\ p = Piece(side, ran[side] + 1).k
                        /\ work = Piece(side, ran[side] + 1).work
  OBVIOUS
<1>2. /\ Ready(side) /\ Done(side) /\ i = Head(todo[side]).i /\ p = Head(todo[side]).k
      /\ work = "insert" /\ Inserting(side, ran[side] + 1)
  <2>1. Ready(side) /\ Done(side) /\ Head(todo[side]).work = "insert"
    BY DEF InsertRows, Runs, Ready
  <2>2. Piece(side, ran[side] + 1) = Head(todo[side])
    BY <2>1, QueueFacts DEF Order, Turns, Ready
  <2>. QED BY <1>1, <2>1, <2>2 DEF Inserting
<1>3. /\ i \in Batches /\ p \in Passes /\ (p = 2 => pipeline) /\ i < nextP
      /\ ToInsert(i) /\ Live(i) /\ ToLookUp(i, p) /\ (pipeline => Holds(i))
      /\ \A j \in Batches : /\ ToInsert(j) => i <= j
                            /\ Live(j) => i < j + Gap /\ (pipeline => Holds(j))
      /\ \A j, k : ~ Mid(j, k)
  BY <1>1, <1>2, Insertion
<1>4. DOMAIN taken = {} /\ Range(taken) = {}
  BY <1>3 DEF Taking, Range
<1>5. PICK B : B = batch[i][p] /\ B \subseteq Idx
  BY <1>3 DEF Order, Turns
<1>6. PICK missed, found : /\ missed = B \ Cached(cache)
                           /\ found = (IF lfu THEN cache ELSE Touch(cache, B, i, pipeline))
  OBVIOUS
<1>7. PICK a : /\ lfu => \E n : a \in LFUAssignments(found, n, missed)
               /\ ~ lfu => a \in UVMAssignments(found, missed, i, pipeline)
               /\ uvm' = [x \in Idx |-> IF x \in Evicted(found, a) THEN l1[Location(found, x)] ELSE uvm[x]]
               /\ l1' = [w \in Ways |-> IF w \in Range(a) THEN uvm[CHOOSE x \in DOMAIN a : a[x] = w] ELSE l1[w]]
               /\ taken' = a
               /\ cache' = found
  <2> DEFINE Found(b, j) == IF lfu THEN cache ELSE Touch(cache, b, j, pipeline)
             Given(b, j) == IF lfu THEN LFUAssignments(Found(b, j), count', b \ Cached(cache))
                            ELSE UVMAssignments(Found(b, j), b \ Cached(cache), j, pipeline)
             Moves(b, j, a) ==
                 /\ uvm' = [x \in Idx |-> IF x \in Evicted(Found(b, j), a)
                                          THEN l1[Location(Found(b, j), x)] ELSE uvm[x]]
                 /\ l1' = [w \in Ways |-> IF w \in Range(a) THEN uvm[CHOOSE x \in DOMAIN a : a[x] = w] ELSE l1[w]]
                 /\ taken' = a
  <2>1. \E a \in Given(batch[Head(todo[side]).i][Head(todo[side]).k], Head(todo[side]).i) :
            Moves(batch[Head(todo[side]).i][Head(todo[side]).k], Head(todo[side]).i, a)
    BY Zenon DEF InsertRows
  <2>2. cache' = Found(batch[Head(todo[side]).i][Head(todo[side]).k], Head(todo[side]).i)
    BY Zenon DEF InsertRows
  <2>3. PICK a \in Given(B, i) : Moves(B, i, a)
    <3> HIDE DEF Given, Moves
    <3>. QED BY <1>2, <1>5, <2>1
  <2>4. cache' = Found(B, i)
    <3> HIDE DEF Found
    <3>. QED BY <1>2, <1>5, <2>2
  <2>5. found = Found(B, i)
    BY <1>6
  <2> HIDE DEF Found
  <2>6. /\ a \in IF lfu THEN LFUAssignments(found, count', missed)
                 ELSE UVMAssignments(found, missed, i, pipeline)
        /\ uvm' = [x \in Idx |-> IF x \in Evicted(found, a) THEN l1[Location(found, x)] ELSE uvm[x]]
        /\ l1' = [w \in Ways |-> IF w \in Range(a) THEN uvm[CHOOSE x \in DOMAIN a : a[x] = w] ELSE l1[w]]
        /\ taken' = a
    BY <1>6, <2>3, <2>5
  <2>7. lfu => \E n : a \in LFUAssignments(found, n, missed)
    BY <2>6
  <2>. QED BY <2>4, <2>5, <2>6, <2>7
<1>8. /\ loc' = loc /\ torn' = torn /\ UNCHANGED <<pipeline, lfu, nextP, batch>> /\ Gap' = Gap
  <2>1. loc' = loc /\ torn' = torn /\ UNCHANGED host
    BY Zenon, <1>2 DEF InsertRows, Done
  <2>2. UNCHANGED <<pipeline, lfu, nextP, batch>>
    BY <2>1 DEF host
  <2>. QED BY <2>1, <2>2 DEF Gap
<1>9. /\ found.tag = cache.tag /\ found \in Caches /\ UniqueTags(found)
      /\ \A w \in Ways : /\ pipeline => found.time[w] = IF cache.tag[w] \in B THEN i ELSE cache.time[w]
                         /\ found.lock[w] = IF pipeline /\ cache.tag[w] \in B /\ cache.time[w] # i
                                            THEN cache.lock[w] + 1 ELSE cache.lock[w]
  <2>1. pipeline => ~ lfu
    BY DEF DeviceOK
  <2>2. CASE lfu
    BY <1>6, <2>1, <2>2, CacheFacts
  <2>3. CASE ~ lfu
    <3>1. found = [cache EXCEPT !.time = [w \in Ways |-> IF cache.tag[w] \in B THEN i ELSE @[w]],
                                !.lock = [w \in Ways |-> IF pipeline /\ cache.tag[w] \in B /\ cache.time[w] # i
                                                         THEN @[w] + 1 ELSE @[w]]]
      BY <1>6, <2>3 DEF Touch
    <3>2. cache \in Caches /\ i \in Nat
      BY <1>3, CacheFacts DEF Batches
    <3>3. /\ found.tag = cache.tag
          /\ found.time = [w \in Ways |-> IF cache.tag[w] \in B THEN i ELSE cache.time[w]]
          /\ found.lock = [w \in Ways |-> IF pipeline /\ cache.tag[w] \in B /\ cache.time[w] # i
                                          THEN cache.lock[w] + 1 ELSE cache.lock[w]]
          /\ found = [tag |-> found.tag, time |-> found.time, lock |-> found.lock]
      BY <3>1, <3>2 DEF Caches
    <3>4. found.time \in [Ways -> Nat] /\ found.lock \in [Ways -> Nat]
      BY <3>2, <3>3, CacheFacts
    <3>5. found \in Caches
      BY <3>2, <3>3, <3>4 DEF Caches
    <3>. QED BY <3>3, <3>5, CacheFacts DEF UniqueTags
  <2>. QED BY <2>2, <2>3
<1>10. /\ DOMAIN a \subseteq missed /\ a \in [DOMAIN a -> Ways]
       /\ \A x, y \in DOMAIN a : a[x] = a[y] => x = y
       /\ missed \subseteq Idx
  <2>1. missed \in SUBSET Idx
    BY <1>5, <1>6
  <2>2. CASE lfu
    BY <1>7, <2>1, <2>2, LFUWaysGiven
  <2>3. CASE ~ lfu
    <3>1. PICK lk : lk = pipeline
      OBVIOUS
    <3>2. a \in UVMAssignments(found, missed, i, lk) /\ found \in Caches
      BY <1>7, <1>9, <2>3, <3>1
    <3> HIDE DEF Device
    <3>3. /\ DOMAIN a \subseteq missed /\ a \in [DOMAIN a -> Ways]
          /\ \A x, y \in DOMAIN a : a[x] = a[y] => x = y
      <4>1. GoodWays(found, missed, i, lk, a)
        BY <2>1, <3>2, WaysGiven
      <4>. QED BY <4>1 DEF GoodWays
    <3>. QED BY <2>1, <3>3
  <2>. QED BY <2>1, <2>2, <2>3
<1>11. ASSUME pipeline
       PROVE  /\ \A x \in DOMAIN a : found.time[a[x]] # i /\ ~ (found.lock[a[x]] > 0)
              /\ DOMAIN a # missed => \E W \in SUBSET Ways :
                   /\ \A w \in W : w \in Range(a) \/ found.time[w] = i \/ found.lock[w] > 0
                   /\ W = Ways \/ \E w \in W : w \notin Range(a)
                   /\ \A w \in W, v \in Ways \ W : found.time[w] <= found.time[v]
  <2>1. PICK lk : lk = TRUE /\ lk = pipeline
    BY <1>11 DEF Order, Turns
  <2>2. a \in UVMAssignments(found, missed, i, lk) /\ missed \in SUBSET Idx /\ found \in Caches
    BY <1>7, <1>9, <1>10, <1>11, <2>1 DEF DeviceOK
  <2> HIDE DEF Device
  <2>3. /\ \A x \in DOMAIN a : found.time[a[x]] # i /\ ~ (lk /\ found.lock[a[x]] > 0)
        /\ DOMAIN a # missed => \E W \in SUBSET Ways :
              /\ \A w \in W : w \in Range(a) \/ found.time[w] = i \/ (lk /\ found.lock[w] > 0)
              /\ W = Ways \/ \E w \in W : w \notin Range(a)
              /\ \A w \in W, v \in Ways \ W : found.time[w] <= found.time[v]
    <3>1. GoodWays(found, missed, i, lk, a)
      BY <2>2, WaysGiven
    <3>. QED BY <3>1 DEF GoodWays
  <2>. QED BY <2>1, <2>3
<1>12. \A j \in Batches : /\ IsTrained(j)' <=> IsTrained(j)
                          /\ Unlocked(j)' <=> Unlocked(j)
                          /\ ToInsert(j)' => ToInsert(j)
                          /\ \A k : /\ ToLookUp(j, k)' <=> ToLookUp(j, k)
                                    /\ Mid(j, k)' <=> j = i /\ k = p
  BY <1>1, <1>2, InsertionDone
<1>13. \A j \in Batches : /\ Live(j)' <=> Live(j)
                          /\ Holds(j)' <=> Holds(j)
  BY <1>8, <1>12 DEF Live, Holds
<1>14. \A j \in Batches : \A w : /\ InLoc(j, w)' <=> InLoc(j, w)
                                 /\ InUse(j, w) <=> InLoc(j, w)
                                 /\ InUse(j, w)' <=> InLoc(j, w) \/ (j = i /\ cache.tag[w] \in B)
  BY <1>3, <1>5, <1>7, <1>8, <1>9, <1>12 DEF InLoc, InUse, Hit
<1>15. /\ Cached(cache') = Cached(cache) /\ Cached(found) = Cached(cache)
       /\ \A x : Location(cache', x) = Location(cache, x) /\ Location(found, x) = Location(cache, x)
  BY <1>7, <1>9, LocationOfTags
<1>16. \A x : Latest(x)' = Latest(x)
  BY <1>8, <1>12, SameLatest DEF Indices
<1>17. \A w : Users(w)' = IF pipeline /\ cache.tag[w] \in B THEN Users(w) \cup {i} ELSE Users(w)
  BY <1>3, <1>13, <1>14 DEF Users, Holds
<1>18. Locks' /\ \A w \in Ways : cache'.lock[w] >= cache.lock[w] /\ (cache'.lock[w] > 0 <=> Users(w)' # {})
                                 /\ cache.lock[w] \in Nat
  <2>1. ASSUME NEW w \in Ways
        PROVE  /\ cache'.lock[w] = Cardinality(Users(w)') /\ cache'.lock[w] >= cache.lock[w]
               /\ cache'.lock[w] > 0 <=> Users(w)' # {}
               /\ cache.lock[w] \in Nat
    <3>1. PICK U : U = Users(w)
      OBVIOUS
    <3>2. cache.lock[w] = Cardinality(U) /\ IsFiniteSet(U) /\ Cardinality(U) \in Nat /\ (Cardinality(U) = 0 <=> U = {})
      BY <3>1, UsersFinite DEF Locks
    <3>6. cache'.lock[w] = IF pipeline /\ cache.tag[w] \in B /\ cache.time[w] # i
                           THEN cache.lock[w] + 1 ELSE cache.lock[w]
      BY <1>7, <1>9
    <3>7. Users(w)' = IF pipeline /\ cache.tag[w] \in B THEN U \cup {i} ELSE U
      BY <1>17, <3>1
    <3>3. CASE pipeline /\ cache.tag[w] \in B /\ cache.time[w] # i
      <4>1. i \notin U
        <5>1. SUFFICES ASSUME Holds(i), InUse(i, w) PROVE FALSE
          BY <3>1 DEF Users
        <5>2. i <= cache.time[w]
          BY <1>3, <5>1 DEF Times
        <5>3. cache.time[w] <= i /\ cache.time[w] \in Nat /\ i \in Nat
          BY <1>3, <3>3, CacheFacts DEF Times, Batches
        <5>. QED BY <3>3, <5>2, <5>3
      <4>2. Cardinality(U \cup {i}) = Cardinality(U) + 1
        BY <3>2, <4>1, FS_AddElement
      <4>. QED BY <3>2, <3>6, <3>7, <3>3, <4>2
    <3>4. CASE pipeline /\ cache.tag[w] \in B /\ cache.time[w] = i
      <4>1. i \in U
        BY <1>3, <3>1, <3>4 DEF Times, Users
      <4>2. U \cup {i} = U
        BY <4>1
      <4>. QED BY <3>2, <3>6, <3>7, <3>4, <4>2
    <3>5. CASE ~ (pipeline /\ cache.tag[w] \in B)
      BY <3>2, <3>5, <3>6, <3>7
    <3>. QED BY <3>3, <3>4, <3>5
  <2>. QED BY <2>1 DEF Locks
<1>19. ASSUME NEW x \in DOMAIN a
       PROVE  a[x] \in Ways /\ a[x] \in Range(a) /\ (CHOOSE y \in DOMAIN a : a[y] = a[x]) = x /\ x \in Idx
  BY <1>10 DEF Range
<1>20. ASSUME NEW w \in Ways, w \in Range(a) PROVE \E x \in DOMAIN a : a[x] = w
  BY <1>20 DEF Range

<1>21. \A x \in Evicted(found, a) : \E y \in DOMAIN a : /\ x = cache.tag[a[y]] /\ x # NoIdx /\ a[y] \in Ways
                                                        /\ x \in Idx /\ Location(found, x) = a[y]
  <2> SUFFICES ASSUME NEW x \in Evicted(found, a)
               PROVE  \E y \in DOMAIN a : /\ x = cache.tag[a[y]] /\ x # NoIdx /\ a[y] \in Ways
                                          /\ x \in Idx /\ Location(found, x) = a[y]
    OBVIOUS
  <2>1. PICK y \in DOMAIN a : x = found.tag[a[y]] /\ x # NoIdx
    BY DEF Evicted
  <2>2. a[y] \in Ways /\ x = cache.tag[a[y]]
    BY <1>9, <1>19, <2>1
  <2>3. x \in Idx
    BY <2>1, <2>2, CacheFacts
  <2>4. Location(found, x) = a[y]
    BY <1>9, <2>1, <2>2, <2>3, LocationFacts
  <2>. QED BY <2>1, <2>2, <2>3, <2>4
<1>22. DeviceOK'
  <2>1. l1' \in [Ways -> Int]
    <3>1. ASSUME NEW w \in Ways PROVE l1'[w] \in Int
      <4>1. CASE w \in Range(a)
        <5>1. PICK x \in DOMAIN a : a[x] = w
          BY <1>20, <4>1
        <5>2. l1'[w] = uvm[x] /\ x \in Idx
          BY <1>7, <1>19, <4>1, <5>1
        <5>. QED BY <5>2 DEF DeviceOK
      <4>2. CASE w \notin Range(a)
        BY <1>7, <4>2 DEF DeviceOK
      <4>. QED BY <4>1, <4>2
    <3>. QED BY <1>7, <3>1
  <2>2. uvm' \in [Idx -> Int]
    <3>1. ASSUME NEW x \in Evicted(found, a) PROVE l1[Location(found, x)] \in Int
      BY <1>21 DEF DeviceOK
    <3>2. \A x \in Idx : uvm'[x] \in Int
      BY <1>7, <3>1 DEF DeviceOK
    <3>. QED BY <1>7, <3>2
  <2>3. taken' \in UNION {[D -> Ways] : D \in SUBSET Idx}
    <3>1. PICK D \in SUBSET Idx : D = DOMAIN a
      BY <1>10
    <3>. QED BY <1>7, <1>10, <3>1
  <2>4. cache' \in Caches /\ UniqueTags(cache')
    BY <1>7, <1>9
  <2>. QED BY <1>8, <2>1, <2>2, <2>3, <2>4 DEF DeviceOK
<1>23. LocDomain'
  <2> SUFFICES ASSUME NEW j \in Batches
               PROVE  DOMAIN loc[j] = IF Live(j)' THEN {q \in Idx \X Passes : q[1] \in batch[j][q[2]] /\ ~ ToLookUp(j, q[2])'}
                                      ELSE {}
    BY <1>8 DEF LocDomain
  <2>1. DOMAIN loc[j] = IF Live(j) THEN {q \in Idx \X Passes : q[1] \in batch[j][q[2]] /\ ~ ToLookUp(j, q[2])}
                        ELSE {}
    BY DEF LocDomain
  <2>. QED BY <1>12, <1>13, <2>1
<1>24. LaterEmpty'
  BY <1>8, <1>12, <1>13 DEF LaterEmpty
<1>25. Located'
  BY <1>7, <1>8, <1>9 DEF Located
<1>26. Fixed'
  BY <1>8, <1>13, <1>15 DEF Fixed
<1>27. Taking'
  <2>1. DOMAIN a \subseteq B \ Cached(cache)
    BY <1>6, <1>10
  <2>2. pipeline => \A x \in DOMAIN a : cache'.lock[a[x]] = 0
    <3>1. ASSUME NEW x \in DOMAIN a PROVE found.lock[a[x]] \in Nat
      BY <1>9, <1>19 DEF Caches
    <3>. QED BY <1>7, <1>11, <3>1
  <2>. QED BY <1>3, <1>5, <1>7, <1>8, <1>10, <1>12, <1>15, <2>1, <2>2 DEF Taking
<1>28. Times'
  <2>1. ASSUME pipeline, NEW w \in Ways PROVE cache'.time[w] < nextP
    BY <1>3, <1>7, <1>9, <2>1 DEF Times
  <2>2. ASSUME pipeline, NEW j \in Batches, NEW w \in Ways, ToInsert(j)' PROVE cache'.time[w] <= j
    BY <1>3, <1>7, <1>9, <1>12, <2>2 DEF Times
  <2>3. ASSUME NEW j \in Batches, NEW w \in Ways, Holds(j), cache'.time[w] = j PROVE InUse(j, w)'
    BY <1>7, <1>9, <1>14, <2>3 DEF Times, Holds
  <2>4. ASSUME NEW j \in Batches, NEW w \in Ways, Holds(j), InUse(j, w)' PROVE j <= cache'.time[w]
    <3>1. pipeline
      BY <2>4 DEF Holds
    <3>2. CASE cache.tag[w] \in B
      <4>1. j <= i
        <5>1. j = i \/ DOMAIN loc[j] # {}
          BY <1>14, <2>4 DEF InLoc
        <5>. QED BY <1>3, <5>1 DEF LaterEmpty, Batches
      <4>. QED BY <1>7, <1>9, <3>1, <3>2, <4>1
    <3>3. CASE cache.tag[w] \notin B
      BY <1>7, <1>9, <1>14, <2>4, <3>1, <3>3 DEF Times
    <3>. QED BY <3>2, <3>3
  <2>. QED BY <1>8, <1>13, <2>1, <2>2, <2>3, <2>4 DEF Times
\* A way in use is locked.
<1>29. \A j \in Batches, w \in Ways : Holds(j) /\ InUse(j, w)' => cache'.lock[w] > 0
  BY <1>13, <1>18 DEF Users
<1>30. ASSUME NEW j \in Batches, j < i, Holds(j), DOMAIN a # missed, NEW v \in Ways
       PROVE  cache'.lock[v] > 0 \/ v \in Range(a)
  <2>1. pipeline /\ Gap = 2 /\ j = i - 1 /\ Holds(i) /\ i \in Nat
    BY <1>3, <1>30 DEF Holds, Gap, Batches
  <2>2. PICK W \in SUBSET Ways :
            /\ \A w \in W : w \in Range(a) \/ found.time[w] = i \/ found.lock[w] > 0
            /\ W = Ways \/ \E w \in W : w \notin Range(a)
            /\ \A w \in W, u \in Ways \ W : found.time[w] <= found.time[u]
    BY <1>11, <1>30, <2>1
  <2>3. ASSUME NEW w \in W, w \notin Range(a) PROVE cache'.lock[w] > 0
    <3>1. w \in Ways
      OBVIOUS
    <3>2. CASE found.time[w] = i
      BY <1>3, <1>7, <1>13, <1>28, <1>29, <2>1, <3>1, <3>2 DEF Times
    <3>3. CASE found.lock[w] > 0
      BY <1>7, <3>3
    <3>. QED BY <2>2, <2>3, <3>2, <3>3
  <2>4. CASE v \in W
    BY <2>3, <2>4
  <2>5. CASE v \notin W
    <3>1. PICK w \in W : w \notin Range(a) /\ w \in Ways
      BY <2>2, <2>5
    <3>2. PICK u \in Batches : Holds(u) /\ InUse(u, w)'
      BY <1>13, <1>18, <2>3, <3>1 DEF Users
    <3>3. u <= cache'.time[w] /\ cache'.time[w] <= cache'.time[v]
      BY <1>7, <1>13, <1>28, <2>2, <2>5, <3>1, <3>2 DEF Times
    <3>4. cache'.time[v] <= i /\ cache'.time[v] \in Nat /\ cache'.time[w] \in Nat
      BY <1>3, <1>7, <1>9, <2>1, <3>1 DEF Times, Caches
    <3>5. i < u + 2 /\ u \in Nat
      BY <1>3, <2>1, <3>2 DEF Holds, Batches
    <3>6. cache'.time[v] = i \/ cache'.time[v] = j
      BY <2>1, <3>3, <3>4, <3>5
    <3>7. InUse(i, v)' \/ InUse(j, v)'
      BY <1>3, <1>13, <1>28, <1>30, <2>1, <3>6 DEF Times
    <3>. QED BY <1>3, <1>29, <1>30, <2>1, <3>7
  <2>. QED BY <2>4, <2>5
<1>31. Full'
  <2>1. ASSUME NEW u \in Batches, NEW j \in Batches, NEW w \in Ways, u < j, Holds(u), InLoc(j, NoWay)
        PROVE  cache'.lock[w] > 0
    <3>1. cache.lock[w] > 0
      BY <2>1 DEF Full
    <3>. QED BY <1>7, <1>9, <1>18, <3>1 DEF Caches
  <2>2. ASSUME NEW u \in Batches, NEW j \in Batches, NEW k \in Passes, NEW w \in Ways, u < j, Holds(u), Mid(j, k)',
               NEW x \in batch[j][k], x \notin Cached(cache), x \notin DOMAIN a
        PROVE  cache'.lock[w] > 0 \/ w \in Range(a)
    <3>1. j = i /\ k = p /\ x \in missed
      BY <1>5, <1>6, <1>12, <2>2
    <3>. QED BY <1>30, <2>2, <3>1
  <2>. QED BY <1>7, <1>8, <1>13, <1>14, <1>15, <2>1, <2>2 DEF Full
<1>32. StillMissing'
  BY <1>8, <1>13, <1>15 DEF StillMissing
<1>33. \A x \in Evicted(found, a) : x \notin torn => uvm'[x] = Latest(x)
  <2> SUFFICES ASSUME NEW x \in Evicted(found, a), x \notin torn PROVE uvm'[x] = Latest(x)
    OBVIOUS
  <2>1. PICK y \in DOMAIN a : /\ x = cache.tag[a[y]] /\ x # NoIdx /\ a[y] \in Ways
                              /\ x \in Idx /\ Location(found, x) = a[y]
    BY <1>21
  <2>2. uvm'[x] = l1[a[y]]
    BY <1>7, <2>1
  <2>3. l1[a[y]] = Latest(cache.tag[a[y]])
    BY <1>4, <2>1 DEF Values
  <2>. QED BY <2>1, <2>2, <2>3
<1>34. \A x \in Idx : x \in torn \/ uvm'[x] = Latest(x) \/ uvm'[x] = uvm[x]
  BY <1>7, <1>33
<1>35. Values'
  <2>1. ASSUME NEW w \in Ways, w \notin Range(a), cache'.tag[w] # NoIdx, cache'.tag[w] \notin torn
        PROVE  l1'[w] = Latest(cache.tag[w])'
    <3>1. PICK x : x = cache.tag[w] /\ x = cache'.tag[w]
      BY <1>7, <1>9
    <3>. QED BY <1>4, <1>7, <1>16, <2>1, <3>1 DEF Values
  <2>2. ASSUME NEW x \in Idx, x \notin Cached(cache), x \notin torn PROVE uvm'[x] = Latest(x)'
    BY <1>16, <1>34, <2>2 DEF Values
  <2>3. ASSUME NEW x \in DOMAIN a, x \notin torn PROVE l1'[a[x]] = Latest(x)'
    <3>1. l1'[a[x]] = uvm[x] /\ x \in Idx /\ x \notin Cached(cache)
      BY <1>6, <1>7, <1>10, <1>19
    <3>. QED BY <1>16, <2>3, <3>1 DEF Values
  <2>4. ASSUME NEW x \in DOMAIN a, cache'.tag[a[x]] # NoIdx, cache'.tag[a[x]] \notin torn
        PROVE  uvm'[cache'.tag[a[x]]] = Latest(cache.tag[a[x]])'
    <3>1. PICK y : y = cache.tag[a[x]] /\ y = cache'.tag[a[x]]
      BY <1>7, <1>9
    <3>2. y \in Evicted(found, a)
      BY <1>7, <2>4, <3>1 DEF Evicted
    <3>3. uvm'[y] = Latest(y)'
      BY <1>16, <1>33, <2>4, <3>1, <3>2
    <3>. QED BY <1>7, <3>1, <3>3
  <2>5. ASSUME NEW j \in Batches, Holds(j), NEW q \in DOMAIN loc[j], loc[j][q] = NoWay, q[1] \notin torn
        PROVE  uvm'[q[1]] = Latest(q[1])'
    <3>1. uvm[q[1]] = Latest(q[1]) /\ q[1] \in Idx
      BY <2>5, CacheFacts DEF Values
    <3>. QED BY <1>16, <1>34, <2>5, <3>1
  <2>. QED BY <1>7, <1>8, <1>13, <1>15, <2>1, <2>2, <2>3, <2>4, <2>5 DEF Values
<1>. QED BY <1>18, <1>22, <1>23, <1>24, <1>25, <1>26, <1>27, <1>28, <1>31, <1>32, <1>35

(* The second part: the tags, and the lookup. *)
LEMMA InsertTagsDevice ==
    ASSUME Order, Device, InsertTags
    PROVE  Device'
<1> USE DEF Device
<1>1. PICK i, p, work : /\ i = Piece(side, ran[side] + 1).i /\ p = Piece(side, ran[side] + 1).k
                        /\ work = Piece(side, ran[side] + 1).work
  OBVIOUS
<1>2. /\ Ready(side) /\ Done(side) /\ i = Head(todo[side]).i /\ p = Head(todo[side]).k
      /\ work = "lookup" /\ Inserting(side, ran[side] + 1)
  <2>1. Ready(side) /\ Done(side) /\ Head(todo[side]).work = "lookup"
    BY DEF InsertTags, Runs, Ready
  <2>2. Piece(side, ran[side] + 1) = Head(todo[side])
    BY <2>1, QueueFacts DEF Order, Turns, Ready
  <2>. QED BY <1>1, <2>1, <2>2 DEF Inserting
<1>3. /\ i \in Batches /\ p \in Passes /\ (p = 2 => pipeline) /\ i < nextP
      /\ ToInsert(i) /\ Live(i) /\ ToLookUp(i, p) /\ (pipeline => Holds(i))
      /\ \A j \in Batches : /\ ToInsert(j) => i <= j
                            /\ Live(j) => i < j + Gap /\ (pipeline => Holds(j))
      /\ \A j, k : Mid(j, k) <=> j = i /\ k = p
  BY <1>1, <1>2, Insertion
<1>4. PICK B : B = batch[i][p] /\ B \subseteq Idx
  BY <1>3 DEF Order, Turns
<1>5. PICK a : a = taken
  OBVIOUS
<1>6. /\ a \in [DOMAIN a -> Ways] /\ DOMAIN a \subseteq Idx /\ DOMAIN a \subseteq B /\ DOMAIN a \cap Cached(cache) = {}
      /\ \A x, y \in DOMAIN a : a[x] = a[y] => x = y
      /\ pipeline => \A x \in DOMAIN a : cache.lock[a[x]] = 0
  <2>1. PICK D \in SUBSET Idx : a \in [D -> Ways]
    BY <1>5 DEF DeviceOK
  <2>2. DOMAIN a \subseteq B \ Cached(cache)
    BY <1>3, <1>4, <1>5 DEF Taking
  <2>. QED BY <1>5, <2>1, <2>2 DEF Taking
<1>7. PICK new : new = Insert(cache, a, i, pipeline)
  OBVIOUS
<1>8. /\ cache' = (IF lfu THEN [cache EXCEPT !.tag = new.tag] ELSE new)
      /\ loc' = [loc EXCEPT ![i] = [q \in DOMAIN loc[i] \cup (B \X {p}) |->
                                        IF q[2] = p THEN Location(new, q[1]) ELSE loc[i][q]]]
      /\ taken' = Nothing /\ UNCHANGED <<l1, uvm, torn, pipeline, lfu, nextP, batch>> /\ Gap' = Gap
  <2>1. /\ cache' = (IF lfu THEN [cache EXCEPT !.tag = new.tag] ELSE new)
        /\ loc' = [loc EXCEPT ![i] = [q \in DOMAIN loc[i] \cup (batch[i][p] \X {p}) |->
                                          IF q[2] = p THEN Location(new, q[1]) ELSE loc[i][q]]]
    BY Zenon, <1>2, <1>5, <1>7 DEF InsertTags
  <2>2. taken' = Nothing /\ UNCHANGED <<l1, uvm, torn>> /\ UNCHANGED host
    BY <1>2 DEF InsertTags, Done
  <2>3. UNCHANGED <<pipeline, lfu, nextP, batch>>
    BY <2>2 DEF host
  <2>. QED BY <1>4, <2>1, <2>2, <2>3 DEF Gap
<1>9. ASSUME NEW x \in DOMAIN a
      PROVE  a[x] \in Ways /\ a[x] \in Range(a) /\ (CHOOSE y \in DOMAIN a : a[y] = a[x]) = x /\ x \in Idx
  BY <1>6 DEF Range
<1>10. ASSUME NEW w \in Ways, w \in Range(a) PROVE \E x \in DOMAIN a : a[x] = w
  BY <1>10 DEF Range
<1>11. /\ \A x \in DOMAIN a : new.tag[a[x]] = x
       /\ \A w \in Ways : /\ w \notin Range(a) => new.tag[w] = cache.tag[w]
                          /\ new.time[w] = IF w \in Range(a) THEN i ELSE cache.time[w]
                          /\ new.lock[w] = IF pipeline /\ w \in Range(a) THEN cache.lock[w] + 1 ELSE cache.lock[w]
       /\ new \in Caches
  <2>1. Range(a) = {a[x] : x \in DOMAIN a}
    BY DEF Range
  <2>2. /\ new = [tag |-> new.tag, time |-> new.time, lock |-> new.lock]
        /\ new.tag = [w \in Ways |-> IF w \in Range(a) THEN CHOOSE x \in DOMAIN a : a[x] = w ELSE cache.tag[w]]
        /\ new.time = [w \in Ways |-> IF w \in Range(a) THEN i ELSE cache.time[w]]
        /\ new.lock = [w \in Ways |-> IF pipeline /\ w \in Range(a) THEN cache.lock[w] + 1 ELSE cache.lock[w]]
    BY <1>7, <2>1 DEF Insert
  <2>3. \A x \in DOMAIN a : new.tag[a[x]] = x
    BY <1>9, <2>2
  <2>4. \A w \in Ways : new.tag[w] \in Idx \cup {NoIdx}
    BY <1>9, <1>10, <2>2, <2>3, CacheFacts
  <2>5. i \in Nat
    BY <1>3 DEF Batches
  <2>6. new.tag \in [Ways -> Idx \cup {NoIdx}] /\ new.time \in [Ways -> Nat] /\ new.lock \in [Ways -> Nat]
    BY <2>2, <2>4, <2>5, CacheFacts
  <2>7. new \in Caches
    BY <2>2, <2>6 DEF Caches
  <2>. QED BY <2>2, <2>3, <2>7
<1>12. /\ cache'.tag = new.tag /\ cache' \in Caches
       /\ \A x \in DOMAIN a : cache'.tag[a[x]] = x
       /\ \A w \in Ways : /\ w \notin Range(a) => cache'.tag[w] = cache.tag[w]
                          /\ pipeline => cache'.time[w] = IF w \in Range(a) THEN i ELSE cache.time[w]
                          /\ cache'.lock[w] = IF pipeline /\ w \in Range(a) THEN cache.lock[w] + 1 ELSE cache.lock[w]
  <2>1. CASE lfu
    <3>1. cache'.tag = new.tag /\ cache'.time = cache.time /\ cache'.lock = cache.lock /\ cache' \in Caches
      BY <1>8, <1>11, <2>1, CacheFacts DEF Caches
    <3>2. ~ pipeline
      BY <2>1 DEF DeviceOK
    <3>. QED BY <1>11, <3>1, <3>2
  <2>2. CASE ~ lfu
    BY <1>8, <1>11, <2>2
  <2>. QED BY <2>1, <2>2
<1>13. UniqueTags(cache')
  <2> SUFFICES ASSUME NEW v \in Ways, NEW w \in Ways, cache'.tag[v] = cache'.tag[w], cache'.tag[v] # NoIdx PROVE v = w
    BY DEF UniqueTags
  <2>1. ASSUME NEW s \in Ways, NEW t \in Ways, cache'.tag[s] = cache'.tag[t], cache'.tag[s] # NoIdx,
               s \in Range(a), t \notin Range(a)
        PROVE  FALSE
    <3>1. PICK x \in DOMAIN a : a[x] = s
      BY <1>10, <2>1
    <3>2. cache.tag[t] = x
      BY <1>12, <2>1, <3>1
    <3>3. x \in Cached(cache)
      BY <1>9, <3>2, CacheFacts DEF Cached
    <3>. QED BY <1>6, <3>3
  <2>2. CASE v \in Range(a) /\ w \in Range(a)
    <3>1. PICK x \in DOMAIN a, y \in DOMAIN a : a[x] = v /\ a[y] = w
      BY <1>10, <2>2
    <3>. QED BY <1>12, <3>1
  <2>3. CASE v \notin Range(a) /\ w \notin Range(a)
    BY <1>12, <2>3, CacheFacts DEF UniqueTags
  <2>. QED BY <2>1, <2>2, <2>3
<1>14. /\ Cached(cache') = Cached(new) /\ \A x : Location(new, x) = Location(cache', x)
       /\ DOMAIN a \subseteq Cached(cache')
       /\ \A x \in Idx : /\ Location(cache', x) \in Ways \cup {NoWay}
                         /\ Location(cache', x) = NoWay <=> x \notin Cached(cache')
                         /\ \A w \in Ways : Location(cache', x) = w <=> cache'.tag[w] = x
  <2>1. DOMAIN a \subseteq Cached(cache')
    <3>1. ASSUME NEW x \in DOMAIN a PROVE x \in Cached(cache')
      <4>1. a[x] \in Ways /\ cache'.tag[a[x]] = x /\ x # NoIdx
        BY <1>9, <1>12, CacheFacts
      <4>. QED BY <4>1 DEF Cached
    <3>. QED BY <3>1
  <2>2. PICK c : c = cache'
    OBVIOUS
  <2>3. /\ Cached(c) = Cached(new) /\ \A x : Location(new, x) = Location(c, x)
        /\ \A x \in Idx : /\ Location(c, x) \in Ways \cup {NoWay}
                          /\ Location(c, x) = NoWay <=> x \notin Cached(c)
                          /\ \A w \in Ways : Location(c, x) = w <=> c.tag[w] = x
    BY <1>12, <1>13, <2>2, LocationOfTags, LocationFacts
  <2>. QED BY <2>1, <2>2, <2>3
<1>15. \A j \in Batches : /\ IsTrained(j)' <=> IsTrained(j)
                          /\ Unlocked(j)' <=> Unlocked(j)
                          /\ ToInsert(j)' => ToInsert(j)
                          /\ \A k : /\ ToLookUp(j, k)' <=> ToLookUp(j, k) /\ ~ (j = i /\ k = p)
                                    /\ ~ Mid(j, k)'
  BY <1>1, <1>2, InsertionDone
<1>16. \A j \in Batches : /\ Live(j)' <=> Live(j)
                          /\ Holds(j)' <=> Holds(j)
  BY <1>8, <1>15 DEF Live, Holds
<1>17. \A x : Latest(x)' = Latest(x)
  BY <1>8, <1>15, SameLatest DEF Indices
\* The locations of the pass are new; those of the other stay.
<1>18. /\ \A j \in Batches : j # i => loc'[j] = loc[j]
       /\ DOMAIN loc'[i] = DOMAIN loc[i] \cup (B \X {p})
       /\ \A q \in DOMAIN loc[i] : q[2] # p /\ loc'[i][q] = loc[i][q]
       /\ \A q \in B \X {p} : loc'[i][q] = Location(cache', q[1]) /\ q[1] \in B /\ q[2] = p /\ q \in Idx \X Passes
       /\ \A x \in B : <<x, p>> \in B \X {p}
       /\ loc' \in [Batches -> Locations]
  <2>1. PICK f, D : f = loc[i] /\ D = DOMAIN loc[i] \cup (B \X {p})
    OBVIOUS
  <2>2. loc \in [Batches -> Locations]
    BY DEF DeviceOK
  <2>3. loc'[i] = [q \in D |-> IF q[2] = p THEN Location(new, q[1]) ELSE f[q]]
        /\ \A j \in Batches : j # i => loc'[j] = loc[j]
    BY <1>3, <1>8, <2>1, <2>2
  <2>4. ASSUME NEW q \in DOMAIN f PROVE q[2] # p /\ f[q] \in Ways \cup {NoWay} /\ q \in Idx \X Passes
    <3>1. q \in Idx \X Passes /\ ~ ToLookUp(i, q[2])
      BY <1>3, <2>1, <2>4 DEF LocDomain
    <3>. QED BY <1>3, <2>1, <2>4, <3>1, CacheFacts
  <2>5. \A q \in B \X {p} : q[1] \in B /\ q[2] = p /\ q \in Idx \X Passes
    BY <1>3, <1>4
  <2>6. \A q \in B \X {p} : Location(new, q[1]) = Location(cache', q[1]) /\ Location(new, q[1]) \in Ways \cup {NoWay}
    BY <1>4, <1>14, <2>5
  <2>7. \A q \in D : (IF q[2] = p THEN Location(new, q[1]) ELSE f[q]) \in Ways \cup {NoWay}
    BY <2>1, <2>4, <2>5, <2>6
  <2>8. loc'[i] \in [D -> Ways \cup {NoWay}]
    BY <2>3, <2>7
  <2>9. D \in SUBSET (Idx \X Passes)
    BY <2>1, <2>4, <2>5
  <2>10. loc'[i] \in Locations
    BY <2>8, <2>9 DEF Locations
  <2>11. loc' \in [Batches -> Locations]
    BY <1>8, <2>1, <2>2, <2>3, <2>10
  <2>12. \A x \in B : <<x, p>> \in B \X {p}
    OBVIOUS
  <2>13. \A q \in DOMAIN f : loc'[i][q] = f[q]
    BY <2>1, <2>3, <2>4
  <2>14. \A q \in B \X {p} : loc'[i][q] = Location(cache', q[1])
    BY <2>1, <2>3, <2>5, <2>6
  <2>15. DOMAIN loc'[i] = D
    BY <2>3
  <2>. QED BY <2>1, <2>3, <2>4, <2>5, <2>11, <2>12, <2>13, <2>14, <2>15
<1>19. ~ pipeline => \A j \in Batches : DOMAIN loc[j] = {}
  <2> SUFFICES ASSUME ~ pipeline, NEW j \in Batches, NEW q \in DOMAIN loc[j] PROVE FALSE
    OBVIOUS
  <2>1. Live(j) /\ q \in Idx \X Passes /\ q[1] \in batch[j][q[2]] /\ ~ ToLookUp(j, q[2])
    BY DEF LocDomain
  <2>2. j = i
    <3>1. i < j + 1 /\ ~ (i < j)
      BY <1>3, <2>1 DEF Gap, LaterEmpty
    <3>. QED BY <1>3, <3>1 DEF Batches
  <2>3. q[2] = p
    <3>1. batch[j][2] = {}
      BY DEF Order, Turns
    <3>2. q[2] = 1 /\ p = 1
      BY <1>3, <2>1, <3>1 DEF Passes
    <3>. QED BY <3>2
  <2>. QED BY <1>3, <2>1, <2>2, <2>3
\* No batch uses a way that is taken.
<1>20. \A w \in Ways : w \in Range(a) =>
          /\ \A j \in Batches : ~ InLoc(j, w)
          /\ pipeline => cache.lock[w] = 0 /\ cache.tag[w] \notin B
          /\ Users(w) = {}
  <2> SUFFICES ASSUME NEW w \in Ways, w \in Range(a)
               PROVE  /\ \A j \in Batches : ~ InLoc(j, w)
                      /\ pipeline => cache.lock[w] = 0 /\ cache.tag[w] \notin B
                      /\ Users(w) = {}
    OBVIOUS
  <2>1. CASE ~ pipeline
    BY <1>19, <2>1 DEF InLoc, Users, Holds
  <2>2. CASE pipeline
    <3>1. cache.lock[w] = 0
      BY <1>6, <1>10, <2>2
    <3>2. Users(w) = {}
      BY <3>1, UsersFinite DEF Locks
    <3>3. ASSUME NEW j \in Batches, Live(j) PROVE ~ InUse(j, w)
      BY <1>3, <2>2, <3>2, <3>3 DEF Users
    <3>4. ASSUME NEW j \in Batches PROVE ~ InLoc(j, w)
      BY <3>3 DEF InUse, InLoc, LocDomain
    <3>5. ~ Hit(i, w)
      BY <1>3, <3>3 DEF InUse
    <3>. QED BY <1>3, <1>4, <3>1, <3>2, <3>4, <3>5 DEF Hit
  <2>. QED BY <2>1, <2>2
<1>21. \A j \in Batches : \A w : InUse(j, w) <=> InLoc(j, w) \/ (j = i /\ cache.tag[w] \in B)
  BY <1>3, <1>4 DEF InUse, Hit
<1>22. \A j \in Batches : \A w : InUse(j, w)' <=> InLoc(j, w)'
  BY <1>15 DEF InUse, Hit
<1>23. \A j \in Batches : \A w : j # i => (InLoc(j, w)' <=> InLoc(j, w))
  BY <1>18 DEF InLoc
<1>24. \A w : InLoc(i, w)' <=> InLoc(i, w) \/ \E x \in B : Location(cache', x) = w
  <2>1. ASSUME NEW w, InLoc(i, w)' PROVE InLoc(i, w) \/ \E x \in B : Location(cache', x) = w
    <3>1. PICK q \in DOMAIN loc'[i] : loc'[i][q] = w
      BY <2>1 DEF InLoc
    <3>2. CASE q \in DOMAIN loc[i]
      BY <1>18, <3>1, <3>2 DEF InLoc
    <3>3. CASE q \in B \X {p}
      BY <1>18, <3>1, <3>3
    <3>. QED BY <1>18, <3>2, <3>3
  <2>2. ASSUME NEW w, InLoc(i, w) PROVE InLoc(i, w)'
    BY <1>18, <2>2 DEF InLoc
  <2>3. ASSUME NEW w, NEW x \in B, Location(cache', x) = w PROVE InLoc(i, w)'
    <3>1. PICK q : q = <<x, p>>
      OBVIOUS
    <3>2. q[1] = x /\ q \in B \X {p}
      BY <1>18, <3>1
    <3>3. q \in DOMAIN loc'[i] /\ loc'[i][q] = w
      BY <1>18, <2>3, <3>2
    <3>. QED BY <3>3 DEF InLoc
  <2>. QED BY <2>1, <2>2, <2>3
<1>25. ASSUME NEW j \in Batches, NEW w \in Ways
       PROVE  /\ w \in Range(a) => (InUse(j, w)' <=> j = i)
              /\ w \notin Range(a) => (InUse(j, w)' <=> InUse(j, w))
  <2>1. (\E x \in B : Location(cache', x) = w) <=> cache'.tag[w] \in B
    BY <1>4, <1>14
  <2>2. CASE w \in Range(a)
    <3>1. cache'.tag[w] \in B
      BY <1>6, <1>10, <1>12, <2>2
    <3>. QED BY <1>20, <1>22, <1>23, <1>24, <2>1, <2>2, <3>1
  <2>3. CASE w \notin Range(a)
    <3>1. cache'.tag[w] = cache.tag[w]
      BY <1>12, <2>3
    <3>. QED BY <1>21, <1>22, <1>23, <1>24, <2>1, <2>3, <3>1
  <2>. QED BY <2>2, <2>3
<1>26. Locks'
  <2>1. ASSUME NEW w \in Ways PROVE cache'.lock[w] = Cardinality(Users(w)')
    <3>1. cache.lock[w] = Cardinality(Users(w))
      BY DEF Locks
    <3>2. CASE w \in Range(a) /\ pipeline
      <4>1. Users(w)' = {i}
        BY <1>3, <1>16, <1>25, <3>2 DEF Users
      <4>2. Cardinality({i}) = 1
        BY FS_Singleton
      <4>3. cache'.lock[w] = cache.lock[w] + 1 /\ cache.lock[w] = 0
        BY <1>12, <1>20, <3>2
      <4>. QED BY <4>1, <4>2, <4>3
    <3>3. CASE w \in Range(a) /\ ~ pipeline
      <4>1. Users(w)' = Users(w)
        BY <1>8, <3>3 DEF Users, Holds
      <4>. QED BY <1>12, <3>1, <3>3, <4>1
    <3>4. CASE w \notin Range(a)
      <4>1. Users(w)' = Users(w)
        BY <1>16, <1>25, <3>4 DEF Users
      <4>. QED BY <1>12, <3>1, <3>4, <4>1
    <3>. QED BY <3>2, <3>3, <3>4
  <2>. QED BY <2>1 DEF Locks
<1>27. DeviceOK'
  <2>1. taken' \in UNION {[D -> Ways] : D \in SUBSET Idx}
    <3>1. Nothing \in [{} -> Ways] /\ {} \in SUBSET Idx
      BY DEF Nothing
    <3>. QED BY <1>8, <3>1
  <2>. QED BY <1>8, <1>12, <1>13, <1>18, <2>1 DEF DeviceOK
<1>28. LocDomain'
  <2> SUFFICES ASSUME NEW j \in Batches
               PROVE  DOMAIN loc'[j] = IF Live(j)' THEN {q \in Idx \X Passes : q[1] \in batch[j][q[2]] /\ ~ ToLookUp(j, q[2])'}
                                       ELSE {}
    BY <1>8 DEF LocDomain
  <2>1. DOMAIN loc[j] = IF Live(j) THEN {q \in Idx \X Passes : q[1] \in batch[j][q[2]] /\ ~ ToLookUp(j, q[2])}
                        ELSE {}
    BY DEF LocDomain
  <2>2. CASE j # i
    BY <1>15, <1>16, <1>18, <2>1, <2>2
  <2>3. CASE j = i
    <3>1. \A q \in Idx \X Passes : q \in B \X {p} <=> q[1] \in B /\ q[2] = p
      OBVIOUS
    <3>2. \A q \in Idx \X Passes : q \in B \X {p} <=> q[1] \in batch[j][q[2]] /\ q[2] = p
      BY <1>4, <2>3, <3>1
    <3>3. \A q \in Idx \X Passes : ToLookUp(j, q[2])' <=> ToLookUp(j, q[2]) /\ q[2] # p
      BY <1>15, <2>3
    <3>. QED BY <1>3, <1>16, <1>18, <2>1, <2>3, <3>2, <3>3
  <2>. QED BY <2>2, <2>3
<1>29. LaterEmpty'
  <2>1. ASSUME NEW u \in Batches, NEW j \in Batches, ToInsert(u)', u < j PROVE DOMAIN loc'[j] = {}
    <3>1. ToInsert(u) /\ j # i
      BY <1>3, <1>15, <2>1 DEF Batches
    <3>. QED BY <1>18, <2>1, <3>1 DEF LaterEmpty
  <2>2. ASSUME NEW u \in Batches, NEW j \in Batches, Live(u), u + Gap <= j PROVE DOMAIN loc'[j] = {}
    <3>1. Gap \in {1, 2}
      BY DEF Gap
    <3>2. j # i
      BY <1>3, <2>2, <3>1 DEF Batches
    <3>. QED BY <1>18, <2>2, <3>2 DEF LaterEmpty
  <2>. QED BY <1>8, <1>16, <2>1, <2>2 DEF LaterEmpty
<1>30. Located'
  <2> SUFFICES ASSUME NEW j \in Batches, NEW q \in DOMAIN loc'[j], NEW w \in Ways, loc'[j][q] = w
               PROVE  cache'.tag[w] = q[1]
    BY DEF Located
  <2>1. CASE j = i /\ q \in B \X {p}
    BY <1>4, <1>14, <1>18, <2>1
  <2>2. CASE q \in DOMAIN loc[j] /\ loc'[j][q] = loc[j][q]
    <3>1. w \notin Range(a) /\ cache.tag[w] = q[1]
      BY <1>20, <2>2 DEF InLoc, Located
    <3>. QED BY <1>12, <3>1
  <2>. QED BY <1>18, <2>1, <2>2
<1>31. Fixed'
  <2> SUFFICES ASSUME NEW j \in Batches, Live(j), ~ Holds(j), NEW q \in DOMAIN loc'[j]
               PROVE  loc'[j][q] = Location(cache', q[1])
    BY <1>16 DEF Fixed
  <2>1. ~ pipeline
    BY <1>3
  <2>. QED BY <1>18, <1>19, <2>1
<1>32. Taking'
  <2>1. DOMAIN taken' = {}
    BY <1>8 DEF Nothing
  <2>. QED BY <1>15, <2>1 DEF Taking
<1>33. Times'
  <2>1. ASSUME pipeline, NEW w \in Ways PROVE cache'.time[w] < nextP
    BY <1>3, <1>12, <2>1 DEF Times
  <2>2. ASSUME pipeline, NEW j \in Batches, NEW w \in Ways, ToInsert(j)' PROVE cache'.time[w] <= j
    BY <1>3, <1>12, <1>15, <2>2 DEF Times
  <2>3. ASSUME NEW j \in Batches, NEW w \in Ways, Holds(j)
        PROVE  /\ cache'.time[w] = j => InUse(j, w)'
               /\ InUse(j, w)' => j <= cache'.time[w]
    <3>1. pipeline /\ j \in Nat
      BY <2>3 DEF Holds, Batches
    <3>2. CASE w \in Range(a)
      BY <1>12, <1>25, <3>1, <3>2
    <3>3. CASE w \notin Range(a)
      BY <1>12, <1>25, <2>3, <3>1, <3>3 DEF Times
    <3>. QED BY <3>2, <3>3
  <2>. QED BY <1>8, <1>16, <2>1, <2>2, <2>3 DEF Times
\* What stays missing had no way to take: none is taken at all, or this pass's are.
<1>34. ASSUME pipeline, NEW x \in B, x \notin Cached(cache') PROVE x \notin Cached(cache) /\ x \notin DOMAIN a
  <2>1. x \notin DOMAIN a /\ x \in Idx
    BY <1>4, <1>14, <1>34
  <2>2. SUFFICES ASSUME x \in Cached(cache) PROVE FALSE
    BY <2>1
  <2>3. PICK w \in Ways : cache.tag[w] = x
    BY <2>2 DEF Cached
  <2>4. w \notin Range(a)
    BY <1>20, <1>34, <2>3
  <2>5. cache'.tag[w] = x
    BY <1>12, <2>3, <2>4
  <2>. QED BY <1>34, <2>1, <2>5, CacheFacts DEF Cached
<1>35. Full'
  <2>1. ASSUME NEW u \in Batches, NEW j \in Batches, NEW w \in Ways, u < j, Holds(u), InLoc(j, NoWay)'
        PROVE  cache'.lock[w] > 0
    <3>1. pipeline /\ cache.lock[w] \in Nat
      BY <2>1, CacheFacts DEF Holds
    <3>2. CASE InLoc(j, NoWay)
      BY <1>12, <2>1, <3>1, <3>2 DEF Full
    <3>3. CASE ~ InLoc(j, NoWay)
      <4>1. j = i
        BY <1>23, <2>1, <3>3
      <4>2. PICK x \in B : Location(cache', x) = NoWay
        BY <1>24, <2>1, <3>3, <4>1
      <4>3. x \notin Cached(cache) /\ x \notin DOMAIN taken
        BY <1>4, <1>5, <1>14, <1>34, <3>1, <4>2
      <4>4. cache.lock[w] > 0 \/ w \in Range(a)
        BY <1>3, <1>4, <1>5, <2>1, <4>1, <4>3 DEF Full
      <4>. QED BY <1>12, <3>1, <4>4
    <3>. QED BY <3>2, <3>3
  <2>. QED BY <1>15, <1>16, <2>1 DEF Full
<1>36. StillMissing'
  <2> SUFFICES ASSUME NEW u \in Batches, NEW j \in Batches, u < j, Live(u), NEW q \in DOMAIN loc'[j],
                      loc'[j][q] = NoWay
               PROVE  q[1] \notin Cached(cache')
    BY <1>16 DEF StillMissing
  <2>1. CASE j = i /\ q \in B \X {p}
    BY <1>4, <1>14, <1>18, <2>1
  <2>2. CASE q \in DOMAIN loc[j] /\ loc'[j][q] = loc[j][q]
    <3>1. pipeline /\ Holds(u)
      BY <1>3, <1>19, <2>2
    <3>2. \A w \in Ways : cache.lock[w] > 0
      BY <2>2, <3>1 DEF Full, InLoc
    <3>3. DOMAIN a = {}
      <4>1. SUFFICES ASSUME NEW x \in DOMAIN a PROVE FALSE
        OBVIOUS
      <4>2. a[x] \in Ways /\ cache.lock[a[x]] = 0
        BY <1>6, <3>1
      <4>. QED BY <3>2, <4>2
    <3>4. \A w \in Ways : cache'.tag[w] = cache.tag[w]
      BY <1>12, <3>3 DEF Range
    <3>. QED BY <2>2, <3>4 DEF StillMissing, Cached
  <2>. QED BY <1>18, <2>1, <2>2
<1>37. ASSUME NEW x \in Idx, x \notin Cached(cache'), x \notin torn PROVE uvm[x] = Latest(x)
  <2>1. CASE x \notin Cached(cache)
    BY <1>37, <2>1 DEF Values
  <2>2. CASE x \in Cached(cache)
    <3>1. PICK w \in Ways : cache.tag[w] = x /\ x # NoIdx
      BY <2>2 DEF Cached
    <3>2. w \in Range(a)
      BY <1>12, <1>37, <3>1 DEF Cached
    <3>3. PICK y \in DOMAIN a : a[y] = w
      BY <1>10, <3>2
    <3>. QED BY <1>5, <1>37, <3>1, <3>3 DEF Values
  <2>. QED BY <2>1, <2>2
<1>38. Values'
  <2>1. ASSUME NEW w \in Ways, cache'.tag[w] # NoIdx, cache'.tag[w] \notin torn PROVE l1[w] = Latest(cache.tag[w])'
    <3>1. CASE w \in Range(a)
      <4>1. PICK x \in DOMAIN a : a[x] = w /\ cache'.tag[w] = x
        BY <1>10, <1>12, <3>1
      <4>2. l1[w] = Latest(x)
        BY <1>5, <2>1, <4>1 DEF Values
      <4>. QED BY <1>17, <4>1, <4>2
    <3>2. CASE w \notin Range(a)
      <4>1. PICK x : x = cache.tag[w] /\ x = cache'.tag[w]
        BY <1>12, <3>2
      <4>2. l1[w] = Latest(x)
        BY <1>5, <2>1, <3>2, <4>1 DEF Values
      <4>. QED BY <1>17, <4>1, <4>2
    <3>. QED BY <3>1, <3>2
  <2>2. ASSUME NEW x \in Idx, x \notin Cached(cache'), x \notin torn PROVE uvm[x] = Latest(x)'
    BY <1>17, <1>37, <2>2
  <2>3. ASSUME NEW j \in Batches, Holds(j), NEW q \in DOMAIN loc'[j], loc'[j][q] = NoWay, q[1] \notin torn
        PROVE  uvm[q[1]] = Latest(q[1])'
    <3>1. CASE j = i /\ q \in B \X {p}
      <4>1. q[1] \in Idx /\ q[1] \notin Cached(cache')
        BY <1>4, <1>14, <1>18, <2>3, <3>1
      <4>. QED BY <1>17, <1>37, <2>3, <4>1
    <3>2. CASE q \in DOMAIN loc[j] /\ loc'[j][q] = loc[j][q]
      BY <1>17, <2>3, <3>2 DEF Values
    <3>. QED BY <1>18, <3>1, <3>2
  <2>4. DOMAIN taken' = {}
    BY <1>8 DEF Nothing
  <2>. QED BY <1>8, <1>16, <2>1, <2>2, <2>3, <2>4 DEF Values
<1>. QED BY <1>26, <1>27, <1>28, <1>29, <1>30, <1>31, <1>32, <1>33, <1>35, <1>36, <1>38

-----------------------------------------------------------------------------
(* The invariant, and what follows from it. *)
LEMMA InitDevice ==
    ASSUME Init
    PROVE  Device
<1>1. /\ pipeline \in BOOLEAN /\ lfu \in BOOLEAN /\ (pipeline => ~ lfu)
      /\ nextP = 1 /\ nextB = 1 /\ taken = Nothing /\ DOMAIN taken = {} /\ Range(taken) = {}
      /\ cache = EmptyCache /\ l1 = [w \in Ways |-> Garbage] /\ uvm = [x \in Idx |-> 0]
      /\ loc = [i \in Batches |-> Nothing] /\ \A i \in Batches : DOMAIN loc[i] = {}
  BY DEF Init, Nothing, Range
<1>2. todo = [s \in Streams |-> <<>>] /\ ran = [s \in Streams |-> 0] /\ StreamsOK
  BY InitOrder DEF Init, StreamsInit, Streams, Order
<1>3. \A s \in Streams : Queue(s) = {}
  BY <1>2, QueueFacts
<1>4. \A i \in Batches : /\ ~ IsTrained(i) /\ ~ Live(i) /\ ~ Holds(i) /\ ~ ToInsert(i)
                         /\ \A p : ~ Mid(i, p)
  BY <1>1, <1>3 DEF IsTrained, Live, Holds, ToInsert, Mid, Batches
<1>5. \A w \in Ways : cache.tag[w] = NoIdx /\ cache.time[w] = 0 /\ cache.lock[w] = 0
  BY <1>1 DEF EmptyCache
<1>6. Cached(cache) = {}
  BY <1>5 DEF Cached
<1>7. ASSUME NEW x PROVE Latest(x) = 0
  <2>1. {j \in Batches : IsTrained(j) /\ x \in Indices(j)} = {}
    BY <1>4
  <2>. QED BY <2>1, FS_EmptySet DEF Latest
<1>8. ASSUME NEW w PROVE Cardinality(Users(w)) = 0
  <2>1. Users(w) = {}
    BY <1>4 DEF Users
  <2>. QED BY <2>1, FS_EmptySet
<1>9. Nothing \in Locations /\ taken \in UNION {[D -> Ways] : D \in SUBSET Idx}
  <2>1. {} \in SUBSET (Idx \X Passes) /\ {} \in SUBSET Idx
    OBVIOUS
  <2>2. Nothing \in [{} -> Ways \cup {NoWay}] /\ Nothing \in [{} -> Ways]
    BY DEF Nothing
  <2>. QED BY <1>1, <2>1, <2>2 DEF Locations
<1>10. cache \in Caches /\ UniqueTags(cache)
  <2>1. cache \in Caches
    BY <1>1 DEF EmptyCache, Caches
  <2>2. UniqueTags(cache)
    BY <1>5 DEF UniqueTags
  <2>. QED BY <2>1, <2>2
<1>11. DeviceOK
  <2>1. l1 \in [Ways -> Int] /\ uvm \in [Idx -> Int]
    <3>1. Garbage \in Int /\ 0 \in Int
      BY DEF Garbage
    <3>. QED BY <1>1, <3>1
  <2>2. loc \in [Batches -> Locations]
    BY <1>1, <1>9
  <2>. QED BY <1>1, <1>9, <1>10, <2>1, <2>2 DEF DeviceOK
<1>12. LocDomain /\ LaterEmpty /\ Located /\ Fixed /\ Taking
  BY <1>1, <1>4 DEF LocDomain, LaterEmpty, Located, Fixed, Taking
<1>13. Locks
  BY <1>5, <1>8 DEF Locks
<1>14. Times
  BY <1>1, <1>4, <1>5 DEF Times
<1>15. Full /\ StillMissing
  BY <1>4 DEF Full, StillMissing
<1>16. Values
  BY <1>1, <1>4, <1>5, <1>6, <1>7 DEF Values
<1>. QED BY <1>11, <1>12, <1>13, <1>14, <1>15, <1>16 DEF Device

LEMMA Stays ==
    ASSUME Order, Device, UNCHANGED vars
    PROVE  Order' /\ Device'
<1>1. UNCHANGED <<host, streams, device>>
  BY DEF vars
<1>2. UNCHANGED <<pipeline, lfu, side, nextP, nextF, nextB, flushes, gate, batch, todo, ran>>
  BY <1>1 DEF host, streams
<1>3. /\ \A s : Queue(s)' = Queue(s) /\ End(s)' = End(s)
      /\ \A s, q : Piece(s, q)' = Piece(s, q)
      /\ Gap' = Gap
  BY <1>2 DEF Queue, End, Piece, Gap
<1>4. /\ \A s, q, t, r : Before(s, q, t, r)' <=> Before(s, q, t, r)
      /\ \A s, q : Inserting(s, q)' <=> Inserting(s, q)
      /\ \A s, q, w, i : Is(s, q, w, i)' <=> Is(s, q, w, i)
      /\ \A r : Training(r)' <=> Training(r)
  BY <1>3 DEF Before, Inserting, Is, Training
<1>5. /\ \A i : /\ ToInsert(i)' <=> ToInsert(i)
                /\ \A p : (ToLookUp(i, p)' <=> ToLookUp(i, p)) /\ (Mid(i, p)' <=> Mid(i, p))
                /\ IsTrained(i)' <=> IsTrained(i)
                /\ Unlocked(i)' <=> Unlocked(i)
  BY <1>2, <1>3, <1>4 DEF ToInsert, ToLookUp, Mid, IsTrained, Unlocked, Queued
<1>6. StreamsOK' /\ Turns' /\ Contents'
  BY <1>2, <1>3, <1>4 DEF Order, StreamsOK, Turns, Contents, ContentOf
<1>7. MainOrder' /\ MainPairs' /\ SideOrder' /\ SidePairs'
  BY <1>2, <1>3, <1>4 DEF Order, MainOrder, MainPairs, SideOrder, SidePairs
<1>8. LookedUpFirst' /\ KeptApart' /\ TrainedFirst'
  BY <1>3, <1>4 DEF Order, LookedUpFirst, KeptApart, TrainedFirst
<1>9. Gated' /\ TrainedIsOver' /\ InsertedIsOver'
  BY <1>2, <1>3, <1>4, <1>5 DEF Order, Gated, TrainedIsOver, InsertedIsOver
<1>10. PICK n : n = 0
  OBVIOUS
<1>11. SameUpTo(n)
  BY <1>2, <1>5 DEF SameUpTo
<1>12. Device'
  BY <1>1, <1>2, <1>10, <1>11, DeviceStays
<1>. QED BY <1>6, <1>7, <1>8, <1>9, <1>12 DEF Order

LEMMA OneStep ==
    ASSUME Depth = 1, Order, Device, [Next]_vars
    PROVE  Order' /\ Device'
<1>1. ASSUME NEW s \in Streams, NEW w, Runs(s, w), Done(s) PROVE Order'
  BY <1>1, DoneOrder DEF Runs, Ready
<1>2. PICK z \in Streams : z = side
  BY DEF Order, Turns
<1>3. PICK m \in Streams : m = "main"
  BY DEF Streams
<1>4. CASE \E P \in [Passes -> SUBSET Idx] : Prefetch(P)
  BY <1>4, HostDevice, PrefetchOrder
<1>5. CASE Forward
  BY <1>5, HostDevice, ForwardOrder
<1>6. CASE Backward
  BY <1>6, HostDevice, BackwardOrder
<1>7. CASE Flush
  BY <1>7, HostDevice, FlushOrder
<1>8. CASE InsertRows
  BY <1>1, <1>2, <1>8, InsertRowsDevice DEF InsertRows
<1>9. CASE InsertTags
  BY <1>1, <1>2, <1>9, InsertTagsDevice DEF InsertTags
<1>10. CASE ForwardRun
  BY <1>1, <1>3, <1>10, ForwardDevice DEF ForwardRun
<1>11. CASE UpdateLocations
  BY <1>1, <1>3, <1>11, UnlockDevice DEF UpdateLocations
<1>12. CASE BackwardRun
  BY <1>1, <1>3, <1>12, BackwardDevice DEF BackwardRun
<1>13. CASE FlushRun
  BY <1>1, <1>3, <1>13, FlushDevice DEF FlushRun
<1>14. CASE UNCHANGED vars
  BY <1>14, Stays
<1>. QED BY <1>4, <1>5, <1>6, <1>7, <1>8, <1>9, <1>10, <1>11, <1>12, <1>13, <1>14 DEF Next

(* The prefetches and the training keep to their order, and every row is    *)
(* where the cache says, in UVM or in a way that is locked while it is in   *)
(* use.                                                                     *)
THEOREM Invariance ==
    ASSUME Depth = 1
    PROVE  Spec => [](Order /\ Device)
<1>1. Init => Order /\ Device
  BY InitOrder, InitDevice
<1>2. Order /\ Device /\ [Next]_vars => (Order /\ Device)'
  BY OneStep
<1>. QED BY <1>1, <1>2, PTL DEF Spec

LEMMA TrainedIsLatest ==
    ASSUME NEW i \in Nat, 1 <= i, i <= MaxBatches + 1, \A j \in Batches : IsTrained(j) <=> j < i, NEW x
    PROVE  Trained(x, i) = Latest(x)
<1>1. 1..(i - 1) = {j \in Batches : j < i}
  BY UVMConstants DEF Batches
<1>2. {j \in 1..(i - 1) : x \in Indices(j)} = {j \in Batches : IsTrained(j) /\ x \in Indices(j)}
  BY <1>1
<1>. QED BY <1>2 DEF Trained, Latest

(* A way's locking counter is the number of batches prefetched and not yet  *)
(* unlocked that use it, so the insertions for later batches do not take    *)
(* it, and none of its counts is ever left behind.                          *)
THEOREM LocksAreCounted ==
    ASSUME Depth = 1
    PROVE  Spec => []LocksMatchUse
<1>1. ASSUME Order, Device PROVE LocksMatchUse
  <2> USE DEF Device
  <2> DEFINE unlocked(i) == Runs("main", "backward") /\ Head(todo["main"]).i = i
             uses(i, w)  == \E q \in DOMAIN loc[i] : loc[i][q] = w
  <2> SUFFICES ASSUME ~ Runs(side, "lookup"), NEW w \in Ways
               PROVE  cache.lock[w] = IF pipeline THEN Cardinality({i \in Batches : uses(i, w) /\ ~ unlocked(i)}) ELSE 0
    BY DEF LocksMatchUse
  <2>1. ASSUME NEW i, NEW p, Mid(i, p) PROVE FALSE
    <3>1. PICK s \in Streams : \E q \in Queue(s) : q = ran[s] + 1 /\ Is(s, q, "lookup", i)
      BY <2>1 DEF Mid
    <3>2. PICK q \in Queue(s) : q = ran[s] + 1 /\ Is(s, q, "lookup", i)
      BY <3>1
    <3>3. s = side /\ Piece(s, q).after = {} /\ Piece(s, q).work = "lookup"
      BY <1>1, <3>2 DEF Order, Contents, ContentOf, Is, Inserting
    <3>4. todo[s] # <<>> /\ Piece(s, q) = Head(todo[s])
      BY <1>1, <3>2, QueueFacts DEF Order
    <3>. QED BY <3>3, <3>4 DEF Runs
  <2>2. cache.lock[w] = Cardinality(Users(w))
    BY <1>1 DEF Locks
  <2>3. CASE ~ pipeline
    <3>1. Users(w) = {}
      BY <2>3 DEF Users, Holds
    <3>. QED BY <2>2, <2>3, <3>1, FS_EmptySet
  <2>4. CASE pipeline
    <3>1. ASSUME NEW i \in Batches PROVE InUse(i, w) <=> uses(i, w)
      BY <2>1 DEF InUse, InLoc, Hit
    <3>2. ASSUME NEW i \in Batches, Holds(i) PROVE ~ unlocked(i)
      <4>1. SUFFICES ASSUME Runs("main", "backward"), Head(todo["main"]).i = i PROVE FALSE
        OBVIOUS
      <4>2. Ready("main") /\ Is("main", ran["main"] + 1, "backward", i)
        BY <1>1, <4>1, QueueFacts DEF Runs, Ready, Is, Order, Streams
      <4>3. PICK work : work = "backward"
        OBVIOUS
      <4>. QED BY <1>1, <2>4, <3>2, <4>2, <4>3, AboutToTrain DEF Is
    <3>3. ASSUME NEW i \in Batches, uses(i, w), ~ Holds(i) PROVE unlocked(i)
      <4>1. Live(i) /\ Unlocked(i)
        BY <1>1, <2>4, <3>3 DEF LocDomain, Holds
      <4>2. Ready("main") /\ Is("main", ran["main"] + 1, "backward", i)
        BY <1>1, <4>1, UnlockedIsNext
      <4>3. Head(todo["main"]).work = "backward" /\ Head(todo["main"]).i = i
        BY <1>1, <4>2, QueueFacts DEF Ready, Is, Order, Streams
      <4>. QED BY <4>2, <4>3 DEF Runs, Ready
    <3> HIDE DEF unlocked, uses
    <3>4. Users(w) = {i \in Batches : uses(i, w) /\ ~ unlocked(i)}
      BY <3>1, <3>2, <3>3 DEF Users
    <3>. QED BY <2>2, <2>4, <3>4
  <2>. QED BY <2>3, <2>4
<1>. QED BY <1>1, Invariance, PTL

(* A backward trains a row in one place only, the one later batches and     *)
(* flushes find it in, although its index may have been inserted for        *)
(* another batch since this one missed it.                                  *)
THEOREM RowsAreTrainedOnce ==
    ASSUME Depth = 1
    PROVE  Spec => []OneCopyTrained
<1>1. ASSUME Order, Device PROVE OneCopyTrained
  <2>1. PICK i, work : i = Piece("main", ran["main"] + 1).i /\ work = "backward"
    OBVIOUS
  <2> SUFFICES ASSUME Runs("main", "backward"), NEW q \in DOMAIN loc[Head(todo["main"]).i]
               PROVE  loc[Head(todo["main"]).i][q] = Location(cache, q[1])
    BY DEF OneCopyTrained
  <2>2. Ready("main") /\ i = Head(todo["main"]).i /\ Piece("main", ran["main"] + 1).work = work
    BY <1>1, <2>1, QueueFacts DEF Runs, Ready, Order, Streams
  <2>3. i \in Batches /\ Live(i) /\ ~ Holds(i)
    BY <1>1, <2>1, <2>2, AboutToTrain DEF Holds
  <2>. QED BY <1>1, <2>2, <2>3 DEF Device, Fixed
<1>. QED BY <1>1, Invariance, PTL

(* A forward and a backward find every row of their batch trained by all    *)
(* batches before, wherever the prefetches of this batch and of the next    *)
(* have put it, but for rows that a flush met while they were evicted.      *)
THEOREM RowsAreLatest ==
    ASSUME Depth = 1
    PROVE  Spec => []RowsLatest
<1>1. ASSUME Order, Device PROVE RowsLatest
  <2> USE DEF Device
  <2>1. SUFFICES ASSUME NEW work \in {"forward", "backward"}, Runs("main", work),
                        NEW i, i = Head(todo["main"]).i, NEW p \in Passes, NEW x \in batch[i][p] \ torn
                 PROVE  Read(x, loc[i][<<x, p>>]) = Trained(x, i)
    BY Zenon DEF RowsLatest
  <2>2. /\ Ready("main") /\ i = Piece("main", ran["main"] + 1).i
        /\ Piece("main", ran["main"] + 1) = Head(todo["main"])
        /\ Piece("main", ran["main"] + 1).work = work /\ todo["main"] # <<>>
    BY <1>1, <2>1, QueueFacts DEF Runs, Ready, Order, Streams
  <2>3. /\ i \in Batches /\ Live(i) /\ (pipeline => (Holds(i) <=> work # "backward"))
        /\ DOMAIN loc[i] = {q \in Idx \X Passes : q[1] \in batch[i][q[2]]}
        /\ Training(ran["main"] + 1)
        /\ \A j \in Batches : IsTrained(j) <=> j < i
    BY <1>1, <2>1, <2>2, AboutToTrain
  <2>4. x \in Idx /\ x # NoIdx
    BY <1>1, <2>3, UVMConstants DEF Order, Turns
  <2>5. Trained(x, i) = Latest(x)
    <3>1. i \in Nat /\ 1 <= i /\ i <= MaxBatches + 1
      BY <2>3, UVMConstants DEF Batches
    <3>. QED BY <2>3, <3>1, TrainedIsLatest
  <2>6. PICK q \in Idx \X Passes : q = <<x, p>> /\ q[1] = x /\ q[2] = p
    <3>1. <<x, p>> \in Idx \X Passes
      BY <2>4
    <3>. QED BY <3>1
  <2>7. PICK v \in Ways \cup {NoWay} : v = loc[i][q] /\ q \in DOMAIN loc[i]
    BY <1>1, <2>1, <2>3, <2>6, CacheFacts
  <2>8. CASE v \in Ways
    <3>1. cache.tag[v] = x
      BY <1>1, <2>3, <2>6, <2>7, <2>8 DEF Located
    <3>2. InUse(i, v)
      BY <2>7 DEF InUse, InLoc
    <3>3. v \notin Range(taken)
      <4>1. SUFFICES ASSUME NEW y \in DOMAIN taken, v = taken[y] PROVE FALSE
        BY DEF Range
      <4>2. CASE work = "backward"
        BY <1>1, <2>2, <4>1, <4>2, NothingTaken
      <4>3. CASE work = "forward" /\ pipeline
        <5>1. i \in Users(v)
          BY <2>3, <3>2, <4>3 DEF Users
        <5>2. cache.lock[v] = 0 /\ cache.lock[v] = Cardinality(Users(v))
          BY <1>1, <2>8, <4>1, <4>3 DEF Taking, Locks
        <5>. QED BY <5>1, <5>2, UsersFinite
      <4>4. CASE work = "forward" /\ ~ pipeline
        <5>1. PICK j \in Batches, k \in Passes : Mid(j, k)
          BY <1>1, <4>1 DEF Taking
        <5>2. PICK s \in Streams : \E r \in Queue(s) : r = ran[s] + 1 /\ Is(s, r, "lookup", j)
          BY <5>1 DEF Mid
        <5>3. PICK r \in Queue(s) : r = ran[s] + 1 /\ Is(s, r, "lookup", j)
          BY <5>2
        <5>4. s = side
          BY <1>1, <5>3 DEF Order, Contents, ContentOf, Is, Inserting
        <5>5. s = "main"
          BY <1>1, <4>4, <5>4 DEF Order, Turns, Streams
        <5>. QED BY <2>2, <4>4, <5>3, <5>5 DEF Is
      <4>. QED BY <2>1, <4>2, <4>3, <4>4
    <3>4. l1[v] = Latest(x)
      BY <1>1, <2>1, <2>4, <2>8, <3>1, <3>3 DEF Values
    <3>5. v # NoWay
      BY <1>1, <2>8, CacheFacts
    <3>. QED BY <2>5, <2>6, <2>7, <3>4, <3>5 DEF Read
  <2>9. CASE v = NoWay
    <3>1. uvm[x] = Latest(x)
      <4>1. CASE Holds(i)
        <5>1. \A r \in DOMAIN loc[i] : loc[i][r] = NoWay /\ r[1] \notin torn => uvm[r[1]] = Latest(r[1])
          BY <1>1, <2>3, <4>1 DEF Values
        <5>. QED BY <2>1, <2>6, <2>7, <2>9, <5>1
      <4>2. CASE ~ Holds(i)
        <5>1. Location(cache, x) = NoWay
          BY <1>1, <2>3, <2>6, <2>7, <2>9, <4>2 DEF Fixed
        <5>2. x \notin Cached(cache)
          BY <1>1, <2>4, <5>1, CacheFacts, LocationFacts
        <5>. QED BY <1>1, <2>1, <2>4, <5>2 DEF Values
      <4>. QED BY <4>1, <4>2
    <3>. QED BY <2>5, <2>6, <2>7, <2>9, <3>1 DEF Read
  <2>. QED BY <2>7, <2>8, <2>9
<1>. QED BY <1>1, Invariance, PTL

(* After a flush the tables in UVM hold every update of the batches before  *)
(* it, also while the prefetch of later ones moves rows, but for the rows   *)
(* that a flush meets while they are evicted.                               *)
THEOREM FlushesStoreLatest ==
    ASSUME Depth = 1
    PROVE  Spec => FlushStoresLatest
<1>1. ASSUME Order, Device, FlushRun, NEW x \in Idx \ torn'
      PROVE  uvm'[x] = Trained(x, Head(todo["main"]).i)
  <2> USE DEF Device
  <2>1. PICK i : i = Head(todo["main"]).i
    OBVIOUS
  <2>2. /\ Ready("main") /\ i = Piece("main", ran["main"] + 1).i /\ todo["main"] # <<>>
        /\ Piece("main", ran["main"] + 1).work = "flush" /\ Training(ran["main"] + 1)
    BY <1>1, <2>1, QueueFacts DEF FlushRun, Runs, Ready, Order, Streams, Training, Inserting
  <2>3. i \in Nat /\ 1 <= i /\ i <= MaxBatches + 1 /\ \A j \in Batches : IsTrained(j) <=> j < i
    BY <1>1, <2>2, TrainedBefore
  <2>4. Trained(x, i) = Latest(x)
    BY <2>3, TrainedIsLatest
  <2>5. PICK late \in SUBSET Range(taken) :
            /\ uvm' = [y \in Idx |-> IF y \in Cached(cache) \ Moving(Range(taken) \ late)
                                     THEN l1[Location(cache, y)] ELSE uvm[y]]
            /\ torn' = torn \cup Moving(late)
    BY <1>1 DEF FlushRun
  <2>6. x \notin torn /\ x \notin Moving(late) /\ x # NoIdx
    BY <1>1, <2>5, CacheFacts
  <2>7. CASE x \in Cached(cache)
    <3>1. PICK w \in Ways : w = Location(cache, x) /\ cache.tag[w] = x
      BY <1>1, <2>7, CacheFacts, LocationFacts
    <3>2. CASE w \in Range(taken)
      <4>1. PICK y \in DOMAIN taken : taken[y] = w
        BY <3>2 DEF Range
      <4>2. uvm[x] = Latest(x)
        BY <1>1, <2>6, <3>1, <4>1 DEF Values
      <4>3. x \in Moving(Range(taken) \ late)
        BY <2>6, <3>1, <3>2 DEF Moving
      <4>. QED BY <2>1, <2>4, <2>5, <4>2, <4>3
    <3>3. CASE w \notin Range(taken)
      <4>1. l1[w] = Latest(x)
        BY <1>1, <2>6, <3>1, <3>3 DEF Values
      <4>2. x \notin Moving(Range(taken) \ late)
        BY <1>1, <2>6, <3>1, <3>3, CacheFacts DEF Moving, UniqueTags, DeviceOK, Range
      <4>. QED BY <2>1, <2>4, <2>5, <2>7, <3>1, <4>1, <4>2
    <3>. QED BY <3>2, <3>3
  <2>8. CASE x \notin Cached(cache)
    BY <1>1, <2>1, <2>4, <2>5, <2>6, <2>8 DEF Values
  <2>. QED BY <2>7, <2>8
<1>2. Order /\ Device /\ [Next]_vars =>
          [FlushRun => \A x \in Idx \ torn' : uvm'[x] = Trained(x, Head(todo["main"]).i)]_vars
  BY <1>1
<1>. QED BY <1>2, Invariance, PTL DEF Spec, FlushStoresLatest
=============================================================================
