---------------------- MODULE RawEmbeddingStreamer_proofs ----------------------
(***************************************************************************)
(* Proof about RawEmbeddingStreamer for any number of iterations and of    *)
(* updates: an index is never sent with the weights of another iteration,  *)
(* but for what SSD training streams of a row it did not find in the cache *)
(* and for buffers that are not copied.                                    *)
(***************************************************************************)
EXTENDS RawEmbeddingStreamer, SequenceTheorems, TLAPS

UvmWorks == {"lookup", "weights", "indices", "flag"}
SsdWorks == {"sync", "indices", "lookup", "weights", "stream", "pad"}
Works    == UvmWorks \cup SsdWorks
Indices  == Int \ {Live}   \* what is copied is never live
Items    == [index : Indices, weights : Int]

TypeOK ==
    /\ caller \in {"uvm", "uvm_sync", "ssd"} /\ next \in Nat
    /\ gpu \in Seq([work : Works, i : Nat])
    /\ found \in BOOLEAN /\ indices \in Indices /\ weights \in Int /\ flag \in {0, 1}
    /\ copier \in {"none", "poll", "reset", "copy", "weights", "enqueue"}
    /\ copy \in Items /\ queue \in Seq(Items)

(* The work of an iteration is in order, and that of one iteration comes    *)
(* before that of the next.                                                 *)
WorksOf  == IF caller # "ssd" THEN UvmWorks ELSE SsdWorks
LastWork == IF caller # "ssd" THEN "flag" ELSE "pad"

AfterUvm(w) ==
    CASE w = "lookup" -> "weights" [] w = "weights" -> "indices" [] w = "indices" -> "flag"
      [] OTHER -> "nothing"

AfterSsd(w) ==
    CASE w = "sync" -> "indices" [] w = "indices" -> "lookup" [] w = "lookup" -> "weights"
      [] w = "weights" -> "stream" [] w = "stream" -> "pad" [] OTHER -> "sync"

Follows(a, b) ==
    /\ b.work = IF caller # "ssd" THEN AfterUvm(a.work) ELSE AfterSsd(a.work)
    /\ a.work # "pad" => b.i = a.i

InOrder ==
    /\ gpu # <<>> => gpu[Len(gpu)].work = LastWork
    /\ \A n \in 1..Len(gpu) : n + 1 <= Len(gpu) => Follows(gpu[n], gpu[n + 1])
    /\ \A n \in 1..Len(gpu) : gpu[n].work \in WorksOf

Paired(i, w) == i \in {Masked, w} \/ (caller = "ssd" /\ i \in missed)

(* UVM training streams an iteration when the copies of the one before are  *)
(* made.  The flag stands for the work queued.                              *)
UvmInStep ==
    LET w == Head(gpu).work
    IN  /\ copier \in {"none", "copy", "weights", "enqueue"} => gpu = <<>> /\ flag = 0
        /\ copier = "poll" => flag = IF gpu = <<>> THEN 1 ELSE 0
        /\ copier = "reset" => gpu = <<>> /\ flag = 1
        /\ gpu = <<>> \/ w = "flag" => Paired(indices, weights)
        /\ gpu # <<>> /\ w = "indices" => (found => weights = Head(gpu).i)

(* SSD training fills the buffers between two callbacks: no copy is made    *)
(* then.  A row the lookup did not find leaves another one's weights there. *)
SsdInStep ==
    LET w == Head(gpu).work
        i == Head(gpu).i
    IN  /\ copier \in {"none", "copy", "weights", "enqueue"}
        /\ copier # "none" => gpu = <<>> \/ w \in {"pad", "sync"}
        /\ gpu = <<>> \/ w \in {"pad", "sync", "stream"} => Paired(indices, weights)
        /\ gpu # <<>> /\ w \in {"lookup", "weights"} => indices = i
        /\ gpu # <<>> /\ w = "weights" => found \/ i \in missed

InStep == IF caller # "ssd" THEN UvmInStep ELSE SsdInStep

Copied ==
    /\ copier \in {"weights", "enqueue"} => copy.index = indices
    /\ copier = "enqueue" => copy.weights = weights

Queued == \A n \in 1..Len(queue) : Paired(queue[n].index, queue[n].weights)

\* The sender has what it peeked at.
Peeked == sender \in {"peeked", "send"} => queue # <<>>

Paths == TypeOK /\ InOrder /\ InStep /\ Copied /\ Queued /\ Peeked

\* After a poll that timed out there is nothing to say, nor of buffers that
\* nobody copies.
IInv == ~ late /\ caller # "uvm_live" => Paths

-----------------------------------------------------------------------------
LEMMA InitIInv == Init => IInv
<1> SUFFICES ASSUME Init, caller # "uvm_live" PROVE Paths BY DEF IInv
<1>0. caller \in {"uvm", "uvm_sync", "ssd"} BY StreamerConstants DEF Init, Uvm
<1>1. TypeOK
    <2>1. gpu \in Seq([work : Works, i : Nat]) /\ queue \in Seq(Items) BY EmptySeq DEF Init
    <2>2. copy \in Items BY SMT DEF Init, Items, Item, Indices, Live
    <2>3. next \in Nat /\ indices \in Indices /\ weights \in Int /\ flag \in {0, 1} BY SMT DEF Init, Indices, Live
    <2>4. found \in BOOLEAN /\ copier = "none" BY DEF Init
    <2> QED BY <1>0, <2>1, <2>2, <2>3, <2>4 DEF TypeOK
<1>2. gpu = <<>> /\ Len(gpu) = 0 /\ queue = <<>> /\ Len(queue) = 0 BY DEF Init
<1>3. InOrder BY <1>2 DEF InOrder
<1>4. InStep BY <1>2 DEF Init, InStep, UvmInStep, SsdInStep, Paired
<1>5. Copied /\ Queued /\ Peeked BY <1>2 DEF Init, Copied, Queued, Peeked
<1> QED BY <1>1, <1>3, <1>4, <1>5 DEF Paths

LEMMA HeadTail ==
    ASSUME NEW S, NEW s \in Seq(S)
    PROVE  /\ s # <<>> <=> Len(s) > 0
           /\ s # <<>> => /\ s[1] = Head(s) /\ Head(s) \in S
                         /\ Tail(s) \in Seq(S) /\ Len(Tail(s)) = Len(s) - 1
                         /\ \A n \in 1..Len(Tail(s)) : Tail(s)[n] = s[n + 1]
<1>1. s # <<>> <=> Len(s) > 0 BY EmptySeq, LenProperties, SMT
<1>2. s[1] = Head(s) BY DEF Head
<1> QED BY <1>1, <1>2, HeadTailProperties

LEMMA UvmWork ==
    ASSUME TypeOK, InOrder, StreamUvm, gpu = <<>>
    PROVE  /\ InOrder' /\ gpu' \in Seq([work : Works, i : Nat])
           /\ gpu' # <<>> /\ Head(gpu').work = "lookup"
<1> DEFINE names == <<"lookup", "weights", "indices", "flag">>
<1>1. PICK W : W = Work(next, names) OBVIOUS
<1>2. W = [n \in 1..4 |-> [work |-> names[n], i |-> next]] BY <1>1 DEF Work
<1>3. \A n \in 1..4 : names[n] \in Works BY SMT DEF Works, UvmWorks
<1>4. W \in Seq([work : Works, i : Nat]) /\ Len(W) = 4
    BY <1>2, <1>3, SMT DEF TypeOK
<1>5. /\ W[1] = [work |-> "lookup", i |-> next] /\ W[2] = [work |-> "weights", i |-> next]
      /\ W[3] = [work |-> "indices", i |-> next] /\ W[4] = [work |-> "flag", i |-> next]
    BY <1>2, SMT
<1>6. gpu' = W /\ caller' # "ssd" BY <1>1, <1>4, ConcatEmptySeq DEF StreamUvm, Uvm
<1>7. W # <<>> /\ Head(W) = W[1] BY <1>4, HeadTail
<1>8. \A n \in 1..4 : n + 1 <= 4 => Follows(W[n], W[n + 1])'
    <2> SUFFICES ASSUME NEW n \in 1..4, n + 1 <= 4 PROVE Follows(W[n], W[n + 1])' OBVIOUS
    <2>1. n = 1 \/ n = 2 \/ n = 3 BY SMT
    <2> QED BY <1>5, <1>6, <2>1 DEF Follows, AfterUvm
<1>9. \A n \in 1..4 : W[n].work \in UvmWorks BY <1>2, SMT DEF UvmWorks
<1>10. W[Len(W)].work = LastWork' BY <1>4, <1>5, <1>6 DEF LastWork
<1>11. InOrder' BY <1>4, <1>6, <1>8, <1>9, <1>10 DEF InOrder, WorksOf
<1> QED BY <1>4, <1>5, <1>6, <1>7, <1>11

LEMMA SsdWork ==
    ASSUME TypeOK, InOrder, StreamSsd
    PROVE  /\ InOrder' /\ gpu' \in Seq([work : Works, i : Nat])
           /\ gpu' # <<>>
           /\ IF gpu = <<>> THEN Head(gpu').work = "sync" ELSE Head(gpu') = Head(gpu)
<1> DEFINE names == <<"sync", "indices", "lookup", "weights", "stream", "pad">>
           S     == [work : Works, i : Nat]
<1>1. PICK W : W = Work(next, names) OBVIOUS
<1>2. W = [n \in 1..6 |-> [work |-> names[n], i |-> next]] BY <1>1 DEF Work
<1>3. \A n \in 1..6 : names[n] \in Works BY SMT DEF Works, SsdWorks
<1>4. W \in Seq(S) /\ Len(W) = 6 BY <1>2, <1>3, SMT DEF TypeOK
<1>5. /\ W[1] = [work |-> "sync", i |-> next] /\ W[2] = [work |-> "indices", i |-> next]
      /\ W[3] = [work |-> "lookup", i |-> next] /\ W[4] = [work |-> "weights", i |-> next]
      /\ W[5] = [work |-> "stream", i |-> next] /\ W[6] = [work |-> "pad", i |-> next]
    BY <1>2, SMT
<1>6. PICK G \in Seq(S) : G = gpu BY DEF TypeOK
<1>7. gpu' = G \o W /\ caller = "ssd" /\ caller' = "ssd" BY <1>1, <1>6 DEF StreamSsd
<1> HIDE DEF S
<1>a. PICK Z : Z = G \o W OBVIOUS
<1>b. Z \in Seq(S) /\ Len(Z) = Len(G) + Len(W)
      /\ \A n \in 1..Len(G) + Len(W) : Z[n] = IF n <= Len(G) THEN G[n] ELSE W[n - Len(G)]
    BY <1>4, <1>a, ConcatProperties
<1>c. Len(G) \in Nat BY LenProperties
<1>8. /\ Z \in Seq(S) /\ Len(Z) = Len(G) + 6
      /\ \A n \in 1..Len(G) + 6 : Z[n] = IF n <= Len(G) THEN G[n] ELSE W[n - Len(G)]
    BY <1>4, <1>b
<1>9. Z # <<>> /\ Z[1] = Head(Z)
    <2>1. Len(Z) > 0 BY <1>8, <1>c, SMT
    <2> QED BY <1>8, <2>1, HeadTail
<1>10. IF G = <<>> THEN Head(Z).work = "sync" ELSE Head(Z) = Head(G)
    <2>1. CASE G = <<>>
        <3>1. Len(G) = 0 BY <2>1
        <3>2. Z[1] = W[1] BY <1>8, <3>1, SMT
        <3> QED BY <1>5, <1>9, <2>1, <3>2
    <2>2. CASE G # <<>>
        <3>1. Len(G) > 0 /\ G[1] = Head(G) BY <2>2, HeadTail
        <3>2. Z[1] = G[1] BY <1>8, <1>c, <3>1, SMT
        <3> QED BY <1>9, <2>2, <3>1, <3>2
    <2> QED BY <2>1, <2>2
<1>11. \A n \in 1..6 : n + 1 <= 6 => Follows(W[n], W[n + 1])
    <2> SUFFICES ASSUME NEW n \in 1..6, n + 1 <= 6 PROVE Follows(W[n], W[n + 1]) OBVIOUS
    <2>1. n = 1 \/ n = 2 \/ n = 3 \/ n = 4 \/ n = 5 BY SMT
    <2> QED BY <1>5, <1>7, <2>1 DEF Follows, AfterSsd
<1>12. ASSUME NEW n \in 1..Len(Z), n + 1 <= Len(Z) PROVE Follows(Z[n], Z[n + 1])
    <2>1. CASE n + 1 <= Len(G)
        <3>1. Z[n] = G[n] /\ Z[n + 1] = G[n + 1] BY <1>8, <1>c, <1>12, <2>1, SMT
        <3>2. Follows(G[n], G[n + 1]) BY <1>6, <1>8, <1>c, <1>12, <2>1, SMT DEF InOrder
        <3> QED BY <3>1, <3>2
    <2>2. CASE n = Len(G)
        <3>1. Z[n] = G[n] /\ Z[n + 1] = W[1] BY <1>8, <1>c, <1>12, <2>2, SMT
        <3>2. Len(G) > 0 BY <1>12, <2>2, SMT
        <3>3. G[n].work = "pad" BY <1>6, <1>7, <2>2, <3>2, HeadTail DEF InOrder, LastWork
        <3> QED BY <1>5, <1>7, <3>1, <3>3 DEF Follows, AfterSsd
    <2>3. CASE n > Len(G)
        <3>1. PICK m \in 1..6 : m = n - Len(G) /\ m + 1 <= 6 BY <1>8, <1>c, <1>12, <2>3, SMT
        <3>2. Z[n] = W[m] /\ Z[n + 1] = W[m + 1] BY <1>8, <1>c, <1>12, <2>3, <3>1, SMT
        <3> QED BY <1>11, <3>1, <3>2
    <2> QED BY <1>8, <1>c, <2>1, <2>2, <2>3, SMT
<1>13. Z[Len(Z)].work = "pad"
    <2>1. Z[Len(Z)] = W[6] BY <1>8, <1>c, SMT
    <2> QED BY <1>5, <2>1
<1>14. \A n \in 1..Len(Z) : n + 1 <= Len(Z) => Follows(Z[n], Z[n + 1])' BY <1>7, <1>12 DEF Follows
<1>15. gpu' = Z BY <1>7, <1>a
<1>d. ASSUME NEW n \in 1..Len(Z) PROVE Z[n].work \in SsdWorks
    <2>1. CASE n <= Len(G)
        <3>1. Z[n] = G[n] /\ n \in 1..Len(G) BY <1>8, <1>c, <2>1, SMT
        <3> QED BY <1>6, <1>7, <3>1 DEF InOrder, WorksOf
    <2>2. CASE n > Len(G)
        <3>1. PICK m \in 1..6 : m = n - Len(G) BY <1>8, <1>c, <2>2, SMT
        <3>2. Z[n] = W[m] BY <1>8, <1>c, <2>2, <3>1, SMT
        <3>3. m = 1 \/ m = 2 \/ m = 3 \/ m = 4 \/ m = 5 \/ m = 6 BY SMT
        <3> QED BY <1>5, <3>2, <3>3 DEF SsdWorks
    <2> QED BY <1>8, <1>c, <2>1, <2>2, SMT
<1>16. InOrder' BY <1>7, <1>13, <1>14, <1>15, <1>d DEF InOrder, LastWork, WorksOf
<1> QED BY <1>6, <1>8, <1>9, <1>10, <1>15, <1>16 DEF S

\* The device does a piece of work: what is next follows it.
LEMMA WorkDone ==
    ASSUME TypeOK, InOrder, gpu # <<>>, gpu' = Tail(gpu), caller' = caller
    PROVE  /\ InOrder' /\ gpu' \in Seq([work : Works, i : Nat])
           /\ Head(gpu) \in [work : Works, i : Nat]
           /\ Head(gpu).work \in WorksOf
           /\ gpu' = <<>> => Head(gpu).work = LastWork
           /\ gpu' # <<>> => Follows(Head(gpu), Head(gpu'))
           /\ gpu' # <<>> => Head(gpu').work \in WorksOf
<1> DEFINE S == [work : Works, i : Nat]
<1>1. PICK G \in Seq(S) : G = gpu BY DEF TypeOK
<1>2. PICK T \in Seq(S) : T = Tail(G) BY <1>1, HeadTail
<1> HIDE DEF S
<1>3. /\ Len(G) > 0 /\ Len(G) \in Nat /\ G[1] = Head(G) /\ Head(G) \in S
      /\ Len(T) = Len(G) - 1 /\ \A n \in 1..Len(T) : T[n] = G[n + 1]
    BY <1>1, <1>2, HeadTail, LenProperties
<1>4. T # <<>> <=> Len(T) > 0 BY HeadTail
<1>5. T # <<>> => T[1] = Head(T) BY HeadTail
<1>6. \A n \in 1..Len(G) : n + 1 <= Len(G) => Follows(G[n], G[n + 1]) BY <1>1 DEF InOrder
<1>7. \A n \in 1..Len(T) : n + 1 <= Len(T) => Follows(T[n], T[n + 1])
    <2> SUFFICES ASSUME NEW n \in 1..Len(T), n + 1 <= Len(T) PROVE Follows(T[n], T[n + 1]) OBVIOUS
    <2>1. PICK m \in 1..Len(G) : m = n + 1 /\ m + 1 <= Len(G) BY <1>3, SMT
    <2>2. T[n] = G[m] /\ T[n + 1] = G[m + 1] BY <1>3, <2>1, SMT
    <2> QED BY <1>6, <2>1, <2>2
<1>8. \A n \in 1..Len(T) : n + 1 <= Len(T) => Follows(T[n], T[n + 1])' BY <1>7 DEF Follows
<1>9. T # <<>> => T[Len(T)] = G[Len(G)] BY <1>3, <1>4, SMT
<1>10. G[Len(G)].work = LastWork BY <1>1 DEF InOrder
<1>11. \A n \in 1..Len(T) : T[n].work \in WorksOf
    BY <1>1, <1>3, SMT DEF InOrder
<1>12. gpu' = T BY <1>1, <1>2
<1>13. InOrder' BY <1>8, <1>9, <1>10, <1>11, <1>12 DEF InOrder, LastWork, WorksOf
<1>14. Head(gpu).work \in WorksOf BY <1>1, <1>3, SMT DEF InOrder
<1>15. gpu' = <<>> => Head(gpu).work = LastWork
    <2> SUFFICES ASSUME T = <<>> PROVE Head(G).work = LastWork BY <1>1, <1>12
    <2>1. Len(G) = 1 BY <1>3, <1>4, SMT
    <2> QED BY <1>3, <1>10, <2>1
<1>16. gpu' # <<>> => Follows(Head(gpu), Head(gpu'))
    <2> SUFFICES ASSUME T # <<>> PROVE Follows(Head(G), Head(T)) BY <1>1, <1>12
    <2>1. 1 \in 1..Len(G) /\ 1 + 1 <= Len(G) /\ T[1] = G[1 + 1] BY <1>3, <1>4, SMT
    <2>2. Follows(G[1], G[1 + 1]) BY <1>6, <2>1
    <2> QED BY <1>3, <1>5, <2>1, <2>2
<1>17. gpu' # <<>> => Head(gpu').work \in WorksOf
    <2> SUFFICES ASSUME T # <<>> PROVE Head(T).work \in WorksOf BY <1>12
    <2>1. 1 \in 1..Len(T) BY <1>3, <1>4, SMT
    <2> QED BY <1>5, <1>11, <2>1
<1> QED BY <1>1, <1>3, <1>12, <1>13, <1>14, <1>15, <1>16, <1>17 DEF S

LEMMA QueuedMore ==
    ASSUME TypeOK, Queued, caller' = caller, missed' = missed,
           NEW i \in Indices, NEW w \in Int, queue' = Append(queue, Item(i, w)), Paired(i, w)
    PROVE  Queued' /\ queue' \in Seq(Items) /\ queue' # <<>>
<1>1. PICK x \in Items : x = Item(i, w) BY DEF Items, Item
<1>2. queue \in Seq(Items) BY DEF TypeOK
<1>3. /\ queue' \in Seq(Items) /\ Len(queue') = Len(queue) + 1 /\ Len(queue) \in Nat
      /\ \A n \in 1..Len(queue) : queue'[n] = queue[n]
      /\ queue'[Len(queue) + 1] = x
    BY <1>1, <1>2, AppendProperties, LenProperties
<1>4. x.index = i /\ x.weights = w BY <1>1 DEF Item
<1>5. ASSUME NEW n \in 1..Len(queue') PROVE Paired(queue'[n].index, queue'[n].weights)
    <2>1. CASE n \in 1..Len(queue) BY <1>3, <2>1 DEF Queued
    <2>2. CASE n = Len(queue) + 1 BY <1>3, <1>4, <2>2
    <2> QED BY <1>3, <2>1, <2>2, SMT
<1>6. queue' # <<>> BY <1>3, HeadTail, SMT
<1> QED BY <1>3, <1>5, <1>6 DEF Queued, Paired

LEMMA QueuedLess ==
    ASSUME TypeOK, caller' = caller, missed' = missed, queue # <<>>, queue' = Tail(queue)
    PROVE  queue' \in Seq(Items) /\ (Queued => Queued')
<1>1. PICK Q \in Seq(Items) : Q = queue BY DEF TypeOK
<1>2. /\ Len(Q) \in Nat /\ Tail(Q) \in Seq(Items) /\ Len(Tail(Q)) = Len(Q) - 1
      /\ \A n \in 1..Len(Tail(Q)) : Tail(Q)[n] = Q[n + 1]
    BY <1>1, HeadTail, LenProperties
<1>3. ASSUME Queued PROVE Queued'
    <2> SUFFICES ASSUME NEW n \in 1..Len(Tail(Q)) PROVE Paired(Tail(Q)[n].index, Tail(Q)[n].weights)
        BY <1>1 DEF Queued, Paired
    <2>1. n + 1 \in 1..Len(Q) BY <1>2, SMT
    <2> QED BY <1>1, <1>2, <1>3, <2>1 DEF Queued
<1> QED BY <1>1, <1>2, <1>3

-----------------------------------------------------------------------------

(* A step keeps the buffers, the copy and the queue paired, whoever takes   *)
(* it.  The host queues the work of an iteration:                           *)
LEMMA StepHost ==
    ASSUME Paths, StreamUvm \/ StreamSsd \/ StreamReady
    PROVE  Paths'
<1> USE DEF Paths
<1>1. CASE StreamUvm
    <2>1. /\ caller # "ssd" /\ caller' = caller /\ caller # "uvm_live" /\ copier = "none"
          /\ copier' = "poll" /\ queue' = queue /\ next' \in Nat
        BY <1>1, SMT DEF StreamUvm, Uvm, Joined, TypeOK
    <2>2. gpu = <<>> /\ flag = 0 BY <2>1 DEF InStep, UvmInStep
    <2>3. /\ InOrder' /\ gpu' \in Seq([work : Works, i : Nat])
          /\ gpu' # <<>> /\ Head(gpu').work = "lookup"
        BY <1>1, <2>2, UvmWork
    <2>4. TypeOK' BY <1>1, <2>1, <2>3 DEF TypeOK, StreamUvm, buffers
    <2>5. InStep' BY <1>1, <2>1, <2>2, <2>3 DEF InStep, UvmInStep, Paired, StreamUvm, buffers
    <2>6. Copied' /\ Queued' /\ Peeked'
        BY <1>1, <2>1 DEF Copied, Queued, Peeked, Paired, StreamUvm, buffers
    <2> QED BY <2>3, <2>4, <2>5, <2>6
<1>2. CASE StreamSsd
    <2>1. caller = "ssd" /\ caller' = "ssd" /\ next' \in Nat BY <1>2, SMT DEF StreamSsd, TypeOK
    <2>2. /\ InOrder' /\ gpu' \in Seq([work : Works, i : Nat]) /\ gpu' # <<>>
          /\ IF gpu = <<>> THEN Head(gpu').work = "sync" ELSE Head(gpu') = Head(gpu)
        BY <1>2, SsdWork
    <2>3. TypeOK' BY <1>2, <2>1, <2>2 DEF TypeOK, StreamSsd, buffers, threads
    <2>4. InStep' BY <1>2, <2>1, <2>2 DEF InStep, SsdInStep, Paired, StreamSsd, buffers, threads
    <2>5. Copied' /\ Queued' /\ Peeked' 
        BY <1>2, <2>1 DEF Copied, Queued, Peeked, Paired, StreamSsd, buffers, threads
    <2> QED BY <2>2, <2>3, <2>4, <2>5
<1>3. CASE StreamReady
    <2>1. UNCHANGED <<host, gpu, buffers, flag, sent, threads>> BY <1>3 DEF StreamReady
    <2>2. MaxIter + 1 \in Indices /\ MaxIter + 1 \in Int /\ Paired(MaxIter + 1, MaxIter + 1)
        BY StreamerConstants, SMT DEF Paired, Indices, Live
    <2>3. queue' = Append(queue, Item(MaxIter + 1, MaxIter + 1)) BY <1>3 DEF StreamReady
    <2>4. queue' \in Seq(Items) /\ Queued' /\ Peeked'
        BY <2>1, <2>2, <2>3, QueuedMore DEF Peeked, host, buffers
    <2>5. TypeOK' BY <2>1, <2>4 DEF TypeOK, host, buffers, threads
    <2>6. InOrder' BY <2>1 DEF InOrder, LastWork, WorksOf, Follows, host
    <2>7. InStep' /\ Copied'
        BY <2>1 DEF InStep, UvmInStep, SsdInStep, Copied, Paired, host, buffers, threads
    <2> QED BY <2>4, <2>5, <2>6, <2>7
<1> QED BY <1>1, <1>2, <1>3

\* The device.
LEMMA StepDevice ==
    ASSUME Paths, Device
    PROVE  Paths'
<1> USE DEF Paths
<1>0. sender' = sender
    BY DEF Device, Lookup, Select, CopyIndices, FillFlag, StreamSync, StreamCallback, StreamPad, Done
<1>1. gpu # <<>> /\ gpu' = Tail(gpu) /\ caller' = caller /\ next' = next
    BY DEF Device, Lookup, Select, CopyIndices, FillFlag, StreamSync, StreamCallback, StreamPad,
           Done, Runs, host
<1>2. /\ InOrder' /\ gpu' \in Seq([work : Works, i : Nat])
      /\ Head(gpu) \in [work : Works, i : Nat]
      /\ Head(gpu).work \in WorksOf
      /\ gpu' = <<>> => Head(gpu).work = LastWork
      /\ gpu' # <<>> => Follows(Head(gpu), Head(gpu'))
      /\ gpu' # <<>> => Head(gpu').work \in WorksOf
    BY <1>1, WorkDone
<1>3. PICK i \in Nat : i = Head(gpu).i BY <1>2
<1>4. PICK v \in Works : v = Head(gpu).work BY <1>2
\* What comes next.
<1>5. caller # "ssd" =>
         \/ v = "lookup" /\ gpu' # <<>> /\ Head(gpu').work = "weights"
         \/ v = "weights" /\ gpu' # <<>> /\ Head(gpu').work = "indices"
         \/ v = "indices" /\ gpu' # <<>> /\ Head(gpu').work = "flag"
         \/ v = "flag" /\ gpu' = <<>>
    BY <1>2, <1>4 DEF Follows, AfterUvm, LastWork, WorksOf, UvmWorks
<1>6. caller = "ssd" =>
         \/ v = "sync" /\ gpu' # <<>> /\ Head(gpu').work = "indices"
         \/ v = "indices" /\ gpu' # <<>> /\ Head(gpu').work = "lookup"
         \/ v = "lookup" /\ gpu' # <<>> /\ Head(gpu').work = "weights"
         \/ v = "weights" /\ gpu' # <<>> /\ Head(gpu').work = "stream"
         \/ v = "stream" /\ gpu' # <<>> /\ Head(gpu').work = "pad"
         \/ v = "pad" /\ (gpu' = <<>> \/ Head(gpu').work = "sync")
    BY <1>2, <1>4 DEF Follows, AfterSsd, LastWork, WorksOf, SsdWorks
<1>7. gpu' # <<>> /\ v # "pad" => Head(gpu').i = i BY <1>2, <1>3, <1>4 DEF Follows
<1>8. caller \in {"uvm", "uvm_sync", "ssd"} BY DEF TypeOK
<1>9. caller # "ssd" => copier = "poll" /\ flag = 0 BY <1>1 DEF InStep, UvmInStep, TypeOK
<1>a. CASE Lookup
    <2>1. /\ v = "lookup" /\ (found' \/ i \in missed') /\ found' \in BOOLEAN
          /\ \A m \in missed : m \in missed'
        BY <1>3, <1>4, <1>a DEF Lookup, Runs
    <2>2. UNCHANGED <<indices, weights, flag, queue, copier, copy>> BY <1>a DEF Lookup
    <2>3. TypeOK' BY <1>1, <1>2, <2>1, <2>2 DEF TypeOK
    <2>4. Copied' /\ Queued' /\ Peeked' BY <1>0, <1>1, <2>1, <2>2 DEF Copied, Queued, Peeked, Paired
    <2>5. CASE caller # "ssd"
        <3>1. InStep' BY <1>1, <1>5, <1>9, <2>1, <2>2, <2>5 DEF InStep, UvmInStep
        <3> QED BY <1>2, <2>3, <2>4, <3>1
    <2>6. CASE caller = "ssd"
        <3>1. copier = "none" /\ indices = i BY <1>1, <1>3, <1>4, <2>1, <2>6 DEF InStep, SsdInStep
        <3> QED BY <1>1, <1>2, <1>6, <1>7, <2>1, <2>2, <2>3, <2>4, <2>6, <3>1 DEF InStep, SsdInStep
    <2> QED BY <1>2, <1>8, <2>3, <2>4, <2>5, <2>6
<1>b. CASE Select
    <2>1. v = "weights" /\ weights' = IF found THEN i ELSE weights
        BY <1>3, <1>4, <1>b DEF Select, Runs
    <2>2. UNCHANGED <<missed, found, indices, flag, queue, copier, copy>> BY <1>b DEF Select
    <2>3. TypeOK' BY <1>1, <1>2, <2>1, <2>2 DEF TypeOK
    <2>4. Queued' /\ Peeked' BY <1>0, <1>1, <2>2 DEF Queued, Peeked, Paired
    <2>5. CASE caller # "ssd"
        <3>1. InStep' BY <1>1, <1>5, <1>7, <1>9, <2>1, <2>2, <2>5 DEF InStep, UvmInStep, Paired
        <3>2. Copied' BY <1>9, <2>2, <2>5 DEF Copied
        <3> QED BY <1>2, <2>3, <2>4, <3>1, <3>2
    <2>6. CASE caller = "ssd"
        <3>1. copier = "none" /\ indices = i /\ (found \/ i \in missed)
            BY <1>1, <1>3, <1>4, <2>1, <2>6 DEF InStep, SsdInStep
        <3>2. InStep'
            BY <1>1, <1>6, <2>1, <2>2, <2>6, <3>1 DEF InStep, SsdInStep, Paired
        <3>3. Copied' BY <2>2, <3>1 DEF Copied
        <3> QED BY <1>2, <2>3, <2>4, <3>2, <3>3
    <2> QED BY <1>8, <2>5, <2>6
<1>c. CASE CopyIndices
    <2>1. v = "indices" /\ indices' = IF caller # "ssd" /\ ~ found THEN Masked ELSE i
        BY <1>3, <1>4, <1>8, <1>c DEF CopyIndices, Runs, UpdatedIndices, Uvm
    <2>2. UNCHANGED <<missed, found, weights, flag, queue, copier, copy>> BY <1>c DEF CopyIndices
    <2>3. TypeOK' BY <1>1, <1>2, <2>1, <2>2, SMT DEF TypeOK, Masked, Indices, Live
    <2>4. Queued' /\ Peeked' BY <1>0, <1>1, <2>2 DEF Queued, Peeked, Paired
    <2>5. CASE caller # "ssd"
        <3>1. found => weights = i BY <1>1, <1>3, <1>4, <2>1, <2>5 DEF InStep, UvmInStep, Paired
        <3>2. InStep'
            BY <1>1, <1>5, <1>9, <2>1, <2>2, <2>5, <3>1 DEF InStep, UvmInStep, Paired
        <3>3. Copied' BY <1>9, <2>2, <2>5 DEF Copied
        <3> QED BY <1>2, <2>3, <2>4, <3>2, <3>3
    <2>6. CASE caller = "ssd"
        <3>1. copier = "none" BY <1>1, <1>4, <2>1, <2>6 DEF InStep, SsdInStep, Paired
        <3>2. InStep' BY <1>1, <1>6, <1>7, <2>1, <2>2, <2>6, <3>1 DEF InStep, SsdInStep, Paired
        <3>3. Copied' BY <2>2, <3>1 DEF Copied
        <3> QED BY <1>2, <2>3, <2>4, <3>2, <3>3
    <2> QED BY <1>8, <2>5, <2>6
<1>d. CASE FillFlag
    <2>1. v = "flag" /\ flag' = 1 BY <1>4, <1>d DEF FillFlag, Runs
    <2>2. UNCHANGED <<missed, found, indices, weights, queue, copier, copy>> BY <1>d DEF FillFlag, buffers
    <2>3. TypeOK' BY <1>1, <1>2, <2>1, <2>2 DEF TypeOK
    <2>4. Copied' /\ Queued' /\ Peeked' BY <1>0, <1>1, <2>2 DEF Copied, Queued, Peeked, Paired
    <2>5. CASE caller # "ssd"
        <3>1. Paired(indices, weights) BY <1>4, <2>1, <2>5 DEF InStep, UvmInStep, Paired
        <3> QED BY <1>1, <1>2, <1>5, <1>9, <2>1, <2>2, <2>3, <2>4, <2>5, <3>1 DEF InStep, UvmInStep, Paired
    <2>6. CASE caller = "ssd" BY <1>6, <2>1, <2>6
    <2> QED BY <1>8, <2>1, <2>5, <2>6
<1>e. CASE StreamSync
    <2>1. v = "sync" /\ copier = "none" BY <1>4, <1>e DEF StreamSync, Runs, CanSync, Joined
    <2>2. UNCHANGED <<missed, found, indices, weights, flag, queue, copier, copy>>
        BY <1>e DEF StreamSync, buffers
    <2>3. caller = "ssd" BY <1>8, <1>9, <2>1
    <2>4. TypeOK' BY <1>1, <1>2, <2>2 DEF TypeOK
    <2>5. InStep' BY <1>1, <1>6, <2>1, <2>2, <2>3 DEF InStep, SsdInStep, Paired
    <2>6. Copied' /\ Queued' /\ Peeked' BY <1>0, <1>1, <2>2 DEF Copied, Queued, Peeked, Paired
    <2> QED BY <1>2, <2>4, <2>5, <2>6
<1>g. CASE StreamCallback
    <2>1. v = "stream" /\ copier = "none" /\ copier' = "copy"
        BY <1>4, <1>g DEF StreamCallback, Runs, Joined
    <2>2. UNCHANGED <<missed, found, indices, weights, flag, queue, copy>> BY <1>g DEF StreamCallback, buffers
    <2>3. caller = "ssd" BY <1>8, <1>9, <2>1
    <2>4. TypeOK' BY <1>1, <1>2, <2>1, <2>2 DEF TypeOK
    <2>5. Paired(indices, weights) BY <1>4, <2>1, <2>3 DEF InStep, SsdInStep, Paired
    <2>6. InStep' BY <1>1, <1>6, <2>1, <2>2, <2>3, <2>5 DEF InStep, SsdInStep, Paired
    <2>7. Copied' /\ Queued' /\ Peeked' BY <1>0, <1>1, <2>1, <2>2 DEF Copied, Queued, Peeked, Paired
    <2> QED BY <1>2, <2>4, <2>6, <2>7
<1>h. CASE StreamPad
    <2>1. v = "pad" /\ queue' = Append(queue, Item(i, i))
        BY <1>3, <1>4, <1>h DEF StreamPad, Runs
    <2>2. UNCHANGED <<missed, found, indices, weights, flag, copier, copy>> BY <1>h DEF StreamPad, buffers
    <2>3. caller = "ssd" BY <1>5, <1>8, <2>1
    <2>4. Paired(i, i) /\ i \in Int /\ i \in Indices BY SMT DEF Paired, Indices, Live
    <2>5. queue' \in Seq(Items) /\ Queued' /\ Peeked' BY <1>1, <2>1, <2>2, <2>4, QueuedMore DEF Peeked
    <2>6. TypeOK' BY <1>1, <1>2, <2>2, <2>5 DEF TypeOK
    <2>7. Paired(indices, weights) BY <1>4, <2>1, <2>3 DEF InStep, SsdInStep, Paired
    <2>8. InStep' BY <1>1, <1>4, <1>6, <2>1, <2>2, <2>3, <2>7 DEF InStep, SsdInStep, Paired
    <2>9. Copied' BY <2>2 DEF Copied
    <2> QED BY <1>2, <2>5, <2>6, <2>8, <2>9
<1> QED BY <1>a, <1>b, <1>c, <1>d, <1>e, <1>g, <1>h DEF Device

\* The threads, and the destructor.
LEMMA StepThreads ==
    ASSUME Paths, Copier \/ Sender \/ SendThrows \/ Destroy \/ Join
    PROVE  Paths'
<1> USE DEF Paths
<1>1. CASE Poll \/ Reset \/ CopyFirst \/ CopySecond
    <2>1. UNCHANGED <<host, gpu, buffers, queue, sender>> BY <1>1 DEF Poll, Reset, CopyFirst, CopySecond
    <2>2. InOrder' /\ Queued' /\ Peeked'
        BY <2>1 DEF InOrder, LastWork, WorksOf, Follows, Queued, Peeked, Paired, host, buffers
    <2>3. TypeOK'
        BY <1>1, <2>1 DEF Poll, Reset, AfterReset, CopyFirst, CopySecond, TypeOK, Items, Item, host, buffers
    <2>4. InStep'
        <3>1. CASE caller # "ssd"
            BY <1>1, <2>1, <3>1
            DEF Poll, Reset, AfterReset, CopyFirst, CopySecond, InStep, UvmInStep, Paired, TypeOK, host, buffers
        <3>2. CASE caller = "ssd"
            BY <1>1, <2>1, <3>2
            DEF Poll, Reset, CopyFirst, CopySecond, InStep, SsdInStep, Paired, TypeOK, host, buffers
        <3> QED BY <3>1, <3>2 DEF TypeOK
    <2>5. Copied'
        BY <1>1, <2>1 DEF Poll, Reset, CopyFirst, CopySecond, Copied, Item, buffers
    <2> QED BY <2>2, <2>3, <2>4, <2>5
<1>2. CASE Enqueue
    <2>1. /\ UNCHANGED <<host, gpu, buffers, flag, copy, sender>> /\ queue' = Append(queue, copy)
          /\ copier = "enqueue" /\ copier' = "none"
        BY <1>2 DEF Enqueue
    <2>2. Paired(indices, weights) BY <2>1 DEF InStep, UvmInStep, SsdInStep, TypeOK
    <2>3. copy = Item(indices, weights) BY <2>1 DEF Copied, TypeOK, Items, Item
    <2>4. queue' \in Seq(Items) /\ Queued' /\ Peeked' BY <2>1, <2>2, <2>3, QueuedMore DEF TypeOK, Peeked, host, buffers
    <2>5. TypeOK' BY <2>1, <2>4 DEF TypeOK, host, buffers
    <2>6. InOrder' BY <2>1 DEF InOrder, LastWork, WorksOf, Follows, host
    <2>7. InStep' /\ Copied'
        BY <2>1 DEF InStep, UvmInStep, SsdInStep, Copied, Paired, host, buffers
    <2> QED BY <2>4, <2>5, <2>6, <2>7
<1>3. CASE Sender \/ SendThrows \/ Destroy \/ Join
    <2>1. UNCHANGED <<host, gpu, buffers, flag, copier, copy>>
        BY <1>3 DEF Sender, Peek, CheckStop, ReadLive, Send, SendThrows, Destroy, Join, threads
    <2>2. queue' \in Seq(Items) /\ Queued' /\ Peeked'
        <3>1. CASE Send
            <4>1. queue' = Tail(queue) /\ queue # <<>> /\ sender' = "loop" BY <3>1 DEF Send, Peeked
            <4> QED BY <2>1, <4>1, QueuedLess DEF Peeked, host, buffers
        <3>3. CASE ReadLive
            <4>1. queue # <<>> /\ 1 \in 1..Len(queue) /\ queue[1].index = Live
                BY <3>3, HeadTail, LenProperties, SMT DEF ReadLive, Peeked, TypeOK
            <4>2. queue[1] \in Items BY <4>1, ElementOfSeq DEF TypeOK
            <4> QED BY <4>1, <4>2 DEF Items, Indices
        <3>2. CASE Peek \/ CheckStop \/ SendThrows \/ Destroy \/ Join
            <4>1. queue' = queue BY <3>2 DEF Peek, CheckStop, SendThrows, Destroy, Join
            <4>2. Peeked' BY <3>2, <4>1 DEF Peek, CheckStop, SendThrows, Destroy, Join, Peeked
            <4> QED BY <4>1, <2>1, <4>2 DEF TypeOK, Queued, Paired, host, buffers
        <3> QED BY <1>3, <3>1, <3>2, <3>3 DEF Sender
    <2>3. TypeOK' BY <2>1, <2>2 DEF TypeOK, host, buffers
    <2>4. InOrder' BY <2>1 DEF InOrder, LastWork, WorksOf, Follows, host
    <2>5. InStep' /\ Copied'
        BY <2>1 DEF InStep, UvmInStep, SsdInStep, Copied, Paired, host, buffers
    <2> QED BY <2>2, <2>3, <2>4, <2>5
<1> QED BY <1>1, <1>2, <1>3 DEF Copier

-----------------------------------------------------------------------------
(* Unless a poll has timed out, an index is only ever queued, and so sent,  *)
(* with the weights of its own iteration.                                   *)
THEOREM UpdatesArePaired == Spec => []PairedUnlessMissed
<1>1. IInv /\ [Next]_vars => IInv'
    <2> SUFFICES ASSUME IInv, [Next]_vars, ~ late', caller' # "uvm_live" PROVE Paths'
        BY DEF IInv
    <2>1. ~ late /\ caller' = caller
        BY DEF Next, vars, host, threads, StreamUvm, StreamSsd, StreamReady, Device, Lookup, Select,
               CopyIndices, FillFlag, StreamSync, StreamCallback, StreamPad, Done, Copier, Poll,
               Reset, CopyFirst, CopySecond, Enqueue, PollTimesOut, Sender, Peek, CheckStop, ReadLive, Send,
               SendThrows, Destroy, Join
    <2>2. Paths BY <2>1 DEF IInv
    <2>3. CASE UNCHANGED vars
        BY <2>2, <2>3
        DEF Paths, TypeOK, InOrder, LastWork, WorksOf, Follows, InStep, UvmInStep, SsdInStep, Copied,
            Queued, Peeked, Paired, vars, host, buffers, threads
    <2>4. CASE StreamUvm \/ StreamSsd \/ StreamReady BY <2>2, <2>4, StepHost
    <2>5. CASE Device BY <2>2, <2>5, StepDevice
    <2>6. CASE Copier \/ Sender \/ SendThrows \/ Destroy \/ Join BY <2>2, <2>6, StepThreads
    <2>7. ~ PollTimesOut BY DEF PollTimesOut
    <2> QED BY <2>3, <2>4, <2>5, <2>6, <2>7 DEF Next
<1>2. IInv => PairedUnlessMissed
    <2> SUFFICES ASSUME Paths, NEW n \in DOMAIN queue
                 PROVE  Paired(queue[n].index, queue[n].weights)
        BY DEF IInv, PairedUnlessMissed, Paired
    <2>1. n \in 1..Len(queue) BY LenProperties DEF Paths, TypeOK
    <2> QED BY <2>1 DEF Paths, Queued
<1> QED BY InitIInv, <1>1, <1>2, PTL DEF Spec
=============================================================================
