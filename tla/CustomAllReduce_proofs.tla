---------------------- MODULE CustomAllReduce_proofs -------------------------
(***************************************************************************)
(* Proofs about CustomAllReduce for any number of ranks, blocks, warps and *)
(* calls of any of the operations, one after another: no buffer is filled  *)
(* while it is summed, and which of the sums are complete.                 *)
(***************************************************************************)
EXTENDS CustomAllReduce, TLAPS

Labels == {"copy", "notify", "wait", "sync1", "reduce", "sync2", "notify2", "wait2", "sync3",
           "gather", "done"}

(* The stretches of a kernel, for a warp: before it may read the other      *)
(* ranks' buffers, while it sums, and afterwards.                           *)
AtStart == {"copy", "notify"}
Early   == {"copy", "notify", "wait", "sync1"}
Mid     == {"reduce", "sync2"}
Told    == {"wait2", "sync3", "gather", "done"}  \* its block has told the others that it has summed
Last    == {"gather", "done"}

TypeOK ==
    /\ calls \in [1..MaxCalls -> Ops]
    /\ flag \in [Ranks -> 0..MaxCalls]
    /\ pc \in [Ranks -> [Threads -> Labels]]
    /\ seen \in [Ranks -> [Blocks -> SUBSET Ranks]]
    /\ barrier \in [Ranks -> [Ranks -> [Blocks \cup {All} -> 0..MaxCalls]]]
    /\ DOMAIN buffer = Ranks /\ \A r \in Ranks : DOMAIN buffer[r] = Cells
    /\ DOMAIN output = Ranks /\ \A r \in Ranks : DOMAIN output[r] = Cells
    /\ overrun \in [Ranks -> SUBSET Cells]

(* Where the warps of a rank may be in an operation. *)
PlacesOf(o, t) ==
    {"sync1", "reduce", "sync2", "done"}
        \cup (IF t = <<0, 0>> THEN {"notify"} ELSE {})
        \cup (IF o \in OneShot THEN {"copy"} ELSE {})
        \cup (IF t[2] = 0 THEN {"wait", "notify2", "wait2"} ELSE {})
        \cup (IF o = "two_shot" THEN {"sync3", "gather"} ELSE {})

PlacesAt(r, t) ==
    IF flag[r] > 0 /\ t \in Grid(op(r)) THEN pc[r][t] \in PlacesOf(op(r), t) ELSE pc[r][t] = "done"

Places == \A r \in Ranks, t \in Threads : PlacesAt(r, t)

(* __syncthreads: the warps of a block are in the same stretch.             *)
SameStretch(r, t, u) ==
    /\ pc[r][t] \in Early => pc[r][u] \in Early
    /\ pc[r][t] \in Mid => pc[r][u] \in Mid
    /\ op(r) = "two_shot" /\ pc[r][t] \in Last => pc[r][u] \in Last

InStep ==
    \A r \in Ranks : flag[r] > 0 =>
        \A t, u \in Grid(op(r)) : t[1] = u[1] => SameStretch(r, t, u)

(* What a flag with the number of its rank's call says.                     *)
PostedBy(r, s) ==
    /\ \A f \in Blocks \cup {All} : barrier[r][s][f] <= flag[s]
    /\ flag[s] > 0 /\ barrier[r][s][All] = flag[s] => pc[s][<<0, 0>>] \notin AtStart
    /\ \A b \in Blocks : flag[s] > 0 /\ barrier[r][s][b] = flag[s] => pc[s][<<b, 0>>] \in Told

Posted == \A r, s \in Ranks : PostedBy(r, s)

(* Rank s has filled its buffer for call k; its block b has summed there.   *)
Filled(s, k)     == flag[s] > k \/ (flag[s] = k /\ pc[s][<<0, 0>>] \notin AtStart)
Reduced(s, b, k) == flag[s] > k \/ (flag[s] = k /\ pc[s][<<b, 0>>] \in Told)

(* What a block knows of the other ranks once its first warp has met them.  *)
KnowsOf(r, b) ==
    LET l == pc[r][<<b, 0>>]
    IN  /\ l \notin {"wait", "wait2"} => seen[r][b] = {}
        /\ flag[r] > 0 /\ <<b, 0>> \in Grid(op(r)) =>
              /\ l \notin AtStart \cup {"wait"} => \A s \in Ranks : Filled(s, flag[r])
              /\ l = "wait" => \A s \in seen[r][b] : Filled(s, flag[r])
              /\ l \in {"sync3"} \cup Last => \A s \in Ranks : Reduced(s, b, flag[r])
              /\ l = "wait2" => \A s \in seen[r][b] : Reduced(s, b, flag[r])

Knows == \A r \in Ranks, b \in Blocks : KnowsOf(r, b)

(* A rank is at most one call ahead of another, which then has summed; what *)
(* that rank has still to gather from the other is overrun.                 *)
AheadOf(r, s) ==
    flag[s] < flag[r] =>
        /\ flag[r] = flag[s] + 1
        /\ \A t \in Threads : pc[s][t] \in Told
        /\ \A t \in Threads : pc[s][t] # "done" => <<r, t>> \in overrun[s]

Ahead == \A r, s \in Ranks : AheadOf(r, s)

(* The rows of a buffer: those of the call, and for a two-shot all-reduce   *)
(* the sums of its own part, warp by warp.                                  *)
Summed(r, t) == pc[r][t] \notin Early \cup {"reduce"}

HasRows(r, c) ==
    c[2] \in Grid(op(r)) /\ pc[r][c[2]] # "copy" =>
        buffer[r][c] = IF op(r) = "two_shot" /\ c[1] = r /\ Summed(r, c[2])
                       THEN Given(flag[r]) ELSE {<<r, flag[r]>>}

Buffers == \A r \in Ranks : flag[r] > 0 => \A c \in Cells : HasRows(r, c)

HasSums(r, t, s) ==
    /\ op(r) = "reduce_scatter" /\ Summed(r, t) => output[r][<<r, t>>] = Given(flag[r])
    /\ op(r) \in OneShot /\ t = <<0, 0>> /\ Summed(r, t) => output[r][<<s, t>>] = Given(flag[r])
    /\ op(r) = "two_shot" /\ pc[r][t] = "done" =>
          output[r][<<s, t>>] = Given(flag[r]) \/ <<s, t>> \in overrun[r]

Outputs ==
    \A r \in Ranks : flag[r] > 0 => \A t \in Grid(op(r)), s \in Ranks : HasSums(r, t, s)

IInv == TypeOK /\ Places /\ InStep /\ Posted /\ Knows /\ Ahead /\ Buffers /\ Outputs

-----------------------------------------------------------------------------
(* The threads of a kernel.                                                 *)
LEMMA ThreadFacts ==
    /\ \A t \in Threads : t[1] \in Blocks /\ t[2] \in Warps /\ t = <<t[1], t[2]>>
    /\ \A b \in Blocks : <<b, 0>> \in Threads
    /\ 0 \in Blocks /\ <<0, 0>> \in Threads
BY CarConstants, SMT DEF Threads

LEMMA GridFacts ==
    ASSUME NEW o
    PROVE  /\ Grid(o) \subseteq Threads /\ <<0, 0>> \in Grid(o)
           /\ \A t \in Grid(o) : <<t[1], 0>> \in Grid(o)
           /\ o # "small_one_shot" => Grid(o) = Threads
           /\ o = "small_one_shot" => \A t \in Grid(o) : t = <<0, 0>>
BY ThreadFacts, SMT DEF Grid

LEMMA OpFacts ==
    ASSUME TypeOK, NEW r \in Ranks, flag[r] > 0
    PROVE  op(r) \in OneShot \cup {"two_shot", "reduce_scatter"}
<1>1. flag[r] \in 1..MaxCalls BY CarConstants, SMT DEF TypeOK
<1>2. calls[flag[r]] \in Ops BY <1>1 DEF TypeOK
<1> QED BY <1>2, CarConstants DEF op

(* What a step of one warp does to where the warps are.                     *)
Moves(r, t, l) ==
    /\ flag' = flag /\ calls' = calls /\ t \in Threads /\ pc[r][t] # "done"
    /\ \A s \in Ranks, u \in Threads : pc'[s][u] = IF s = r /\ u = t THEN l ELSE pc[s][u]

LEMMA GotoMoves ==
    ASSUME TypeOK, NEW r \in Ranks, NEW t \in Threads, NEW l \in Labels, Goto(r, {t}, l),
           flag' = flag, calls' = calls, pc[r][t] # "done"
    PROVE  Moves(r, t, l) /\ pc' \in [Ranks -> [Threads -> Labels]]
<1>1. pc \in [Ranks -> [Threads -> Labels]] BY DEF TypeOK
<1>2. pc' = [pc EXCEPT ![r] = [u \in Threads |-> IF u \in {t} THEN l ELSE pc[r][u]]]
    BY DEF Goto
<1>3. [u \in Threads |-> IF u \in {t} THEN l ELSE pc[r][u]] \in [Threads -> Labels] BY <1>1
<1>4. pc' \in [Ranks -> [Threads -> Labels]] BY <1>1, <1>2, <1>3
<1>5. \A s \in Ranks, u \in Threads : pc'[s][u] = IF s = r /\ u = t THEN l ELSE pc[s][u]
    BY <1>1, <1>2, SMT
<1> QED BY <1>4, <1>5 DEF Moves

LEMMA InitIInv == Init => IInv
<1> SUFFICES ASSUME Init PROVE IInv OBVIOUS
<1>1. \A r \in Ranks : flag[r] = 0 BY DEF Init
<1>2. TypeOK BY CarConstants, SMT DEF Init, TypeOK, Labels
<1>3. Places BY <1>1, ThreadFacts, SMT DEF Init, Places, PlacesAt
<1>4. InStep BY <1>1, SMT DEF InStep
<1>5. Posted BY <1>1, SMT DEF Posted, PostedBy, Init
<1>6. Knows
    <2> SUFFICES ASSUME NEW r \in Ranks, NEW b \in Blocks PROVE KnowsOf(r, b) BY DEF Knows
    <2>1. seen[r][b] = {} BY DEF Init
    <2> QED BY <1>1, <2>1, SMT DEF KnowsOf
<1>7. Ahead BY <1>1, SMT DEF Ahead, AheadOf
<1>8. Buffers /\ Outputs BY <1>1, SMT DEF Buffers, Outputs
<1> QED BY <1>2, <1>3, <1>4, <1>5, <1>6, <1>7, <1>8 DEF IInv

-----------------------------------------------------------------------------
(* What each action does, warp by warp.  The facts used everywhere:         *)
Known == TypeOK /\ Places

\* A warp with something left to do is one of its call's kernel.
LEMMA OnGrid ==
    ASSUME Known, NEW r \in Ranks, NEW t \in Threads, pc[r][t] # "done"
    PROVE  /\ flag[r] > 0 /\ t \in Grid(op(r)) /\ pc[r][t] \in PlacesOf(op(r), t)
           /\ op(r) \in OneShot \cup {"two_shot", "reduce_scatter"}
<1>1. flag[r] > 0 /\ t \in Grid(op(r)) /\ pc[r][t] \in PlacesOf(op(r), t)
    BY SMT DEF Known, Places, PlacesAt
<1> QED BY <1>1, OpFacts DEF Known

LEMMA CopyMoves ==
    ASSUME Known, NEW r \in Ranks, NEW t \in Threads, Copy(r, t)
    PROVE  /\ Moves(r, t, AfterCopy(t)) /\ AfterCopy(t) \in {"notify", "wait", "sync1"}
           /\ op(r) \in OneShot
           /\ TypeOK'
<1>1. pc[r][t] = "copy" /\ flag' = flag /\ calls' = calls BY DEF Copy
<1>2. flag[r] > 0 /\ op(r) \in OneShot
    BY <1>1, OnGrid, SMT DEF PlacesOf
<1>3. PICK l \in Labels : l = AfterCopy(t) /\ l \in {"notify", "wait", "sync1"}
    BY DEF AfterCopy, Labels
<1>4. Moves(r, t, l) /\ pc' \in [Ranks -> [Threads -> Labels]]
    BY <1>1, <1>3, GotoMoves DEF Known, Copy
<1>5. DOMAIN buffer' = Ranks /\ \A s \in Ranks : DOMAIN buffer'[s] = Cells
    BY SMT DEF Known, TypeOK, Copy, Copied
<1> QED BY <1>2, <1>3, <1>4, <1>5 DEF Known, TypeOK, Copy

LEMMA ReleaseType ==
    ASSUME TypeOK, NEW r \in Ranks, NEW f \in Blocks \cup {All}, Release(r, f)
    PROVE  /\ barrier' \in [Ranks -> [Ranks -> [Blocks \cup {All} -> 0..MaxCalls]]]
           /\ \A q, s \in Ranks, g \in Blocks \cup {All} :
                 barrier'[q][s][g] = IF s = r /\ g = f THEN flag[r] ELSE barrier[q][s][g]
<1> DEFINE F == Blocks \cup {All}
<1>1. flag[r] \in 0..MaxCalls BY DEF TypeOK
<1>2. barrier \in [Ranks -> [Ranks -> [F -> 0..MaxCalls]]] BY DEF TypeOK
<1>3. barrier' = [s \in Ranks |-> [barrier[s] EXCEPT ![r][f] = flag[r]]] BY DEF Release
<1> HIDE DEF F
<1>4. \A s \in Ranks : barrier'[s] = [barrier[s] EXCEPT ![r] = [barrier[s][r] EXCEPT ![f] = flag[r]]]
    BY <1>2, <1>3, SMT
<1> DEFINE N == 0..MaxCalls
<1> HIDE DEF N
<1>5. ASSUME NEW s \in Ranks
      PROVE  /\ barrier'[s] \in [Ranks -> [F -> N]]
             /\ \A q \in Ranks, g \in F :
                   barrier'[s][q][g] = IF q = r /\ g = f THEN flag[r] ELSE barrier[s][q][g]
    <2>1. PICK B : B = barrier[s] OBVIOUS
    <2>2. B \in [Ranks -> [F -> N]] BY <1>2, <2>1 DEF N
    <2>3. PICK R : R = B[r] OBVIOUS
    <2>4. R \in [F -> N] BY <2>2, <2>3
    <2>5. f \in F /\ flag[r] \in N BY <1>1 DEF F, N
    <2>6. PICK Q : Q = [R EXCEPT ![f] = flag[r]] OBVIOUS
    <2>7. Q \in [F -> N] /\ \A g \in F : Q[g] = IF g = f THEN flag[r] ELSE R[g]
        BY <2>4, <2>5, <2>6
    <2>8. barrier'[s] = [B EXCEPT ![r] = Q] BY <1>4, <2>1, <2>3, <2>6
    <2> QED BY <2>1, <2>2, <2>3, <2>7, <2>8
<1>6. \A s \in Ranks : barrier'[s] \in [Ranks -> [F -> 0..MaxCalls]] BY <1>5 DEF N
<1>7. barrier' \in [Ranks -> [Ranks -> [F -> 0..MaxCalls]]]
    BY <1>3, <1>6, SMT
<1>8. \A q, s \in Ranks, g \in F :
         barrier'[q][s][g] = IF s = r /\ g = f THEN flag[r] ELSE barrier[q][s][g]
    BY <1>5, SMT
<1> QED BY <1>7, <1>8 DEF F

LEMMA NotifyMoves ==
    ASSUME Known, NEW r \in Ranks, NEW t \in Threads, Notify(r, t)
    PROVE  /\ \/ pc[r][t] = "notify" /\ Moves(r, t, "wait") /\ Release(r, All)
              \/ pc[r][t] = "notify2" /\ Moves(r, t, "wait2") /\ Release(r, t[1])
           /\ TypeOK'
<1>1. flag' = flag /\ calls' = calls BY DEF Notify
<1>2. CASE pc[r][t] = "notify" /\ Release(r, All) /\ Goto(r, {t}, "wait")
    <2>1. Moves(r, t, "wait") /\ pc' \in [Ranks -> [Threads -> Labels]]
        BY <1>1, <1>2, GotoMoves DEF Known, Labels
    <2>2. barrier' \in [Ranks -> [Ranks -> [Blocks \cup {All} -> 0..MaxCalls]]]
        BY <1>2, ReleaseType DEF Known
    <2> QED BY <1>2, <2>1, <2>2 DEF Known, TypeOK, Notify
<1>3. CASE pc[r][t] = "notify2" /\ Release(r, t[1]) /\ Goto(r, {t}, "wait2")
    <2>1. Moves(r, t, "wait2") /\ pc' \in [Ranks -> [Threads -> Labels]]
        BY <1>1, <1>3, GotoMoves DEF Known, Labels
    <2>2. barrier' \in [Ranks -> [Ranks -> [Blocks \cup {All} -> 0..MaxCalls]]]
        BY <1>3, ThreadFacts, ReleaseType DEF Known
    <2> QED BY <1>3, <2>1, <2>2 DEF Known, TypeOK, Notify
<1> QED BY <1>2, <1>3 DEF Notify

LEMMA AcquireType ==
    ASSUME TypeOK, NEW r \in Ranks, NEW t \in Threads, NEW s \in Ranks, Acquire(r, t, s)
    PROVE  /\ TypeOK' /\ flag' = flag /\ calls' = calls /\ pc' = pc
           /\ seen'[r][t[1]] = seen[r][t[1]] \cup {s}
           /\ \A q \in Ranks, b \in Blocks : q # r \/ b # t[1] => seen'[q][b] = seen[q][b]
<1>1. t[1] \in Blocks BY ThreadFacts
<1>2. seen' = [seen EXCEPT ![r][t[1]] = seen[r][t[1]] \cup {s}] BY DEF Acquire
<1>3. seen' \in [Ranks -> [Blocks -> SUBSET Ranks]]
    BY <1>1, <1>2, SMT DEF TypeOK
<1>4. \A q \in Ranks, b \in Blocks :
         seen'[q][b] = IF q = r /\ b = t[1] THEN seen[r][b] \cup {s} ELSE seen[q][b]
    <2>1. PICK x : x = seen[r][t[1]] \cup {s} OBVIOUS
    <2>2. PICK c \in Blocks : c = t[1] BY <1>1
    <2>3. seen' = [seen EXCEPT ![r] = [seen[r] EXCEPT ![c] = x]] BY <1>2, <2>1, <2>2
    <2>4. seen \in [Ranks -> [Blocks -> SUBSET Ranks]] BY DEF TypeOK
    <2>5. \A q \in Ranks, b \in Blocks : seen'[q][b] = IF q = r /\ b = c THEN x ELSE seen[q][b]
        BY <2>3, <2>4
    <2> QED BY <2>1, <2>2, <2>5
<1>5. seen'[r][t[1]] = seen[r][t[1]] \cup {s} BY <1>1, <1>4
<1>6. \A q \in Ranks, b \in Blocks : q # r \/ b # t[1] => seen'[q][b] = seen[q][b] BY <1>4
<1>7. TypeOK' BY <1>3 DEF TypeOK, Acquire
<1> QED BY <1>5, <1>6, <1>7 DEF Acquire

AfterWait(r, l) == IF l = "wait" THEN "sync1" ELSE IF op(r) = "two_shot" THEN "sync3" ELSE "done"

LEMMA AcquiredMoves ==
    ASSUME Known, NEW r \in Ranks, NEW t \in Threads, Acquired(r, t)
    PROVE  /\ Moves(r, t, AfterWait(r, pc[r][t])) /\ TypeOK'
           /\ pc[r][t] \in {"wait", "wait2"} /\ seen[r][t[1]] = Ranks
           /\ \A q \in Ranks, b \in Blocks :
                 seen'[q][b] = IF q = r /\ b = t[1] THEN {} ELSE seen[q][b]
<1>1. t[1] \in Blocks BY ThreadFacts
<1>2. seen' = [seen EXCEPT ![r][t[1]] = {}] BY DEF Acquired
<1>3. seen' \in [Ranks -> [Blocks -> SUBSET Ranks]]
    BY <1>1, <1>2, SMT DEF Known, TypeOK
<1>4. \A q \in Ranks, b \in Blocks : seen'[q][b] = IF q = r /\ b = t[1] THEN {} ELSE seen[q][b]
    BY <1>1, <1>2, SMT DEF Known, TypeOK
<1>5. PICK l \in Labels : l = AfterWait(r, pc[r][t]) BY DEF AfterWait, Labels
<1>6. Goto(r, {t}, l) BY <1>5 DEF Acquired, AfterWait, Goto
<1>7. Moves(r, t, l) /\ pc' \in [Ranks -> [Threads -> Labels]]
    BY <1>6, GotoMoves DEF Known, Acquired
<1>8. Moves(r, t, AfterWait(r, pc[r][t])) BY <1>5, <1>7 DEF Moves
<1>9. TypeOK' BY <1>3, <1>7 DEF Known, TypeOK, Acquired
<1> QED BY <1>4, <1>8, <1>9 DEF Acquired

(* __syncthreads: the warps of block b of rank r go on from l.              *)
AfterSync(r, u, l) ==
    IF l = "sync1" THEN "reduce"
    ELSE IF l = "sync3" THEN "gather"
    ELSE IF u[2] = 0 THEN "notify2"
    ELSE IF op(r) = "two_shot" THEN "sync3" ELSE "done"

Syncs(r, b, l) ==
    /\ flag' = flag /\ calls' = calls /\ flag[r] > 0
    /\ \A u \in Grid(op(r)) : u[1] = b => pc[r][u] = l
    /\ \A s \in Ranks, u \in Threads :
          pc'[s][u] = IF s = r /\ u \in Grid(op(r)) /\ u[1] = b THEN AfterSync(r, u, l) ELSE pc[s][u]

LEMMA SyncMoves ==
    ASSUME Known, NEW r \in Ranks, NEW b \in Blocks, Syncthreads(r, b)
    PROVE  /\ \E l \in {"sync1", "sync2", "sync3"} : Syncs(r, b, l)
           /\ TypeOK' /\ <<b, 0>> \in Grid(op(r))
<1> DEFINE T == {t \in Grid(op(r)) : t[1] = b}
           rest == IF op(r) = "two_shot" THEN "sync3" ELSE "done"
<1>1. flag' = flag /\ calls' = calls /\ flag[r] > 0 /\ T # {} BY DEF Syncthreads
<1>2. <<b, 0>> \in Grid(op(r)) BY <1>1, GridFacts
<1>3. pc \in [Ranks -> [Threads -> Labels]] BY DEF Known, TypeOK
<1>4. PICK l \in {"sync1", "sync2", "sync3"} :
         /\ \A t \in T : pc[r][t] = l
         /\ pc' = [pc EXCEPT ![r] = [t \in Threads |->
                      IF t \in T THEN AfterSync(r, t, l) ELSE pc[r][t]]]
    <2>1. CASE (\A t \in T : pc[r][t] = "sync1") /\ Goto(r, T, "reduce")
        BY <2>1 DEF Goto, AfterSync
    <2>2. CASE (\A t \in T : pc[r][t] = "sync3") /\ Goto(r, T, "gather")
        BY <2>2 DEF Goto, AfterSync
    <2>3. CASE /\ \A t \in T : pc[r][t] = "sync2"
               /\ pc' = [pc EXCEPT ![r] = [t \in Threads |->
                            IF t \in T THEN AfterReduce(t, rest) ELSE pc[r][t]]]
        BY <2>3 DEF AfterReduce, AfterSync
    <2> QED BY <2>1, <2>2, <2>3 DEF Syncthreads
<1>5. \A u : AfterSync(r, u, l) \in Labels BY DEF AfterSync, Labels
<1>6. [t \in Threads |-> IF t \in T THEN AfterSync(r, t, l) ELSE pc[r][t]] \in [Threads -> Labels]
    BY <1>3, <1>5
<1>7. pc' \in [Ranks -> [Threads -> Labels]] BY <1>3, <1>4, <1>6
<1>8. \A s \in Ranks, u \in Threads :
         pc'[s][u] = IF s = r /\ u \in T THEN AfterSync(r, u, l) ELSE pc[s][u]
    BY <1>3, <1>4
<1>9. Syncs(r, b, l) BY <1>1, <1>4, <1>8 DEF Syncs
<1>10. TypeOK' BY <1>7 DEF Known, TypeOK, Syncthreads
<1> QED BY <1>2, <1>9, <1>10

LEMMA ReduceMoves ==
    ASSUME Known, NEW r \in Ranks, NEW t \in Threads, Reduce(r, t)
    PROVE  Moves(r, t, "sync2") /\ pc[r][t] = "reduce" /\ TypeOK'
<1>1. Goto(r, {t}, "sync2") /\ pc[r][t] = "reduce" /\ flag' = flag /\ calls' = calls BY DEF Reduce
<1>2. Moves(r, t, "sync2") /\ pc' \in [Ranks -> [Threads -> Labels]]
    BY <1>1, GotoMoves DEF Known, Labels
<1>3. CASE op(r) = "two_shot"
    <2>1. PICK x : buffer' = [buffer EXCEPT ![r][<<r, t>>] = x] BY <1>3 DEF Reduce
    <2>2. DOMAIN buffer' = Ranks /\ \A s \in Ranks : DOMAIN buffer'[s] = Cells
        BY <2>1 DEF Known, TypeOK
    <2> QED BY <1>1, <1>2, <1>3, <2>2 DEF Known, TypeOK, Reduce
<1>4. CASE op(r) # "two_shot"
    <2>1. PICK f : output' = [output EXCEPT ![r] = f] /\ DOMAIN f = Cells BY <1>4 DEF Reduce
    <2>2. DOMAIN output' = Ranks /\ \A s \in Ranks : DOMAIN output'[s] = Cells
        BY <2>1 DEF Known, TypeOK
    <2> QED BY <1>1, <1>2, <1>4, <2>2 DEF Known, TypeOK, Reduce
<1> QED BY <1>3, <1>4

LEMMA GatherMoves ==
    ASSUME Known, NEW r \in Ranks, NEW t \in Threads, Gather(r, t)
    PROVE  Moves(r, t, "done") /\ pc[r][t] = "gather" /\ TypeOK'
<1>1. Goto(r, {t}, "done") /\ pc[r][t] = "gather" /\ flag' = flag /\ calls' = calls BY DEF Gather
<1>2. Moves(r, t, "done") /\ pc' \in [Ranks -> [Threads -> Labels]]
    BY <1>1, GotoMoves DEF Known, Labels
<1> DEFINE f == [c \in Cells |-> IF c[2] = t THEN buffer[c[1]][c] ELSE output[r][c]]
<1>3. output' = [output EXCEPT ![r] = f] /\ DOMAIN f = Cells BY DEF Gather
<1>4. DOMAIN output' = Ranks /\ \A s \in Ranks : DOMAIN output'[s] = Cells
    BY <1>3 DEF Known, TypeOK
<1> QED BY <1>1, <1>2, <1>4 DEF Known, TypeOK, Gather

(* A call: the rank's warps start anew, and its buffer is filled.           *)
LEMMA CallMoves ==
    ASSUME Known, NEW r \in Ranks, Call(r)
    PROVE  LET o == calls[flag[r] + 1] IN
           /\ TypeOK' /\ Finished(r) /\ calls' = calls /\ op(r)' = o
           /\ flag'[r] = flag[r] + 1 /\ \A s \in Ranks : s # r => flag'[s] = flag[s]
           /\ \A s \in Ranks : s # r => pc'[s] = pc[s]
           /\ \A t \in Threads : pc'[r][t] = IF t \notin Grid(o) THEN "done"
                                             ELSE IF o \in OneShot THEN "copy" ELSE AfterCopy(t)
           /\ o \in OneShot \cup {"two_shot", "reduce_scatter"}
           /\ \A s \in Ranks : s # r => overrun[s] \subseteq overrun'[s]
           /\ \A s \in Ranks, t \in Threads :
                 s # r /\ flag[s] = flag[r] /\ pc[s][t] # "done" => <<r, t>> \in overrun'[s]
<1> DEFINE o == calls[flag[r] + 1]
           f == [t \in Threads |-> IF t \notin Grid(o) THEN "done"
                                   ELSE IF o \in OneShot THEN "copy" ELSE AfterCopy(t)]
<1>1. flag \in [Ranks -> 0..MaxCalls] /\ flag[r] < MaxCalls BY DEF Call, Known, TypeOK
<1>2. flag' = [flag EXCEPT ![r] = flag[r] + 1] BY DEF Call
<1>3. flag'[r] = flag[r] + 1 /\ \A s \in Ranks : s # r => flag'[s] = flag[s] BY <1>1, <1>2
<1>4. flag[r] + 1 \in 1..MaxCalls BY <1>1, CarConstants, SMT
<1>5. flag' \in [Ranks -> 0..MaxCalls] BY <1>1, <1>2, <1>4, SMT
<1>6. o \in Ops BY <1>4 DEF Known, TypeOK
<1>7. o \in OneShot \cup {"two_shot", "reduce_scatter"} BY <1>6, CarConstants
<1>8. pc' = [pc EXCEPT ![r] = f] BY DEF Call
<1>9. \A t \in Threads : f[t] = IF t \notin Grid(o) THEN "done"
                                ELSE IF o \in OneShot THEN "copy" ELSE AfterCopy(t)
    OBVIOUS
<1>10. f \in [Threads -> Labels] BY DEF Labels, AfterCopy
<1> HIDE DEF f
<1>11. pc \in [Ranks -> [Threads -> Labels]] BY DEF Known, TypeOK
<1>12. pc'[r] = f /\ \A s \in Ranks : s # r => pc'[s] = pc[s] BY <1>8, <1>11
<1>13. pc' \in [Ranks -> [Threads -> Labels]] BY <1>8, <1>10, <1>11
<1>14. DOMAIN buffer' = Ranks /\ \A s \in Ranks : DOMAIN buffer'[s] = Cells
    BY SMT DEF Known, TypeOK, Call, Copied
<1>17. /\ overrun' \in [Ranks -> SUBSET Cells]
       /\ \A s \in Ranks : s # r => overrun'[s] = overrun[s] \cup
             {c \in Cells : c[1] = r /\ flag[s] = flag[r] /\ pc[s][c[2]] # "done"}
    BY SMT DEF Known, TypeOK, Call
<1>18. ASSUME NEW s \in Ranks, NEW t \in Threads, s # r, flag[s] = flag[r], pc[s][t] # "done"
       PROVE  <<r, t>> \in overrun'[s]
    <2>1. <<r, t>> \in Cells BY DEF Cells
    <2> QED BY <1>17, <1>18, <2>1
<1>15. TypeOK' BY <1>5, <1>13, <1>14, <1>17 DEF Known, TypeOK, Call
<1>16. op(r)' = o BY <1>3 DEF Call, op
<1> QED BY <1>3, <1>7, <1>9, <1>12, <1>15, <1>16, <1>17, <1>18 DEF Call

(* Taken together: a step is a call, a warp that goes on, a block that      *)
(* does, or none of these.                                                  *)
Leads(r, t, m, l) ==
    \/ m = "copy" /\ l = AfterCopy(t)
    \/ m = "notify" /\ l = "wait"
    \/ m = "notify2" /\ l = "wait2"
    \/ m \in {"wait", "wait2"} /\ l = AfterWait(r, m)
    \/ m = "reduce" /\ l = "sync2"
    \/ m = "gather" /\ l = "done"

Hop(r, t) == \E l \in Labels : Moves(r, t, l) /\ Leads(r, t, pc[r][t], l)

Rests == flag' = flag /\ calls' = calls /\ pc' = pc

LEMMA Shapes ==
    ASSUME Known, [Next]_vars
    PROVE  /\ TypeOK'
           /\ \/ Rests
              \/ \E r \in Ranks : \/ Call(r)
                                  \/ \E t \in Threads : Hop(r, t)
                                  \/ \E b \in Blocks, l \in {"sync1", "sync2", "sync3"} : Syncs(r, b, l)
<1>1. CASE UNCHANGED vars BY <1>1 DEF vars, Rests, TypeOK, Known
<1>2. ASSUME NEW r \in Ranks, Call(r) PROVE TypeOK' BY <1>2, CallMoves
<1>3. ASSUME NEW r \in Ranks, NEW t \in Threads, Copy(r, t) PROVE TypeOK' /\ Hop(r, t)
    BY <1>3, CopyMoves DEF Hop, Leads, AfterCopy, Labels, Copy
<1>4. ASSUME NEW r \in Ranks, NEW t \in Threads, Notify(r, t) PROVE TypeOK' /\ Hop(r, t)
    BY <1>4, NotifyMoves DEF Hop, Leads, Labels
<1>5. ASSUME NEW r \in Ranks, NEW t \in Threads, Acquired(r, t) PROVE TypeOK' /\ Hop(r, t)
    <2>1. AfterWait(r, pc[r][t]) \in Labels BY DEF AfterWait, Labels
    <2> QED BY <1>5, <2>1, AcquiredMoves DEF Hop, Leads
<1>6. ASSUME NEW r \in Ranks, NEW t \in Threads, Reduce(r, t) PROVE TypeOK' /\ Hop(r, t)
    BY <1>6, ReduceMoves DEF Hop, Leads, Labels
<1>7. ASSUME NEW r \in Ranks, NEW t \in Threads, Gather(r, t) PROVE TypeOK' /\ Hop(r, t)
    BY <1>7, GatherMoves DEF Hop, Leads, Labels
<1>8. ASSUME NEW r \in Ranks, NEW t \in Threads, NEW s \in Ranks, Acquire(r, t, s)
      PROVE  TypeOK' /\ Rests
    BY <1>8, AcquireType DEF Known, Rests
<1>9. ASSUME NEW r \in Ranks, NEW b \in Blocks, Syncthreads(r, b)
      PROVE  TypeOK' /\ \E l \in {"sync1", "sync2", "sync3"} : Syncs(r, b, l)
    BY <1>9, SyncMoves
<1> QED BY <1>1, <1>2, <1>3, <1>4, <1>5, <1>6, <1>7, <1>8, <1>9 DEF Next, Step

LEMMA StepPlaces ==
    ASSUME Known, [Next]_vars
    PROVE  Places'
<1> SUFFICES ASSUME NEW s \in Ranks, NEW u \in Threads PROVE PlacesAt(s, u)' BY DEF Places
<1>0. PlacesAt(s, u) BY DEF Known, Places
<1>1. CASE Rests BY <1>0, <1>1 DEF Rests, PlacesAt, op
<1>2. ASSUME NEW r \in Ranks, Call(r) PROVE PlacesAt(s, u)'
    <2>1. CASE s = r
        <3>1. flag[r] \in Nat BY DEF Known, TypeOK
        <3>2. flag'[r] > 0 BY <1>2, <3>1, CallMoves, SMT
        <3>3. PICK o : o = op(r)' OBVIOUS
        <3>4. pc'[r][u] = IF u \notin Grid(o) THEN "done"
                          ELSE IF o \in OneShot THEN "copy" ELSE AfterCopy(u)
            BY <1>2, <3>3, CallMoves
        <3>5. u \in Grid(o) => pc'[r][u] \in PlacesOf(o, u)
            BY <3>4 DEF PlacesOf, AfterCopy
        <3> QED BY <2>1, <3>2, <3>3, <3>4, <3>5 DEF PlacesAt
    <2>2. CASE s # r
        <3>1. flag'[s] = flag[s] /\ calls' = calls /\ pc'[s] = pc[s] BY <1>2, <2>2, CallMoves
        <3> QED BY <1>0, <3>1 DEF PlacesAt, op
    <2> QED BY <2>1, <2>2
<1>3. ASSUME NEW r \in Ranks, NEW t \in Threads, Hop(r, t) PROVE PlacesAt(s, u)'
    <2>1. PICK l \in Labels : Moves(r, t, l) /\ Leads(r, t, pc[r][t], l) BY <1>3 DEF Hop
    <2>2. flag' = flag /\ op(s)' = op(s) BY <2>1 DEF Moves, op
    <2>3. CASE s = r /\ u = t
        <3>1. flag[r] > 0 /\ t \in Grid(op(r)) /\ pc[r][t] \in PlacesOf(op(r), t)
            BY <2>1, OnGrid DEF Moves
        <3>2. l \in PlacesOf(op(r), t) BY <2>1, <3>1, GridFacts DEF Leads, PlacesOf, AfterCopy, AfterWait
        <3> QED BY <2>1, <2>2, <2>3, <3>1, <3>2 DEF Moves, PlacesAt
    <2>4. CASE ~(s = r /\ u = t)
        <3>1. pc'[s][u] = pc[s][u] BY <2>1, <2>4 DEF Moves
        <3> QED BY <1>0, <2>2, <3>1 DEF PlacesAt
    <2> QED BY <2>3, <2>4
<1>4. ASSUME NEW r \in Ranks, NEW b \in Blocks, NEW l \in {"sync1", "sync2", "sync3"},
             Syncs(r, b, l)
      PROVE  PlacesAt(s, u)'
    <2>1. flag' = flag /\ op(s)' = op(s) BY <1>4 DEF Syncs, op
    <2>2. CASE s = r /\ u \in Grid(op(r)) /\ u[1] = b
        <3>1. flag[r] > 0 /\ pc[r][u] = l /\ pc'[r][u] = AfterSync(r, u, l) BY <1>4, <2>2 DEF Syncs
        <3>2. pc[r][u] \in PlacesOf(op(r), u) BY <1>0, <2>2, <3>1 DEF PlacesAt
        <3>3. AfterSync(r, u, l) \in PlacesOf(op(r), u)
            BY <3>1, <3>2, GridFacts DEF AfterSync, PlacesOf
        <3> QED BY <2>1, <2>2, <3>1, <3>3 DEF PlacesAt
    <2>3. CASE ~(s = r /\ u \in Grid(op(r)) /\ u[1] = b)
        <3>1. pc'[s][u] = pc[s][u] BY <1>4, <2>3 DEF Syncs
        <3> QED BY <1>0, <2>1, <3>1 DEF PlacesAt
    <2> QED BY <2>2, <2>3
<1> QED BY <1>1, <1>2, <1>3, <1>4, Shapes

LEMMA StepInStep ==
    ASSUME Known, InStep, [Next]_vars
    PROVE  InStep'
<1> SUFFICES ASSUME NEW s \in Ranks, flag'[s] > 0, NEW t \in Grid(op(s)'), NEW u \in Grid(op(s)'),
                    t[1] = u[1]
             PROVE  SameStretch(s, t, u)'
    BY DEF InStep, Grid, Threads
<1> USE DEF SameStretch
<1>0. t \in Threads /\ u \in Threads BY GridFacts
<1>1. CASE Rests BY <1>1 DEF Rests, InStep, op
<1>2. ASSUME NEW r \in Ranks, Call(r) PROVE SameStretch(s, t, u)'
    <2>1. CASE s = r
        <3>1. PICK o : o = op(r)' OBVIOUS
        <3>2. \A x \in Grid(o) : pc'[r][x] \in Early
            BY <1>2, <3>1, GridFacts, CallMoves DEF Early, AfterCopy
        <3>3. pc'[s][t] \in Early /\ pc'[s][u] \in Early BY <2>1, <3>1, <3>2
        <3> QED BY <3>3 DEF Early, Mid, Last
    <2>2. CASE s # r
        <3>1. flag'[s] = flag[s] /\ calls' = calls /\ pc'[s] = pc[s] BY <1>2, <2>2, CallMoves
        <3> QED BY <3>1 DEF InStep, op
    <2> QED BY <2>1, <2>2
<1>3. ASSUME NEW r \in Ranks, NEW x \in Threads, Hop(r, x) PROVE SameStretch(s, t, u)'
    <2>1. PICK l \in Labels : Moves(r, x, l) /\ Leads(r, x, pc[r][x], l) BY <1>3 DEF Hop
    <2>2. flag' = flag /\ op(s)' = op(s) BY <2>1 DEF Moves, op
    <2>3. SameStretch(s, t, u) BY <2>2 DEF InStep
    <2>4. ASSUME NEW y \in Threads
          PROVE  /\ pc'[s][y] \in Early <=> pc[s][y] \in Early
                 /\ pc'[s][y] \in Mid <=> pc[s][y] \in Mid
                 /\ op(s) = "two_shot" => (pc'[s][y] \in Last <=> pc[s][y] \in Last)
        <3>1. CASE s = r /\ y = x
            BY <2>1, <3>1 DEF Moves, Leads, AfterCopy, AfterWait, Early, Mid, Last
        <3>2. CASE ~(s = r /\ y = x)
            <4>1. pc'[s][y] = pc[s][y] BY <2>1, <3>2 DEF Moves
            <4> QED BY <4>1
        <3> QED BY <3>1, <3>2
    <2> QED BY <1>0, <2>2, <2>3, <2>4
<1>4. ASSUME NEW r \in Ranks, NEW b \in Blocks, NEW l \in {"sync1", "sync2", "sync3"},
             Syncs(r, b, l)
      PROVE  SameStretch(s, t, u)'
    <2>1. flag' = flag /\ op(s)' = op(s) BY <1>4 DEF Syncs, op
    <2>2. SameStretch(s, t, u) BY <2>1 DEF InStep
    <2>3. CASE s = r /\ t[1] = b
        <3>1. pc'[s][t] = AfterSync(r, t, l) /\ pc'[s][u] = AfterSync(r, u, l)
            BY <1>0, <1>4, <2>1, <2>3 DEF Syncs
        <3> QED BY <2>1, <2>3, <3>1 DEF AfterSync, Early, Mid, Last
    <2>4. CASE ~(s = r /\ t[1] = b)
        <3>1. pc'[s][t] = pc[s][t] /\ pc'[s][u] = pc[s][u] BY <1>0, <1>4, <2>4 DEF Syncs
        <3> QED BY <2>1, <2>2, <3>1
    <2> QED BY <2>3, <2>4
<1> QED BY <1>1, <1>2, <1>3, <1>4, Shapes

(* What a rank has filled or summed for a call stays so.                    *)
LEMMA KnowledgeStays ==
    ASSUME Known, [Next]_vars, NEW s \in Ranks, NEW k \in Nat
    PROVE  /\ Filled(s, k) => Filled(s, k)'
           /\ \A b \in Blocks : Reduced(s, b, k) => Reduced(s, b, k)'
           /\ flag[s] <= flag'[s]
<1> DEFINE Goal == /\ Filled(s, k) => Filled(s, k)'
                   /\ \A b \in Blocks : Reduced(s, b, k) => Reduced(s, b, k)'
                   /\ flag[s] <= flag'[s]
<1>0. flag[s] \in Nat /\ flag'[s] \in Nat
    <2>1. TypeOK' BY Shapes
    <2> QED BY <2>1 DEF Known, TypeOK
<1>1. CASE Rests BY <1>0, <1>1 DEF Rests, Filled, Reduced
<1>2. ASSUME NEW r \in Ranks, Call(r) PROVE Goal
    <2>1. CASE s = r
        <3>1. flag'[s] = flag[s] + 1 BY <1>2, <2>1, CallMoves
        <3> QED BY <1>0, <3>1, SMT DEF Filled, Reduced
    <2>2. CASE s # r
        <3>1. flag'[s] = flag[s] /\ pc'[s] = pc[s] BY <1>2, <2>2, CallMoves
        <3> QED BY <1>0, <3>1 DEF Filled, Reduced
    <2> QED BY <2>1, <2>2
<1>3. ASSUME NEW r \in Ranks, NEW x \in Threads, Hop(r, x) PROVE Goal
    <2>1. PICK l \in Labels : Moves(r, x, l) /\ Leads(r, x, pc[r][x], l) BY <1>3 DEF Hop
    <2>2. flag' = flag BY <2>1 DEF Moves
    <2>3. ASSUME NEW y \in Threads
          PROVE  /\ pc[s][y] \notin AtStart => pc'[s][y] \notin AtStart
                 /\ pc[s][y] \in Told => pc'[s][y] \in Told
        <3>1. CASE s = r /\ y = x
            BY <2>1, <3>1 DEF Moves, Leads, AfterCopy, AfterWait, AtStart, Told
        <3>2. CASE ~(s = r /\ y = x)
            <4>1. pc'[s][y] = pc[s][y] BY <2>1, <3>2 DEF Moves
            <4> QED BY <4>1
        <3> QED BY <3>1, <3>2
    <2> QED BY <1>0, <2>2, <2>3, ThreadFacts DEF Filled, Reduced
<1>4. ASSUME NEW r \in Ranks, NEW b \in Blocks, NEW l \in {"sync1", "sync2", "sync3"},
             Syncs(r, b, l)
      PROVE  Goal
    <2>1. flag' = flag BY <1>4 DEF Syncs
    <2>2. ASSUME NEW y \in Threads
          PROVE  /\ pc[s][y] \notin AtStart => pc'[s][y] \notin AtStart
                 /\ pc[s][y] \in Told => pc'[s][y] \in Told
        <3>1. CASE s = r /\ y \in Grid(op(r)) /\ y[1] = b
            <4>1. pc[s][y] = l /\ pc'[s][y] = AfterSync(r, y, l) BY <1>4, <3>1 DEF Syncs
            <4> QED BY <4>1 DEF AfterSync, AtStart, Told
        <3>2. CASE ~(s = r /\ y \in Grid(op(r)) /\ y[1] = b)
            <4>1. pc'[s][y] = pc[s][y] BY <1>4, <3>2 DEF Syncs
            <4> QED BY <4>1
        <3> QED BY <3>1, <3>2
    <2> QED BY <1>0, <2>1, <2>2, ThreadFacts DEF Filled, Reduced
<1> QED BY <1>1, <1>2, <1>3, <1>4, Shapes

LEMMA FlagsAreNat ==
    ASSUME TypeOK
    PROVE  /\ \A r \in Ranks : flag[r] \in Nat
           /\ \A r, s \in Ranks, f \in Blocks \cup {All} : barrier[r][s][f] \in Nat
BY SMT DEF TypeOK

LEMMA StepPosted ==
    ASSUME Known, Posted, [Next]_vars
    PROVE  Posted'
<1> SUFFICES ASSUME NEW r \in Ranks, NEW s \in Ranks PROVE PostedBy(r, s)'
    BY DEF Posted
<1>0. PostedBy(r, s) BY DEF Posted
<1>1. TypeOK' /\ flag'[s] \in Nat /\ flag[s] \in Nat
    <2>1. TypeOK' BY Shapes
    <2>2. flag'[s] \in Nat BY <2>1 DEF TypeOK
    <2> QED BY <2>1, <2>2, FlagsAreNat DEF Known
<1>2. \A f \in Blocks \cup {All} : barrier[r][s][f] \in Nat BY FlagsAreNat DEF Known
<1>3. PICK k \in Nat : k = flag[s] BY <1>1
<1>4. /\ Filled(s, k) => Filled(s, k)'
      /\ \A b \in Blocks : Reduced(s, b, k) => Reduced(s, b, k)'
      /\ k <= flag'[s]
    BY <1>3, KnowledgeStays
<1>5. CASE barrier' = barrier
    <2>1. \A f \in Blocks \cup {All} : barrier'[r][s][f] <= flag'[s]
        BY <1>0, <1>1, <1>2, <1>3, <1>4, <1>5, SMT DEF PostedBy
    <2>2. ASSUME flag'[s] > 0, barrier'[r][s][All] = flag'[s] PROVE pc'[s][<<0, 0>>] \notin AtStart
        <3>1. barrier[r][s][All] <= k BY <1>0, <1>3 DEF PostedBy
        <3>2. flag'[s] = k BY <1>1, <1>2, <1>3, <1>4, <1>5, <2>2, <3>1, SMT
        <3>3. Filled(s, k) BY <1>0, <1>3, <1>5, <2>2, <3>2 DEF PostedBy, Filled
        <3> QED BY <1>1, <1>4, <3>2, <3>3, SMT DEF Filled
    <2>3. ASSUME NEW b \in Blocks, flag'[s] > 0, barrier'[r][s][b] = flag'[s]
          PROVE  pc'[s][<<b, 0>>] \in Told
        <3>1. barrier[r][s][b] <= k BY <1>0, <1>3 DEF PostedBy
        <3>2. flag'[s] = k BY <1>1, <1>2, <1>3, <1>4, <1>5, <2>3, <3>1, SMT
        <3>3. Reduced(s, b, k) BY <1>0, <1>3, <1>5, <2>3, <3>2 DEF PostedBy, Reduced
        <3> QED BY <1>1, <1>4, <3>2, <3>3, SMT DEF Reduced
    <2> QED BY <2>1, <2>2, <2>3 DEF PostedBy
<1>6. ASSUME NEW x \in Ranks, NEW t \in Threads, NEW f \in Blocks \cup {All},
             Release(x, f), flag' = flag,
             x = s => \/ f = All /\ pc'[s][<<0, 0>>] \notin AtStart
                      \/ f # All /\ pc'[s][<<f, 0>>] \in Told
      PROVE  PostedBy(r, s)'
    <2>1. \A g \in Blocks \cup {All} :
             barrier'[r][s][g] = IF s = x /\ g = f THEN flag[x] ELSE barrier[r][s][g]
        BY <1>6, ReleaseType DEF Known
    <2>2. \A g \in Blocks \cup {All} : barrier'[r][s][g] <= flag'[s]
        BY <1>0, <1>1, <1>6, <2>1, SMT DEF PostedBy
    <2>3. Filled(s, k) => pc'[s][<<0, 0>>] \notin AtStart
        BY <1>1, <1>3, <1>4, <1>6, SMT DEF Filled
    <2>4. \A b \in Blocks : Reduced(s, b, k) => pc'[s][<<b, 0>>] \in Told
        BY <1>1, <1>3, <1>4, <1>6, SMT DEF Reduced
    <2>5. flag'[s] > 0 /\ barrier'[r][s][All] = flag'[s] => pc'[s][<<0, 0>>] \notin AtStart
        BY <1>0, <1>3, <1>6, <2>1, <2>3 DEF PostedBy, Filled
    <2>6. ASSUME NEW b \in Blocks, flag'[s] > 0, barrier'[r][s][b] = flag'[s]
          PROVE  pc'[s][<<b, 0>>] \in Told
        <3>1. b # All BY CarConstants, SMT DEF All
        <3> QED BY <1>0, <1>3, <1>6, <2>1, <2>4, <2>6, <3>1 DEF PostedBy, Reduced
    <2> QED BY <2>2, <2>5, <2>6 DEF PostedBy
<1>7. ASSUME NEW x \in Ranks, NEW t \in Threads, Notify(x, t) PROVE PostedBy(r, s)'
    <2>1. flag' = flag BY <1>7 DEF Notify
    <2>2. CASE pc[x][t] = "notify" /\ Moves(x, t, "wait") /\ Release(x, All)
        <3>1. t = <<0, 0>> BY <2>2, OnGrid DEF PlacesOf
        <3>2. pc'[x][<<0, 0>>] \notin AtStart BY <2>2, <3>1 DEF Moves, AtStart
        <3> QED BY <1>6, <2>1, <2>2, <3>2
    <2>3. CASE pc[x][t] = "notify2" /\ Moves(x, t, "wait2") /\ Release(x, t[1])
        <3>1. t = <<t[1], 0>> /\ t[1] \in Blocks BY <2>3, OnGrid, ThreadFacts DEF PlacesOf
        <3>2. pc'[x][<<t[1], 0>>] \in Told BY <2>3, <3>1 DEF Moves, Told
        <3>3. t[1] # All BY <3>1, CarConstants, SMT DEF All
        <3> QED BY <1>6, <2>1, <2>3, <3>1, <3>2, <3>3
    <2> QED BY <1>7, <2>2, <2>3, NotifyMoves
<1>8. barrier' = barrier \/ \E x \in Ranks, t \in Threads : Notify(x, t)
    <2>1. ASSUME NEW x \in Ranks, Call(x) PROVE barrier' = barrier BY <2>1 DEF Call
    <2>2. ASSUME NEW x \in Ranks, NEW t \in Threads, Copy(x, t) PROVE barrier' = barrier
        BY <2>2 DEF Copy
    <2>3. ASSUME NEW x \in Ranks, NEW t \in Threads, NEW y \in Ranks, Acquire(x, t, y)
          PROVE  barrier' = barrier
        BY <2>3 DEF Acquire
    <2>4. ASSUME NEW x \in Ranks, NEW t \in Threads, Acquired(x, t) PROVE barrier' = barrier
        BY <2>4 DEF Acquired
    <2>5. ASSUME NEW x \in Ranks, NEW b \in Blocks, Syncthreads(x, b) PROVE barrier' = barrier
        BY <2>5 DEF Syncthreads
    <2>6. ASSUME NEW x \in Ranks, NEW t \in Threads, Reduce(x, t) \/ Gather(x, t)
          PROVE  barrier' = barrier
        BY <2>6 DEF Reduce, Gather
    <2>7. CASE UNCHANGED vars BY <2>7 DEF vars
    <2> QED BY <2>1, <2>2, <2>3, <2>4, <2>5, <2>6, <2>7 DEF Next, Step
<1> QED BY <1>5, <1>7, <1>8

(* A rank never acts on a flag that does not mean what the rank thinks.     *)
LEMMA StepKnows ==
    ASSUME Known, Posted, Knows, InStep, [Next]_vars
    PROVE  Knows'
<1> SUFFICES ASSUME NEW r \in Ranks, NEW b \in Blocks PROVE KnowsOf(r, b)' BY DEF Knows
<1>a. PICK z \in Threads : z = <<b, 0>> BY ThreadFacts
<1>b. z[1] = b /\ z[2] = 0 BY <1>a
<1>c. PICK k \in Nat : k = flag[r] BY FlagsAreNat DEF Known
<1>d. KnowsOf(r, b) BY DEF Knows
<1>e. \A s \in Ranks : /\ Filled(s, k) => Filled(s, k)'
                       /\ Reduced(s, b, k) => Reduced(s, b, k)'
    BY KnowledgeStays
<1>i. seen[r][b] \subseteq Ranks BY DEF Known, TypeOK
<1>f. ASSUME flag' = flag, calls' = calls, pc'[r][z] = pc[r][z], seen'[r][b] = seen[r][b]
      PROVE  KnowsOf(r, b)'
    <2>1. op(r)' = op(r) BY <1>f DEF op
    <2>2. pc'[r][<<b, 0>>] = pc[r][<<b, 0>>] /\ flag'[r] = k BY <1>a, <1>c, <1>f
    <2> QED BY <1>c, <1>d, <1>e, <1>f, <1>i, <2>1, <2>2 DEF KnowsOf
\* The first warp of the block goes on, and the block has seen no flag then.
<1>g. ASSUME NEW l \in Labels, flag' = flag, calls' = calls, pc'[r][z] = l, seen'[r][b] = {},
             flag[r] > 0, z \in Grid(op(r)),
             l \notin AtStart \cup {"wait"} => \A s \in Ranks : Filled(s, k),
             l \in {"sync3"} \cup Last => \A s \in Ranks : Reduced(s, b, k)
      PROVE  KnowsOf(r, b)'
    <2>1. op(r)' = op(r) BY <1>g DEF op
    <2>2. seen'[r][b] = {} /\ pc'[r][<<b, 0>>] = l /\ flag'[r] = k BY <1>a, <1>c, <1>g
    <2>3. l \notin AtStart \cup {"wait"} => \A s \in Ranks : Filled(s, k)' BY <1>e, <1>g
    <2>4. l \in {"sync3"} \cup Last => \A s \in Ranks : Reduced(s, b, k)' BY <1>e, <1>g
    <2> QED BY <2>1, <2>2, <2>3, <2>4 DEF KnowsOf
<1>h. ASSUME NEW x \in Ranks, NEW t \in Threads, NEW l, Moves(x, t, l), seen' = seen,
             <<x, t>> # <<r, z>>
      PROVE  KnowsOf(r, b)'
    BY <1>f, <1>h DEF Moves
<1>1. CASE UNCHANGED vars BY <1>f, <1>1 DEF vars
<1>2. ASSUME NEW x \in Ranks, Call(x) PROVE KnowsOf(r, b)'
    <2>1. CASE x = r
        <3>1. PICK o : o = op(r)' OBVIOUS
        <3>2. pc[r][z] = "done" BY <1>2, <2>1, CallMoves DEF Finished
        <3>3. seen'[r][b] = {} BY <1>2, <1>a, <1>d, <3>2 DEF KnowsOf, Call
        <3>4. z \in Grid(o) => pc'[r][z] \in AtStart \cup {"wait"}
            BY <1>2, <1>b, <2>1, <3>1, CallMoves DEF AfterCopy, AtStart
        <3> QED BY <1>a, <3>1, <3>3, <3>4 DEF KnowsOf, AtStart, Last
    <2>2. CASE x # r
        <3>1. flag'[r] = flag[r] /\ calls' = calls /\ pc'[r] = pc[r] BY <1>2, <2>2, CallMoves
        <3>2. op(r)' = op(r) /\ seen' = seen BY <1>2, <3>1 DEF op, Call
        <3>3. pc'[r][<<b, 0>>] = pc[r][<<b, 0>>] /\ flag'[r] = k BY <1>c, <3>1
        <3> QED BY <1>c, <1>d, <1>e, <1>i, <3>1, <3>2, <3>3 DEF KnowsOf
    <2> QED BY <2>1, <2>2
<1>3. ASSUME NEW x \in Ranks, NEW t \in Threads, Copy(x, t) PROVE KnowsOf(r, b)'
    <2>1. PICK l \in {"notify", "wait", "sync1"} :
             l = AfterCopy(t) /\ Moves(x, t, l) /\ pc[x][t] = "copy" /\ seen' = seen
        BY <1>3, CopyMoves DEF Copy
    <2>2. CASE x = r /\ t = z
        <3>1. seen'[r][b] = {} BY <1>a, <1>d, <2>1, <2>2 DEF KnowsOf
        <3>2. flag[r] > 0 /\ z \in Grid(op(r)) BY <2>1, <2>2, OnGrid
        <3>3. l # "sync1" BY <1>b, <2>1, <2>2 DEF AfterCopy
        <3> QED BY <1>g, <2>1, <2>2, <3>1, <3>2, <3>3 DEF Moves, Labels, AtStart, Last
    <2> QED BY <1>h, <2>1, <2>2
<1>4. ASSUME NEW x \in Ranks, NEW t \in Threads, Notify(x, t) PROVE KnowsOf(r, b)'
    <2>0. seen' = seen BY <1>4 DEF Notify
    <2>1. PICK l \in {"wait", "wait2"} :
             Moves(x, t, l) /\ pc[x][t] = IF l = "wait" THEN "notify" ELSE "notify2"
        BY <1>4, NotifyMoves
    <2>2. CASE x = r /\ t = z
        <3>1. seen'[r][b] = {} BY <1>a, <1>d, <2>0, <2>1, <2>2 DEF KnowsOf
        <3>2. flag[r] > 0 /\ z \in Grid(op(r)) BY <2>1, <2>2, OnGrid
        <3>3. l = "wait2" => \A s \in Ranks : Filled(s, k)
            BY <1>a, <1>c, <1>d, <2>1, <2>2, <3>2 DEF KnowsOf, AtStart
        <3> QED BY <1>g, <2>1, <2>2, <3>1, <3>2, <3>3 DEF Moves, Labels, AtStart, Last
    <2> QED BY <1>h, <2>0, <2>1, <2>2
<1>5. ASSUME NEW x \in Ranks, NEW t \in Threads, NEW s \in Ranks, Acquire(x, t, s)
      PROVE  KnowsOf(r, b)'
    <2>1. /\ flag' = flag /\ calls' = calls /\ pc' = pc
          /\ r = x /\ b = t[1] => seen'[r][b] = seen[r][b] \cup {s}
          /\ r # x \/ b # t[1] => seen'[r][b] = seen[r][b]
        BY <1>5, AcquireType DEF Known
    <2>2. CASE x = r /\ t[1] = b
        <3>1. pc[r][t] \in {"wait", "wait2"} BY <1>5, <2>2 DEF Acquire
        <3>2. flag[r] > 0 /\ t \in Grid(op(r)) /\ pc[r][t] \in PlacesOf(op(r), t)
            BY <3>1, OnGrid
        <3>3. t = z BY <1>a, <2>2, <3>1, <3>2, ThreadFacts DEF PlacesOf
        <3>4. PICK f \in Blocks \cup {All} :
                 f = (IF pc[r][t] = "wait" THEN All ELSE b) /\ barrier[r][s][f] = k
            BY <1>5, <1>c, <2>2, <3>1 DEF Acquire
        <3>5. PostedBy(r, s) BY DEF Posted
        <3>6. k <= flag[s] /\ flag[s] \in Nat
            BY <1>c, <3>4, <3>5, FlagsAreNat DEF PostedBy, Known
        <3>7. pc[r][t] = "wait" => Filled(s, k)
            BY <1>c, <3>2, <3>4, <3>5, <3>6, SMT DEF PostedBy, Filled
        <3>8. pc[r][t] = "wait2" => Reduced(s, b, k)
            BY <1>c, <3>2, <3>4, <3>5, <3>6, SMT DEF PostedBy, Reduced
        <3>9. seen'[r][b] = seen[r][b] \cup {s} BY <2>1, <2>2
        <3>10. op(r)' = op(r) /\ flag'[r] = k BY <1>c, <2>1 DEF op
        <3>11. pc[r][t] = "wait" => \A q \in seen'[r][b] : Filled(q, k)'
            BY <1>a, <1>c, <1>d, <1>e, <3>2, <3>3, <3>7, <3>9, AcquireType, <1>5 DEF KnowsOf, TypeOK, Known
        <3>12. pc[r][t] = "wait2" => \A q \in seen'[r][b] : Reduced(q, b, k)'
            BY <1>a, <1>c, <1>d, <1>e, <3>2, <3>3, <3>8, <3>9, AcquireType, <1>5 DEF KnowsOf, TypeOK, Known
        <3>13. pc[r][t] = "wait2" => \A q \in Ranks : Filled(q, k)'
            BY <1>a, <1>c, <1>d, <1>e, <3>2, <3>3 DEF KnowsOf, AtStart
        <3> QED BY <1>a, <2>1, <3>1, <3>3, <3>10, <3>11, <3>12, <3>13 DEF KnowsOf, AtStart, Last
    <2>3. CASE ~(x = r /\ t[1] = b) BY <1>f, <2>1, <2>3
    <2> QED BY <2>2, <2>3
<1>6. ASSUME NEW x \in Ranks, NEW t \in Threads, Acquired(x, t) PROVE KnowsOf(r, b)'
    <2>1. /\ pc[x][t] \in {"wait", "wait2"} /\ seen[x][t[1]] = Ranks
          /\ seen'[r][b] = IF r = x /\ b = t[1] THEN {} ELSE seen[r][b]
        BY <1>6, AcquiredMoves
    <2>2. PICK l \in Labels : l = AfterWait(x, pc[x][t]) /\ Moves(x, t, l)
        BY <1>6, AcquiredMoves DEF AfterWait, Labels
    <2>3. flag[x] > 0 /\ t \in Grid(op(x)) /\ pc[x][t] \in PlacesOf(op(x), t) BY <2>1, OnGrid
    <2>4. t[2] = 0 /\ t = <<t[1], 0>> BY <2>1, <2>3, ThreadFacts DEF PlacesOf
    <2>5. CASE x = r /\ t = z
        <3>1. seen'[r][b] = {} /\ seen[r][b] = Ranks BY <1>b, <2>1, <2>5
        <3>2. \A s \in Ranks : Filled(s, k)
            BY <1>a, <1>c, <1>d, <2>1, <2>3, <2>5, <3>1 DEF KnowsOf, AtStart
        <3>3. pc[r][z] = "wait2" => \A s \in Ranks : Reduced(s, b, k)
            BY <1>a, <1>c, <1>d, <2>1, <2>3, <2>5, <3>1 DEF KnowsOf
        <3>4. l \in {"sync3"} \cup Last => pc[r][z] = "wait2"
            BY <2>1, <2>2, <2>5 DEF AfterWait, Last
        <3> QED BY <1>g, <2>2, <2>3, <2>5, <3>1, <3>2, <3>3, <3>4 DEF Moves
    <2>6. CASE ~(x = r /\ t = z)
        <3>1. ~(x = r /\ t[1] = b) BY <1>a, <2>4, <2>6
        <3> QED BY <1>f, <2>1, <2>2, <2>6, <3>1 DEF Moves
    <2> QED BY <2>5, <2>6

<1>7. ASSUME NEW x \in Ranks, NEW t \in Threads, Reduce(x, t) \/ Gather(x, t)
      PROVE  KnowsOf(r, b)'
    <2>0. seen' = seen BY <1>7 DEF Reduce, Gather
    <2>1. PICK l \in {"sync2", "done"} :
             Moves(x, t, l) /\ pc[x][t] = IF l = "sync2" THEN "reduce" ELSE "gather"
        BY <1>7, ReduceMoves, GatherMoves
    <2>2. CASE x = r /\ t = z
        <3>1. seen'[r][b] = {} BY <1>a, <1>d, <2>0, <2>1, <2>2 DEF KnowsOf
        <3>2. flag[r] > 0 /\ z \in Grid(op(r)) BY <2>1, <2>2, OnGrid
        <3>3. /\ \A s \in Ranks : Filled(s, k)
              /\ l = "done" => \A s \in Ranks : Reduced(s, b, k)
            BY <1>a, <1>c, <1>d, <2>1, <2>2, <3>2 DEF KnowsOf, AtStart, Last
        <3> QED BY <1>g, <2>1, <2>2, <3>1, <3>2, <3>3 DEF Moves, Labels, Last
    <2> QED BY <1>h, <2>0, <2>1, <2>2
<1>8. ASSUME NEW x \in Ranks, NEW a \in Blocks, Syncthreads(x, a) PROVE KnowsOf(r, b)'
    <2>0. seen' = seen BY <1>8 DEF Syncthreads
    <2>1. PICK l \in {"sync1", "sync2", "sync3"} : Syncs(x, a, l) BY <1>8, SyncMoves
    <2>2. CASE x = r /\ a = b
        <3>1. z \in Grid(op(r)) /\ flag[r] > 0 BY <1>8, <1>a, <2>1, <2>2, SyncMoves DEF Syncs
        <3>2. pc[r][z] = l /\ pc'[r][z] = AfterSync(r, z, l) BY <1>b, <2>1, <2>2, <3>1 DEF Syncs
        <3>3. PICK m \in Labels : m = AfterSync(r, z, l) BY <2>1 DEF AfterSync, Labels
        <3>4. seen'[r][b] = {} BY <1>a, <1>d, <2>0, <3>2 DEF KnowsOf
        <3>5. /\ \A s \in Ranks : Filled(s, k)
              /\ l = "sync3" => \A s \in Ranks : Reduced(s, b, k)
            BY <1>a, <1>c, <1>d, <3>1, <3>2 DEF KnowsOf, AtStart
        <3>6. m \in {"sync3"} \cup Last => l = "sync3" BY <1>b, <3>3 DEF AfterSync, Last
        <3> QED BY <1>g, <2>1, <3>1, <3>2, <3>3, <3>4, <3>5, <3>6 DEF Syncs
    <2>3. CASE ~(x = r /\ a = b) BY <1>b, <1>f, <2>0, <2>1, <2>3 DEF Syncs
    <2> QED BY <2>2, <2>3
<1> QED BY <1>1, <1>2, <1>3, <1>4, <1>5, <1>6, <1>7, <1>8 DEF Next, Step

\* What is overrun stays so until the rank's next call.
LEMMA OverrunGrows ==
    ASSUME Known, [Next]_vars, NEW s \in Ranks, flag'[s] = flag[s]
    PROVE  overrun[s] \subseteq overrun'[s]
<1>1. ASSUME NEW r \in Ranks, Call(r) PROVE overrun[s] \subseteq overrun'[s]
    <2>1. flag'[r] = flag[r] + 1 /\ flag[r] \in Nat BY <1>1, CallMoves, FlagsAreNat DEF Known
    <2>2. s # r BY <2>1
    <2> QED BY <1>1, <2>2, CallMoves
<1>2. ASSUME NEW r \in Ranks, Step(r), ~Call(r) PROVE overrun' = overrun
    BY <1>2 DEF Step, Copy, Notify, Acquire, Acquired, Reduce, Gather, Syncthreads
<1>3. CASE UNCHANGED vars BY <1>3 DEF vars
<1> QED BY <1>1, <1>2, <1>3 DEF Next

LEMMA StepAhead ==
    ASSUME Known, InStep, Knows, Ahead, [Next]_vars
    PROVE  Ahead'
<1> SUFFICES ASSUME NEW r \in Ranks, NEW s \in Ranks PROVE AheadOf(r, s)' BY DEF Ahead
<1>0. AheadOf(r, s) BY DEF Ahead
<1>a. flag[r] \in Nat /\ flag[s] \in Nat BY FlagsAreNat DEF Known
<1>1. CASE Rests
    <2>1. overrun[s] \subseteq overrun'[s] BY <1>1, OverrunGrows DEF Rests
    <2> QED BY <1>0, <1>1, <2>1 DEF Rests, AheadOf
<1>2. ASSUME NEW x \in Ranks, NEW t \in Threads, Hop(x, t) PROVE AheadOf(r, s)'
    <2>1. PICK l \in Labels : Moves(x, t, l) /\ Leads(x, t, pc[x][t], l) BY <1>2 DEF Hop
    <2>2. flag' = flag BY <2>1 DEF Moves
    <2>3. overrun[s] \subseteq overrun'[s] BY <2>2, OverrunGrows
    <2>4. ASSUME flag[s] < flag[r], NEW u \in Threads
          PROVE  pc'[s][u] \in Told /\ (pc'[s][u] # "done" => pc[s][u] # "done")
        <3>1. pc[s][u] \in Told BY <1>0, <2>4 DEF AheadOf
        <3>2. CASE x = s /\ t = u
            BY <2>1, <3>1, <3>2 DEF Moves, Leads, AfterWait, AfterCopy, Told
        <3>3. CASE ~(x = s /\ t = u) BY <2>1, <3>1, <3>3 DEF Moves
        <3> QED BY <3>2, <3>3
    <2> QED BY <1>0, <2>2, <2>3, <2>4 DEF AheadOf
<1>3. ASSUME NEW x \in Ranks, NEW b \in Blocks, NEW l \in {"sync1", "sync2", "sync3"},
             Syncs(x, b, l)
      PROVE  AheadOf(r, s)'
    <2>1. flag' = flag BY <1>3 DEF Syncs
    <2>2. overrun[s] \subseteq overrun'[s] BY <2>1, OverrunGrows
    <2>3. ASSUME flag[s] < flag[r], NEW u \in Threads
          PROVE  pc'[s][u] \in Told /\ (pc'[s][u] # "done" => pc[s][u] # "done")
        <3>1. pc[s][u] \in Told BY <1>0, <2>3 DEF AheadOf
        <3>2. CASE s = x /\ u \in Grid(op(x)) /\ u[1] = b
            <4>1. pc[s][u] = l /\ pc'[s][u] = AfterSync(x, u, l) BY <1>3, <3>2 DEF Syncs
            <4> QED BY <3>1, <4>1 DEF AfterSync, Told
        <3>3. CASE ~(s = x /\ u \in Grid(op(x)) /\ u[1] = b) BY <1>3, <3>1, <3>3 DEF Syncs
        <3> QED BY <3>2, <3>3
    <2> QED BY <1>0, <2>1, <2>2, <2>3 DEF AheadOf
<1>4. ASSUME NEW x \in Ranks, Call(x) PROVE AheadOf(r, s)'
    <2>1. CASE x = s
        <3>1. flag'[s] = flag[s] + 1 /\ (r # s => flag'[r] = flag[r]) BY <1>4, <2>1, CallMoves
        <3> QED BY <1>0, <1>a, <3>1, SMT DEF AheadOf
    <2>2. CASE x # s /\ x # r
        <3>1. /\ flag'[s] = flag[s] /\ flag'[r] = flag[r] /\ pc'[s] = pc[s]
              /\ overrun[s] \subseteq overrun'[s]
            BY <1>4, <2>2, CallMoves
        <3> QED BY <1>0, <3>1 DEF AheadOf
    <2>3. CASE x = r /\ r # s
        <3>1. /\ flag'[s] = flag[s] /\ flag'[r] = flag[r] + 1 /\ pc'[s] = pc[s]
              /\ \A t \in Threads :
                    flag[s] = flag[r] /\ pc[s][t] # "done" => <<r, t>> \in overrun'[s]
            BY <1>4, <2>3, CallMoves
        <3>2. CASE flag[r] = 0
            <4>1. \A t \in Threads : flag[s] = 0 => pc[s][t] = "done"
                BY DEF Known, Places, PlacesAt
            <4> QED BY <1>a, <3>1, <3>2, <4>1, SMT DEF AheadOf, Told
        <3>3. CASE flag[r] > 0
            <4>1. PICK k \in Nat : k = flag[r] BY <1>a
            <4>2. \A b \in Blocks : <<b, 0>> \in Grid(op(r)) => Reduced(s, b, k)
                <5> TAKE b \in Blocks
                <5>1. pc[r][<<b, 0>>] = "done" BY <1>4, <2>3, ThreadFacts DEF Call, Finished
                <5> QED BY <3>3, <4>1, <5>1 DEF Knows, KnowsOf, Last
            <4>3. flag[s] >= k BY <1>a, <4>1, <4>2, GridFacts, ThreadFacts, SMT DEF Reduced
            <4>4. CASE flag[s] > k BY <1>a, <3>1, <4>1, <4>4, SMT DEF AheadOf
            <4>5. CASE flag[s] = k
                <5>1. op(s) = op(r) BY <4>1, <4>5 DEF op
                <5>2. \A b \in Blocks : <<b, 0>> \in Grid(op(s)) => pc[s][<<b, 0>>] \in Told
                    BY <4>1, <4>2, <4>5, <5>1, SMT DEF Reduced
                <5>3. ASSUME NEW t \in Threads PROVE pc[s][t] \in Told
                    <6>1. CASE pc[s][t] = "done" BY <6>1 DEF Told
                    <6>2. CASE pc[s][t] # "done"
                        <7>1. flag[s] > 0 /\ t \in Grid(op(s)) /\ pc[s][t] \in PlacesOf(op(s), t)
                            BY <6>2, OnGrid
                        <7>2. <<t[1], 0>> \in Grid(op(s)) /\ t[1] \in Blocks
                            BY <7>1, GridFacts, ThreadFacts
                        <7>3. pc[s][<<t[1], 0>>] \in Told BY <5>2, <7>2
                        <7>4. PICK u \in Grid(op(s)) : u = <<t[1], 0>> BY <7>2
                        <7>5. SameStretch(s, t, u) BY <7>1, <7>4 DEF InStep
                        <7>6. pc[s][t] \notin Early \cup Mid
                            BY <7>3, <7>4, <7>5 DEF SameStretch, Early, Mid, Told
                        <7>7. pc[s][t] # "notify2"
                            BY <7>1, <7>3, ThreadFacts DEF PlacesOf, Told
                        <7> QED BY <7>1, <7>6, <7>7 DEF PlacesOf, Early, Mid, Told
                    <6> QED BY <6>1, <6>2
                <5> QED BY <1>a, <3>1, <4>1, <4>5, <5>3, SMT DEF AheadOf
            <4> QED BY <1>a, <4>3, <4>4, <4>5
        <3> QED BY <1>a, <3>2, <3>3
    <2>4. CASE x = r /\ r = s BY <2>1, <2>4
    <2> QED BY <2>1, <2>2, <2>3, <2>4
<1> QED BY <1>1, <1>2, <1>3, <1>4, Shapes

LEMMA CellFacts ==
    /\ \A c \in Cells : c[1] \in Ranks /\ c[2] \in Threads /\ c = <<c[1], c[2]>>
    /\ \A s \in Ranks, t \in Threads : <<s, t>> \in Cells
BY SMT DEF Cells

(* The ranks a warp sums from are in its call; those it gathers from are,   *)
(* and have summed, or have overrun what it gathers.                        *)
LEMMA RanksMeet ==
    ASSUME Known, InStep, Knows, Ahead, NEW r \in Ranks, NEW t \in Threads,
           pc[r][t] \in {"reduce", "gather"}, NEW s \in Ranks
    PROVE  /\ flag[r] > 0 /\ t \in Grid(op(r))
           /\ flag[s] = flag[r] => op(s) = op(r)
           /\ pc[r][t] = "reduce" => flag[s] = flag[r] /\ pc[s][<<0, 0>>] \notin AtStart
           /\ pc[r][t] = "gather" => /\ op(r) = "two_shot"
                                     /\ flag[s] # flag[r] => <<s, t>> \in overrun[r]
                                     /\ flag[s] = flag[r] => Summed(s, t)
<1>1. flag[r] > 0 /\ t \in Grid(op(r)) /\ pc[r][t] \in PlacesOf(op(r), t) BY OnGrid
<1>2. PICK b \in Blocks : b = t[1] BY ThreadFacts
<1>3. PICK u \in Grid(op(r)) : u = <<b, 0>> BY <1>1, <1>2, GridFacts
<1>4. SameStretch(r, t, u) BY <1>1, <1>2, <1>3 DEF InStep
<1>5. pc[r][t] = "gather" => op(r) = "two_shot" BY <1>1 DEF PlacesOf, OneShot
<1>6. pc[r][u] \notin AtStart \cup {"wait"} /\ (pc[r][t] = "gather" => pc[r][u] \in Last)
    BY <1>4, <1>5 DEF SameStretch, AtStart, Mid, Last
<1>7. PICK k \in Nat : k = flag[r] BY FlagsAreNat DEF Known
<1>8. Filled(s, k) /\ (pc[r][t] = "gather" => Reduced(s, b, k))
    BY <1>1, <1>3, <1>6, <1>7 DEF Knows, KnowsOf
<1>9. flag[s] \in Nat BY FlagsAreNat DEF Known
<1>10. flag[s] # flag[r] => pc[r][t] = "gather" /\ <<s, t>> \in overrun[r]
    <2>1. ASSUME flag[s] # flag[r] PROVE flag[r] < flag[s]
        BY <1>7, <1>8, <1>9, <2>1, SMT DEF Filled
    <2>2. AheadOf(s, r) BY DEF Ahead
    <2> QED BY <2>1, <2>2 DEF AheadOf, Told
<1>11. flag[s] = flag[r] => op(s) = op(r) BY DEF op
<1>12. flag[s] = flag[r] => pc[s][<<0, 0>>] \notin AtStart
    BY <1>7, <1>8, <1>9, SMT DEF Filled
<1>13. ASSUME pc[r][t] = "gather", flag[s] = flag[r] PROVE Summed(s, t)
    <2>1. pc[s][u] \in Told BY <1>3, <1>7, <1>8, <1>9, <1>13, SMT DEF Reduced
    <2>2. SameStretch(s, t, u) BY <1>1, <1>2, <1>3, <1>11, <1>13 DEF InStep
    <2> QED BY <2>1, <2>2 DEF SameStretch, Early, Mid, Told, Summed
<1> QED BY <1>1, <1>5, <1>10, <1>11, <1>12, <1>13

\* What a warp sums is what all ranks gave.
LEMMA SumIsGiven ==
    ASSUME Known, InStep, Knows, Ahead, Buffers, NEW r \in Ranks, NEW t \in Threads,
           pc[r][t] = "reduce", NEW c \in Cells, c[2] = t,
           op(r) = "two_shot" => c[1] = r, op(r) \in OneShot => t = <<0, 0>>
    PROVE  Sum(c) = Given(flag[r])
<1>1. ASSUME NEW s \in Ranks PROVE buffer[s][c] = {<<s, flag[r]>>}
    <2>1. /\ flag[r] > 0 /\ flag[s] = flag[r] /\ op(s) = op(r) /\ t \in Grid(op(r))
          /\ pc[s][<<0, 0>>] \notin AtStart
        <3>1. pc[r][t] \in {"reduce", "gather"} /\ pc[r][t] = "reduce" OBVIOUS
        <3>2. pc[r][t] = "reduce" => flag[s] = flag[r] /\ pc[s][<<0, 0>>] \notin AtStart
            BY <3>1, RanksMeet
        <3>3. flag[r] > 0 /\ t \in Grid(op(r)) /\ (flag[s] = flag[r] => op(s) = op(r))
            BY <3>1, RanksMeet
        <3> QED BY <3>2, <3>3
    <2>2. HasRows(s, c) BY <2>1 DEF Buffers
    <2>3. ~(op(s) = "two_shot" /\ c[1] = s /\ Summed(s, c[2])) BY <2>1 DEF Summed
    <2>4. pc[s][c[2]] # "copy"
        <3>1. CASE op(s) \in OneShot BY <2>1, <3>1 DEF AtStart
        <3>2. CASE op(s) \notin OneShot
            <4>1. t \in Threads /\ PlacesAt(s, t) BY DEF Known, Places
            <4> QED BY <2>1, <3>2, <4>1 DEF PlacesAt, PlacesOf
        <3> QED BY <3>1, <3>2
    <2> QED BY <2>1, <2>2, <2>3, <2>4 DEF HasRows
<1>2. \A e : e \in Sum(c) <=> \E s \in Ranks : e \in buffer[s][c] BY DEF Sum
<1>3. \A e : e \in Given(flag[r]) <=> \E s \in Ranks : e = <<s, flag[r]>> BY DEF Given
<1>4. \A e : e \in Sum(c) <=> e \in Given(flag[r]) BY <1>1, <1>2, <1>3
<1> QED BY <1>4

LEMMA StepBuffers ==
    ASSUME Known, InStep, Knows, Ahead, Buffers, [Next]_vars
    PROVE  Buffers'
<1> SUFFICES ASSUME NEW r \in Ranks, flag'[r] > 0, NEW c \in Cells PROVE HasRows(r, c)'
    BY DEF Buffers, Cells, Threads
<1>c. c[1] \in Ranks /\ c[2] \in Threads /\ c = <<c[1], c[2]>> BY CellFacts
\* Nothing happens to the rank's buffer.
<1>f. ASSUME flag'[r] = flag[r], calls' = calls, buffer'[r] = buffer[r],
             pc'[r][c[2]] # "copy" => pc[r][c[2]] # "copy",
             op(r) = "two_shot" /\ c[1] = r => (Summed(r, c[2])' <=> Summed(r, c[2]))
      PROVE  HasRows(r, c)'
    <2>1. op(r)' = op(r) BY <1>f DEF op
    <2>2. HasRows(r, c) BY <1>f DEF Buffers
    <2> QED BY <1>f, <2>1, <2>2 DEF HasRows
<1>g. ASSUME NEW x \in Ranks, NEW t \in Threads, NEW l \in Labels, Moves(x, t, l), buffer' = buffer,
             l # "copy", pc[x][t] # "copy",
             x = r => (l \in Early \cup {"reduce"} <=> pc[r][t] \in Early \cup {"reduce"})
      PROVE  HasRows(r, c)'
    BY <1>c, <1>f, <1>g, ThreadFacts DEF Moves, Summed
<1>1. CASE UNCHANGED vars BY <1>f, <1>1 DEF vars, Summed
<1>2. ASSUME NEW x \in Ranks, Call(x) PROVE HasRows(r, c)'
    <2>1. CASE x = r
        <3>1. PICK o : o = op(r)' OBVIOUS
        <3>2. PICK k : k = flag'[r] OBVIOUS
        <3>3. \A t \in Threads : pc'[r][t] = IF t \notin Grid(o) THEN "done"
                                             ELSE IF o \in OneShot THEN "copy" ELSE AfterCopy(t)
            BY <1>2, <2>1, <3>1, CallMoves
        <3>4. CASE o \in OneShot BY <1>c, <3>1, <3>3, <3>4 DEF HasRows
        <3>5. CASE o \notin OneShot
            <4>1. o = calls[flag[r] + 1] /\ o \notin OneShot BY <1>2, <2>1, <3>1, <3>5, CallMoves
            <4>2. Copied(r, Cells) BY <1>2, <2>1, <4>1 DEF Call
            <4>3. buffer'[r][c] = {<<r, k>>} BY <3>2, <4>2, SMT DEF Copied, Known, TypeOK
            <4>4. c[2] \in Grid(o) => ~Summed(r, c[2])'
                BY <1>c, <3>3, <3>5 DEF Summed, Early, AfterCopy
            <4> QED BY <3>1, <3>2, <4>3, <4>4 DEF HasRows
        <3> QED BY <3>4, <3>5
    <2>2. CASE x # r
        <3>1. flag'[r] = flag[r] /\ calls' = calls /\ pc'[r] = pc[r] BY <1>2, <2>2, CallMoves
        <3>2. PICK o : Copied(x, IF o \in OneShot THEN {} ELSE Cells) BY <1>2 DEF Call
        <3>3. buffer'[r] = buffer[r] BY <2>2, <3>2 DEF Copied, Known, TypeOK
        <3> QED BY <1>f, <3>1, <3>3 DEF Summed
    <2> QED BY <2>1, <2>2
<1>3. ASSUME NEW x \in Ranks, NEW t \in Threads, Copy(x, t) PROVE HasRows(r, c)'
    <2>1. PICK l \in {"notify", "wait", "sync1"} : l = AfterCopy(t) /\ Moves(x, t, l)
        BY <1>3, CopyMoves
    <2>2. op(x) \in OneShot /\ Copied(x, Ranks \X {t}) /\ pc[x][t] = "copy"
        BY <1>3, CopyMoves DEF Copy
    <2>3. CASE x = r
        <3>1. op(r)' = op(r) /\ op(r) # "two_shot" BY <2>1, <2>2, <2>3 DEF Moves, op, OneShot
        <3>2. PICK k : k = flag'[r] OBVIOUS
        <3>3. CASE c[2] = t
            <4>1. c \in Ranks \X {t} BY <1>c, <3>3
            <4>2. buffer'[r][c] = {<<r, k>>}
                BY <2>2, <2>3, <3>2, <4>1, SMT DEF Copied, Known, TypeOK
            <4> QED BY <3>1, <3>2, <4>2 DEF HasRows
        <3>4. CASE c[2] # t
            <4>1. c \notin Ranks \X {t} BY <1>c, <3>4
            <4>2. buffer'[r][c] = buffer[r][c]
                BY <2>2, <2>3, <4>1, SMT DEF Copied, Known, TypeOK
            <4>3. pc'[r][c[2]] = pc[r][c[2]] /\ flag' = flag BY <1>c, <2>1, <3>4 DEF Moves
            <4>4. HasRows(r, c) BY <4>3 DEF Buffers
            <4> QED BY <3>1, <4>2, <4>3, <4>4 DEF HasRows
        <3> QED BY <3>3, <3>4
    <2>4. CASE x # r
        <3>1. buffer'[r] = buffer[r] BY <2>2, <2>4 DEF Copied, Known, TypeOK
        <3> QED BY <1>c, <1>f, <2>1, <2>4, <3>1 DEF Moves, Summed
    <2> QED BY <2>3, <2>4
<1>4. ASSUME NEW x \in Ranks, NEW t \in Threads, Notify(x, t) PROVE HasRows(r, c)'
    <2>1. PICK l \in {"wait", "wait2"} :
             Moves(x, t, l) /\ pc[x][t] = IF l = "wait" THEN "notify" ELSE "notify2"
        BY <1>4, NotifyMoves
    <2>2. buffer' = buffer BY <1>4 DEF Notify
    <2> QED BY <1>g, <2>1, <2>2 DEF Labels, Early
<1>5. ASSUME NEW x \in Ranks, NEW t \in Threads, NEW s \in Ranks, Acquire(x, t, s)
      PROVE  HasRows(r, c)'
    BY <1>f, <1>5 DEF Acquire, Summed
<1>6. ASSUME NEW x \in Ranks, NEW t \in Threads, Acquired(x, t) PROVE HasRows(r, c)'
    <2>1. PICK l \in Labels : l = AfterWait(x, pc[x][t]) /\ Moves(x, t, l)
        BY <1>6, AcquiredMoves DEF AfterWait, Labels
    <2>2. pc[x][t] \in {"wait", "wait2"} /\ buffer' = buffer BY <1>6 DEF Acquired
    <2> QED BY <1>g, <2>1, <2>2 DEF AfterWait, Early
<1>7. ASSUME NEW x \in Ranks, NEW t \in Threads, Reduce(x, t) PROVE HasRows(r, c)'
    <2>1. Moves(x, t, "sync2") /\ pc[x][t] = "reduce" BY <1>7, ReduceMoves
    <2>2. CASE op(x) = "two_shot" /\ x = r /\ c = <<r, t>>
        <3>1. Sum(c) = Given(flag[r]) BY <2>1, <2>2, SumIsGiven DEF OneShot
        <3>2. PICK S : S = Sum(c) OBVIOUS
        <3>3. buffer' = [buffer EXCEPT ![r][c] = S] BY <1>7, <2>2, <3>2 DEF Reduce
        <3>4. buffer'[r][c] = S BY <3>3, SMT DEF Known, TypeOK
        <3>5. flag'[r] = flag[r] /\ op(r)' = op(r) /\ Given(flag[r])' = Given(flag[r])
            BY <2>1 DEF Moves, op, Given
        <3>6. Summed(r, c[2])' BY <2>1, <2>2 DEF Moves, Summed, Early
        <3> QED BY <2>2, <3>1, <3>2, <3>4, <3>5, <3>6 DEF HasRows
    <2>3. CASE ~(op(x) = "two_shot" /\ x = r /\ c = <<r, t>>)
        <3>1. buffer'[r][c] = buffer[r][c]
            <4>1. CASE op(x) # "two_shot" BY <1>7, <4>1 DEF Reduce
            <4>2. CASE op(x) = "two_shot"
                <5>1. PICK S : buffer' = [buffer EXCEPT ![x][<<x, t>>] = S] BY <1>7, <4>2 DEF Reduce
                <5> QED BY <2>3, <4>2, <5>1, SMT DEF Known, TypeOK
            <4> QED BY <4>1, <4>2
        <3>2. flag'[r] = flag[r] /\ op(r)' = op(r) BY <2>1 DEF Moves, op
        <3>3. pc'[r][c[2]] # "copy" => pc[r][c[2]] # "copy" BY <1>c, <2>1 DEF Moves
        <3>4. op(r) = "two_shot" /\ c[1] = r => (Summed(r, c[2])' <=> Summed(r, c[2]))
            BY <1>c, <2>1, <2>3 DEF Moves, Summed
        <3>5. HasRows(r, c) BY <3>2 DEF Buffers
        <3> QED BY <3>1, <3>2, <3>3, <3>4, <3>5 DEF HasRows
    <2> QED BY <2>2, <2>3
<1>8. ASSUME NEW x \in Ranks, NEW t \in Threads, Gather(x, t) PROVE HasRows(r, c)'
    <2>1. Moves(x, t, "done") /\ pc[x][t] = "gather" /\ buffer' = buffer
        BY <1>8, GatherMoves DEF Gather
    <2> QED BY <1>g, <2>1 DEF Labels, Early
<1>9. ASSUME NEW x \in Ranks, NEW b \in Blocks, Syncthreads(x, b) PROVE HasRows(r, c)'
    <2>1. buffer' = buffer BY <1>9 DEF Syncthreads
    <2>2. PICK l \in {"sync1", "sync2", "sync3"} : Syncs(x, b, l) BY <1>9, SyncMoves
    <2>3. ASSUME NEW u \in Threads
          PROVE  /\ pc'[r][u] # "copy" => pc[r][u] # "copy"
                 /\ Summed(r, u)' <=> Summed(r, u)
        BY <2>2 DEF Syncs, AfterSync, Summed, Early
    <2> QED BY <1>c, <1>f, <2>1, <2>2, <2>3, ThreadFacts DEF Syncs
<1> QED BY <1>1, <1>2, <1>3, <1>4, <1>5, <1>6, <1>7, <1>8, <1>9 DEF Next, Step

LEMMA StepOutputs ==
    ASSUME Known, InStep, Knows, Ahead, Buffers, Outputs, [Next]_vars
    PROVE  Outputs'
<1> SUFFICES ASSUME NEW r \in Ranks, flag'[r] > 0, NEW u \in Grid(op(r)'), NEW q \in Ranks
             PROVE  HasSums(r, u, q)'
    BY DEF Outputs, Grid, Threads
<1>u. u \in Threads BY GridFacts
<1>c. <<r, u>> \in Cells /\ <<q, u>> \in Cells BY <1>u, CellFacts
\* The warp has not got a new sum to have, and has those it had.
<1>f. ASSUME flag'[r] = flag[r], calls' = calls,
             \A s \in Ranks : output'[r][<<s, u>>] = output[r][<<s, u>>],
             op(r) # "two_shot" /\ Summed(r, u)' => Summed(r, u),
             op(r) = "two_shot" /\ pc'[r][u] = "done" => pc[r][u] = "done",
             overrun[r] \subseteq overrun'[r]
      PROVE  HasSums(r, u, q)'
    <2>1. op(r)' = op(r) BY <1>f DEF op
    <2>2. HasSums(r, u, q) BY <1>f, <2>1 DEF Outputs
    <2>3. Given(flag[r])' = Given(flag[r]) BY <1>f DEF Given
    <2> QED BY <1>f, <2>1, <2>2, <2>3 DEF HasSums, OneShot
<1>g. ASSUME NEW x \in Ranks, NEW t \in Threads, NEW l \in Labels, Moves(x, t, l), output' = output,
             op(x) # "two_shot" /\ l \notin Early \cup {"reduce"} => pc[x][t] \notin Early \cup {"reduce"},
             op(x) = "two_shot" => l # "done"
      PROVE  HasSums(r, u, q)'
    BY <1>f, <1>g, <1>u, OverrunGrows DEF Moves, Summed
<1>1. CASE UNCHANGED vars BY <1>f, <1>1 DEF vars, Summed
<1>2. ASSUME NEW x \in Ranks, Call(x) PROVE HasSums(r, u, q)'
    <2>1. CASE x = r
        <3>1. PICK o : o = op(r)' OBVIOUS
        <3>2. pc'[r][u] = IF u \notin Grid(o) THEN "done"
                          ELSE IF o \in OneShot THEN "copy" ELSE AfterCopy(u)
            BY <1>2, <1>u, <2>1, <3>1, CallMoves
        <3>3. pc'[r][u] \in Early BY <3>1, <3>2 DEF AfterCopy, Early
        <3> QED BY <3>3 DEF HasSums, Summed, Early
    <2>2. CASE x # r
        <3>1. flag'[r] = flag[r] /\ calls' = calls /\ pc'[r] = pc[r] BY <1>2, <2>2, CallMoves
        <3>2. output' = output BY <1>2 DEF Call
        <3> QED BY <1>f, <3>1, <3>2, OverrunGrows DEF Summed
    <2> QED BY <2>1, <2>2
<1>3. ASSUME NEW x \in Ranks, NEW t \in Threads, Copy(x, t) PROVE HasSums(r, u, q)'
    <2>1. PICK l \in {"notify", "wait", "sync1"} : Moves(x, t, l) BY <1>3, CopyMoves
    <2>2. output' = output BY <1>3 DEF Copy
    <2> QED BY <1>g, <2>1, <2>2 DEF Labels, Early
<1>4. ASSUME NEW x \in Ranks, NEW t \in Threads, Notify(x, t) PROVE HasSums(r, u, q)'
    <2>1. PICK l \in {"wait", "wait2"} :
             Moves(x, t, l) /\ pc[x][t] = IF l = "wait" THEN "notify" ELSE "notify2"
        BY <1>4, NotifyMoves
    <2>2. output' = output BY <1>4 DEF Notify
    <2> QED BY <1>g, <2>1, <2>2 DEF Labels, Early
<1>5. ASSUME NEW x \in Ranks, NEW t \in Threads, NEW s \in Ranks, Acquire(x, t, s)
      PROVE  HasSums(r, u, q)'
    BY <1>f, <1>5, OverrunGrows DEF Acquire, Summed
<1>6. ASSUME NEW x \in Ranks, NEW t \in Threads, Acquired(x, t) PROVE HasSums(r, u, q)'
    <2>1. PICK l \in Labels : l = AfterWait(x, pc[x][t]) /\ Moves(x, t, l)
        BY <1>6, AcquiredMoves DEF AfterWait, Labels
    <2>2. pc[x][t] \in {"wait", "wait2"} /\ output' = output BY <1>6 DEF Acquired
    <2> QED BY <1>g, <2>1, <2>2 DEF AfterWait, Early
<1>7. ASSUME NEW x \in Ranks, NEW t \in Threads, Reduce(x, t) PROVE HasSums(r, u, q)'
    <2>1. Moves(x, t, "sync2") /\ pc[x][t] = "reduce" BY <1>7, ReduceMoves
    <2>2. flag' = flag /\ calls' = calls /\ op(r)' = op(r) BY <2>1 DEF Moves, op
    <2>3. CASE op(x) = "two_shot"
        <3>1. output' = output BY <1>7, <2>3 DEF Reduce
        <3> QED BY <1>g, <2>1, <2>3, <3>1 DEF Labels
    <2>4. CASE op(x) # "two_shot" /\ x = r /\ u = t
        <3>1. output' = [output EXCEPT ![r] = [c \in Cells |->
                  IF c = <<r, t>> \/ (op(r) \in OneShot /\ c[2] = t) THEN Sum(c) ELSE output[r][c]]]
            BY <1>7, <2>4 DEF Reduce
        <3>2. output'[r] = [c \in Cells |->
                  IF c = <<r, t>> \/ (op(r) \in OneShot /\ c[2] = t) THEN Sum(c) ELSE output[r][c]]
            BY <3>1 DEF Known, TypeOK
        <3>3. output'[r][<<r, t>>] = Sum(<<r, t>>) BY <1>c, <2>4, <3>2
        <3>4. op(r) \in OneShot => output'[r][<<q, t>>] = Sum(<<q, t>>) BY <1>c, <2>4, <3>2
        <3>5. op(r) = "reduce_scatter" => Sum(<<r, t>>) = Given(flag[r])
            BY <1>c, <2>1, <2>4, SumIsGiven DEF OneShot
        <3>6. op(r) \in OneShot /\ t = <<0, 0>> => Sum(<<q, t>>) = Given(flag[r])
            BY <1>c, <2>1, <2>4, SumIsGiven
        <3>7. Given(flag[r])' = Given(flag[r]) BY <2>2 DEF Given
        <3> QED BY <2>2, <2>4, <3>3, <3>4, <3>5, <3>6, <3>7 DEF HasSums, OneShot
    <2>5. CASE op(x) # "two_shot" /\ ~(x = r /\ u = t)
        <3> DEFINE f == [c \in Cells |->
                  IF c = <<x, t>> \/ (op(x) \in OneShot /\ c[2] = t) THEN Sum(c) ELSE output[x][c]]
        <3>0. output' = [output EXCEPT ![x] = f] BY <1>7, <2>5 DEF Reduce
        <3>1. \A c \in Cells : ~(c = <<x, t>> \/ c[2] = t) => f[c] = output[x][c] OBVIOUS
        <3> HIDE DEF f
        <3>2. ASSUME NEW s \in Ranks PROVE output'[r][<<s, u>>] = output[r][<<s, u>>]
            <4>1. PICK c \in Cells : c = <<s, u>> BY <1>u, CellFacts
            <4>2. x = r => ~(c = <<x, t>> \/ c[2] = t) BY <2>5, <4>1
            <4>3. output'[r][c] = output[r][c] BY <3>0, <3>1, <4>2 DEF Known, TypeOK
            <4> QED BY <4>1, <4>3
        <3> QED BY <1>f, <1>u, <2>1, <2>2, <2>5, <3>2, OverrunGrows DEF Moves, Summed
    <2> QED BY <2>3, <2>4, <2>5
<1>8. ASSUME NEW x \in Ranks, NEW t \in Threads, Gather(x, t) PROVE HasSums(r, u, q)'
    <2>1. Moves(x, t, "done") /\ pc[x][t] = "gather" BY <1>8, GatherMoves
    <2>2. flag' = flag /\ calls' = calls /\ op(r)' = op(r) BY <2>1 DEF Moves, op
    <2>3. output' = [output EXCEPT ![x] = [c \in Cells |->
              IF c[2] = t THEN buffer[c[1]][c] ELSE output[x][c]]]
        BY <1>8 DEF Gather
    <2>4. output'[x] = [c \in Cells |-> IF c[2] = t THEN buffer[c[1]][c] ELSE output[x][c]]
        BY <2>3 DEF Known, TypeOK
    <2>5. CASE x = r /\ u = t
        <3>1. output'[r][<<q, t>>] = buffer[q][<<q, t>>] BY <1>c, <2>4, <2>5
        <3>2. /\ t \in Grid(op(r)) /\ op(r) = "two_shot" /\ flag[r] > 0
              /\ flag[q] # flag[r] => <<q, t>> \in overrun[r]
              /\ flag[q] = flag[r] => op(q) = op(r) /\ Summed(q, t)
            BY <2>1, <2>5, RanksMeet
        <3>3. overrun[r] \subseteq overrun'[r] /\ Given(flag[r])' = Given(flag[r])
            BY <2>2, OverrunGrows DEF Given
        <3>4. CASE flag[q] # flag[r] BY <2>2, <2>5, <3>2, <3>3, <3>4 DEF HasSums, OneShot
        <3>5. CASE flag[q] = flag[r]
            <4>1. HasRows(q, <<q, t>>) BY <1>c, <2>5, <3>2, <3>5 DEF Buffers
            <4>2. pc[q][t] # "copy" BY <3>2, <3>5 DEF Summed, Early
            <4>3. buffer[q][<<q, t>>] = Given(flag[r]) BY <3>2, <3>5, <4>1, <4>2 DEF HasRows
            <4> QED BY <2>2, <2>5, <3>1, <3>2, <3>3, <4>3 DEF HasSums, OneShot
        <3> QED BY <3>4, <3>5
    <2>6. CASE ~(x = r /\ u = t)
        <3>1. ASSUME NEW s \in Ranks PROVE output'[r][<<s, u>>] = output[r][<<s, u>>]
            <4>1. PICK c \in Cells : c = <<s, u>> BY <1>u, CellFacts
            <4>2. x = r => c[2] # t BY <2>6, <4>1
            <4>3. output'[r][c] = output[r][c] BY <2>3, <2>4, <4>2 DEF Known, TypeOK
            <4> QED BY <4>1, <4>3
        <3> QED BY <1>f, <1>u, <2>1, <2>2, <2>6, <3>1, OverrunGrows DEF Moves, Summed
    <2> QED BY <2>5, <2>6
<1>9. ASSUME NEW x \in Ranks, NEW b \in Blocks, Syncthreads(x, b) PROVE HasSums(r, u, q)'
    <2>1. output' = output BY <1>9 DEF Syncthreads
    <2>2. PICK l \in {"sync1", "sync2", "sync3"} : Syncs(x, b, l) BY <1>9, SyncMoves
    <2>3. Summed(r, u)' <=> Summed(r, u) BY <1>u, <2>2 DEF Syncs, AfterSync, Summed, Early
    <2>4. op(r) = "two_shot" /\ pc'[r][u] = "done" => pc[r][u] = "done"
        BY <1>u, <2>2 DEF Syncs, AfterSync
    <2> QED BY <1>f, <2>1, <2>2, <2>3, <2>4, OverrunGrows DEF Syncs
<1> QED BY <1>1, <1>2, <1>3, <1>4, <1>5, <1>6, <1>7, <1>8, <1>9 DEF Next, Step

-----------------------------------------------------------------------------
(* The inductive invariant holds whatever the number of ranks, blocks,      *)
(* warps and calls.                                                         *)
THEOREM Barriers ==
    Spec => []IInv
<1>1. IInv /\ [Next]_vars => IInv'
    <2> SUFFICES ASSUME IInv, [Next]_vars PROVE IInv' OBVIOUS
    <2>1. Known BY DEF Known, IInv
    <2> USE DEF IInv
    <2>2. TypeOK' BY <2>1, Shapes
    <2>3. Places' BY <2>1, StepPlaces
    <2>4. InStep' BY <2>1, StepInStep
    <2>5. Posted' BY <2>1, StepPosted
    <2>6. Knows' BY <2>1, StepKnows
    <2>7. Ahead' BY <2>1, StepAhead
    <2>8. Buffers' BY <2>1, StepBuffers
    <2>9. Outputs' BY <2>1, StepOutputs
    <2> QED BY <2>2, <2>3, <2>4, <2>5, <2>6, <2>7, <2>8, <2>9
<1> QED BY InitIInv, <1>1, PTL DEF Spec

(* No rank fills its buffer for a call while another may still sum it for   *)
(* the call before, whatever the operations are.                            *)
THEOREM BuffersAreKept ==
    Spec => []SummedBeforeNextCall
<1>1. IInv => SummedBeforeNextCall BY DEF IInv, Ahead, AheadOf, SummedBeforeNextCall, Told
<1> QED BY <1>1, Barriers, PTL

(* What a call returns is the sum of all that the ranks gave to this call,  *)
(* but for the parts of a one-shot that its first warp does not answer for, *)
(* and the cells of a two-shot that were overrun.                           *)
THEOREM SumsAreComplete ==
    Spec => []SumsComplete
<1>1. IInv => SumsComplete
    <2> SUFFICES ASSUME IInv, NEW r \in Ranks, Returned(r), NEW c \in Wanted(r),
                        ~(op(r) \in OneShot /\ c[2] # <<0, 0>>),
                        ~(op(r) = "two_shot" /\ c \in overrun[r])
                 PROVE  output[r][c] = Given(flag[r])
        BY DEF SumsComplete
    <2>1. c[1] \in Ranks /\ c[2] \in Threads /\ c = <<c[1], c[2]>> BY CellFacts DEF Wanted
    <2>2. flag[r] > 0 /\ pc[r][c[2]] = "done" BY <2>1 DEF Finished, Returned
    <2>3. Summed(r, c[2]) BY <2>2 DEF Summed, Early
    <2>4. op(r) \in OneShot \cup {"two_shot", "reduce_scatter"} BY <2>2, OpFacts DEF IInv
    <2>5. HasSums(r, c[2], c[1]) BY <2>1, <2>2 DEF IInv, Outputs, Wanted
    <2> QED BY <2>1, <2>2, <2>3, <2>4, <2>5 DEF HasSums, Wanted, OneShot
<1> QED BY <1>1, Barriers, PTL
=============================================================================
