---------------------------- MODULE CustomAllReduce ----------------------------
(***************************************************************************)
(* The collective operations of gen_ai's comm_ops (car.cu): the GPUs of a  *)
(* node read each other's buffers and synchronise through flags they store *)
(* in each other's barriers, with no host in between.                      *)
(*                                                                         *)
(* The threads of a warp move together; warps of a block meet at           *)
(* __syncthreads.  A store is seen at once: what can be late is the warp.  *)
(* The stores of a flag to all ranks are one step, as a rank acts on its   *)
(* own flags only.  A value is the set of inputs summed in it: <<r, k>> is *)
(* what rank r gave to call k.                                             *)
(***************************************************************************)
EXTENDS Integers, FiniteSets

CONSTANTS
    Ranks,
    Blocks,           \* blocks of a kernel: 0..n-1
    Warps,            \* warps of a block
    Ops,              \* operations the program calls
    MaxCalls          \* bound: calls

OneShot == {"one_shot", "small_one_shot"}

ASSUME CarConstants ==
    /\ Blocks \subseteq Nat /\ 0 \in Blocks /\ Warps \subseteq Nat /\ 0 \in Warps
    /\ Ops \subseteq OneShot \cup {"two_shot", "reduce_scatter"}
    /\ MaxCalls \in Nat \ {0}

VARIABLES
    calls,    \* the operation of each call, the same on all ranks
    flag,     \* flag_: the call a rank is in
    pc,       \* where each warp of the call's kernel is; "done" if it has none
    seen,     \* flags that the first warp of a block has seen in this wait
    barrier,  \* barriers_: a flag per rank, and per rank and block
    buffer,   \* buffers_: for each rank the part of each rank, by the warp that has it
    output,
    overrun   \* history: the cells a rank still had to gather when their owner made the next call

vars == <<calls, flag, pc, seen, barrier, buffer, output, overrun>>

Threads == Blocks \X Warps
Cells   == Ranks \X Threads
All     == -1   \* the flags of all blocks, stored by the first

op(r) == calls[flag[r]]

\* The warps of the kernel: a small one-shot all-reduce has one.
Grid(o) == IF o = "small_one_shot" THEN {<<0, 0>>} ELSE Threads

Given(k) == {<<s, k>> : s \in Ranks}

Finished(r) == \A t \in Threads : pc[r][t] = "done"

Goto(r, T, l) == pc' = [pc EXCEPT ![r] = [t \in Threads |-> IF t \in T THEN l ELSE @[t]]]

Copied(r, C) == buffer' = [buffer EXCEPT ![r] = [c \in Cells |->
                              IF c \in C THEN {<<r, flag'[r]>>} ELSE @[c]]]

\* After the copy the first warp of a block meets the other ranks, and the
\* others wait for it; the first one of all has to notify the ranks before.
AfterCopy_BlockZeroWaits(t) == IF t = <<0, 0>> THEN "notify" ELSE "sync1"
AfterCopy(t) == IF t = <<0, 0>> THEN "notify" ELSE IF t[2] = 0 THEN "wait" ELSE "sync1"

(* The next call: ++flag_, and the copy to the rank's buffer, which one    *)
(* shot leaves to the kernel.                                              *)
Call(r) ==
    LET o == calls[flag[r] + 1]
    IN  /\ Finished(r) /\ flag[r] < MaxCalls
        /\ flag' = [flag EXCEPT ![r] = @ + 1]
        /\ pc' = [pc EXCEPT ![r] = [t \in Threads |->
                     IF t \notin Grid(o) THEN "done"
                     ELSE IF o \in OneShot THEN "copy" ELSE AfterCopy(t)]]
        /\ Copied(r, IF o \in OneShot THEN {} ELSE Cells)
        /\ overrun' = [s \in Ranks |->
              IF s = r THEN {}
              ELSE overrun[s] \cup
                   {c \in Cells : c[1] = r /\ flag[s] = flag[r] /\ pc[s][c[2]] # "done"}]
        /\ UNCHANGED <<calls, seen, barrier, output>>

Copy(r, t) ==
    /\ pc[r][t] = "copy"
    /\ UNCHANGED <<calls, flag, seen, barrier, output, overrun>>
    /\ Copied(r, Ranks \X {t})
    /\ Goto(r, {t}, AfterCopy(t))

\* st_flag_release to the rank's place f of all barriers.
Release_OtherRanksOnly(r, f) ==
    barrier' = [s \in Ranks |-> IF s = r THEN barrier[s] ELSE [barrier[s] EXCEPT ![r][f] = flag[r]]]

Release(r, f) == barrier' = [s \in Ranks |-> [barrier[s] EXCEPT ![r][f] = flag[r]]]

Notify(r, t) ==
    /\ \/ pc[r][t] = "notify"  /\ Release(r, All)  /\ Goto(r, {t}, "wait")
       \/ pc[r][t] = "notify2" /\ Release(r, t[1]) /\ Goto(r, {t}, "wait2")
    /\ UNCHANGED <<calls, flag, seen, buffer, output, overrun>>

\* ld_flag_acquire: a thread of the warp per rank waits for its flag.
Acquire(r, t, s) ==
    /\ pc[r][t] \in {"wait", "wait2"} /\ s \notin seen[r][t[1]]
    /\ barrier[r][s][IF pc[r][t] = "wait" THEN All ELSE t[1]] = flag[r]
    /\ seen' = [seen EXCEPT ![r][t[1]] = @ \cup {s}]
    /\ UNCHANGED <<calls, flag, pc, barrier, buffer, output, overrun>>

Acquired(r, t) ==
    /\ pc[r][t] \in {"wait", "wait2"} /\ seen[r][t[1]] = Ranks
    /\ seen' = [seen EXCEPT ![r][t[1]] = {}]
    /\ Goto(r, {t}, IF pc[r][t] = "wait" THEN "sync1"
                    ELSE IF op(r) = "two_shot" THEN "sync3" ELSE "done")
    /\ UNCHANGED <<calls, flag, barrier, buffer, output, overrun>>

\* After the second __syncthreads the first warp of a block meets the other
\* ranks' block; the other warps only have work if there is a third.
AfterReduce_NoBarrier(t, rest) == rest
AfterReduce(t, rest) == IF t[2] = 0 THEN "notify2" ELSE rest

(* __syncthreads: the warps of a block go on together.                     *)
Syncthreads(r, b) ==
    LET T == {t \in Grid(op(r)) : t[1] = b}
        at(l) == \A t \in T : pc[r][t] = l
        rest == IF op(r) = "two_shot" THEN "sync3" ELSE "done"
    IN  /\ flag[r] > 0 /\ T # {}
        /\ \/ at("sync1") /\ Goto(r, T, "reduce")
           \/ at("sync3") /\ Goto(r, T, "gather")
           \/ /\ at("sync2")
              /\ pc' = [pc EXCEPT ![r] = [t \in Threads |->
                           IF t \in T THEN AfterReduce(t, rest) ELSE @[t]]]
        /\ UNCHANGED <<calls, flag, seen, barrier, buffer, output, overrun>>

\* What a warp sums of cell c: the sums of all ranks' buffers.
Sum(c) == UNION {buffer[s][c] : s \in Ranks}

Reduce(r, t) ==
    LET mine == <<r, t>>
    IN  /\ pc[r][t] = "reduce"
        /\ IF op(r) = "two_shot"
           THEN buffer' = [buffer EXCEPT ![r][mine] = Sum(mine)] /\ UNCHANGED output
           ELSE /\ output' = [output EXCEPT ![r] = [c \in Cells |->
                                 IF c = mine \/ (op(r) \in OneShot /\ c[2] = t) THEN Sum(c) ELSE @[c]]]
                /\ UNCHANGED buffer
        /\ Goto(r, {t}, "sync2")
        /\ UNCHANGED <<calls, flag, seen, barrier, overrun>>

Gather(r, t) ==
    /\ pc[r][t] = "gather"
    /\ output' = [output EXCEPT ![r] = [c \in Cells |-> IF c[2] = t THEN buffer[c[1]][c] ELSE @[c]]]
    /\ Goto(r, {t}, "done")
    /\ UNCHANGED <<calls, flag, seen, barrier, buffer, overrun>>

Init ==
    /\ calls \in [1..MaxCalls -> Ops]
    /\ flag = [r \in Ranks |-> 0]
    /\ pc = [r \in Ranks |-> [t \in Threads |-> "done"]]
    /\ seen = [r \in Ranks |-> [b \in Blocks |-> {}]]
    /\ barrier = [r \in Ranks |-> [s \in Ranks |-> [f \in Blocks \cup {All} |-> 0]]]
    /\ buffer = [r \in Ranks |-> [c \in Cells |-> {}]]
    /\ output = [r \in Ranks |-> [c \in Cells |-> {}]]
    /\ overrun = [r \in Ranks |-> {}]

AllReturned == \A r \in Ranks : flag[r] = MaxCalls /\ Finished(r)

Step(r) ==
    \/ Call(r)
    \/ \E t \in Threads :
          \/ Copy(r, t) \/ Notify(r, t) \/ Acquired(r, t) \/ Reduce(r, t) \/ Gather(r, t)
          \/ \E s \in Ranks : Acquire(r, t, s)
    \/ \E b \in Blocks : Syncthreads(r, b)

Next == \E r \in Ranks : Step(r)

(* A GPU runs its kernels, with all their blocks resident: at most 24.     *)
Spec == Init /\ [][Next]_vars /\ \A r \in Ranks : WF_vars(Step(r))

-----------------------------------------------------------------------------
(* What a call returns is the sum of what all ranks gave to this call, and *)
(* of nothing else: no rank read a buffer before its owner had filled it,  *)
(* or after the owner had begun the next call.  A small one-shot and a     *)
(* reduce-scatter keep this promise, the others as far as SumsComplete.    *)
Returned(r) == flag[r] > 0 /\ Finished(r)

Wanted(r) == {c \in Cells : c[2] \in Grid(op(r)) /\ (op(r) = "reduce_scatter" => c[1] = r)}

AllReduced ==
    \A r \in Ranks : Returned(r) => \A c \in Wanted(r) : output[r][c] = Given(flag[r])

(* The sums that are complete whatever the ranks call one after another:   *)
(* all of a reduce-scatter; of a one-shot those of the warp that notifies  *)
(* the other ranks; of a two-shot all but the cells that their owner       *)
(* overran, by its next call, before they had been gathered.               *)
SumsComplete ==
    \A r \in Ranks : Returned(r) => \A c \in Wanted(r) :
        \/ output[r][c] = Given(flag[r])
        \/ op(r) \in OneShot /\ c[2] # <<0, 0>>
        \/ op(r) = "two_shot" /\ c \in overrun[r]

(* No rank begins a call before all warps of all ranks have summed for the *)
(* call before: what they read of its buffer is never the next call's.     *)
SummedBeforeNextCall ==
    \A r, s \in Ranks : flag[s] < flag[r] =>
        \A t \in Threads : pc[s][t] \in {"wait2", "sync3", "gather", "done"}

(* Every rank returns from every call: a flag is not overwritten by the    *)
(* next before all that wait for it have seen it, although the waits are   *)
(* for equality, and no rank waits for one that waits for it.              *)
CallsReturn == <>AllReturned
=============================================================================
