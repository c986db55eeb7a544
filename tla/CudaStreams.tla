----------------------------- MODULE CudaStreams -----------------------------
(***************************************************************************)
(* CUDA streams as the host uses them: it queues work on them and runs     *)
(* ahead.  A stream does its work in order, and a piece of work starts     *)
(* when what it waits for on other streams is done.  A wait on an event or *)
(* on a stream is a wait on a place: how much of a stream has to be done.  *)
(***************************************************************************)
EXTENDS Integers, Sequences

VARIABLES
    todo,  \* work queued on each stream
    ran    \* pieces of work each stream has done

streams == <<todo, ran>>

\* w for batch i; k is another batch it is about, after the places it waits for.
Work(w, i, k, after) == [work |-> w, i |-> i, k |-> k, after |-> after]

\* What record_event and wait_stream mean: all that is queued on s now.
End(s) == ran[s] + Len(todo[s])
Start  == <<"main", 0>>

Runs(s, w) ==
    /\ todo[s] # <<>>
    /\ Head(todo[s]).work = w
    /\ \A p \in Head(todo[s]).after : ran[p[1]] >= p[2]

Finish(s) ==
    /\ todo' = [todo EXCEPT ![s] = Tail(@)]
    /\ ran' = [ran EXCEPT ![s] = @ + 1]

Idle == \A s \in DOMAIN todo : todo[s] = <<>>

StreamsInit(S) == todo = [s \in S |-> <<>>] /\ ran = [s \in S |-> 0]
=============================================================================
