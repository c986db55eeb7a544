-------------------------- MODULE RawEmbeddingStreamer --------------------------
(***************************************************************************)
(* fbgemm_gpu::RawEmbeddingStreamer, which sends trained rows to a remote  *)
(* store, and its two callers.  Training with a UVM cache queues the GPU   *)
(* work that fills the buffers it streams and a flag that tells when, and  *)
(* calls stream at once.  stream has the buffers copied by a thread of its *)
(* own ("uvm"), copies them before it returns ("uvm_sync"), or queues the  *)
(* buffers themselves ("uvm_live"); the last two are settings of           *)
(* _res_sync_copy and _res_require_copy that nothing in the code chooses.  *)
(* SSD training ("ssd") calls it from host callbacks on its streams, whose *)
(* events make one sequence of them.                                       *)
(*                                                                         *)
(* The updates an iteration makes are one row of the buffers: the iteration*)
(* its index is from and the one its weights are from.  An item is what a  *)
(* copy of the buffers holds.                                              *)
(***************************************************************************)
EXTENDS Integers, Sequences

CONSTANTS
    Callers,   \* callers of the streamer, as above
    MaxIter,   \* bound: iterations streamed
    MaxReady   \* bound: updates streamed that are on the CPU already

Uvm == {"uvm", "uvm_sync", "uvm_live"}

ASSUME StreamerConstants ==
    Callers \subseteq Uvm \cup {"ssd"} /\ MaxIter \in Nat /\ MaxReady \in Nat

Masked == -1   \* the index of a row that is not to be streamed
Live   == -2   \* not copied: what the buffers hold when the item is sent

VARIABLES
    caller,
    next,     \* the iteration the host streams next
    gpu,      \* device work queued: what, and for which iteration
    found,    \* the last lookup found the iteration's row in the cache
    indices,  \* the buffers: where the index
    weights,  \* and the weights in them are from
    flag,     \* copy_done_flag
    copier,   \* stream_tensor_copy_thread_
    copy,     \* the item it is making
    ready,    \* updates streamed without a copy
    queue,    \* weights_to_stream_queue_
    sender,   \* weights_stream_thread_
    sent,     \* items the remote store got
    stop,     \* stop_
    owner,    \* the destructor
    late,     \* history: a poll of the flag timed out
    missed    \* history: iterations whose row a lookup did not find

buffers == <<found, indices, weights, missed>>
host    == <<caller, next>>
threads == <<copier, copy, sender, owner, stop, late>>
vars    == <<host, gpu, buffers, flag, ready, queue, sent, threads>>

Item(i, w) == [index |-> i, weights |-> w]

Work(i, names) == [n \in 1..Len(names) |-> [work |-> names[n], i |-> i]]

Runs(w) == gpu # <<>> /\ Head(gpu).work = w

Joined == copier = "none"

-----------------------------------------------------------------------------
(* The callers.                                                            *)
-----------------------------------------------------------------------------
(* raw_embedding_stream: joins the copy thread, queues the work on the GPU *)
(* and has stream start a copy thread that polls the flag.  With           *)
(* _res_sync_copy the host is what polls and copies: it is not back for    *)
(* the next call, or the destructor, until it has.  With no copy to make   *)
(* there is nothing to join and nothing polled.                            *)
StreamUvm ==
    /\ caller \in Uvm /\ owner = "alive" /\ next <= MaxIter /\ Joined
    /\ gpu' = gpu \o Work(next, <<"lookup", "weights", "indices", "flag">>)
    /\ IF caller = "uvm_live"
       THEN queue' = Append(queue, Item(Live, Live)) /\ copier' = copier
       ELSE copier' = "poll" /\ queue' = queue
    /\ next' = next + 1
    /\ UNCHANGED <<caller, buffers, flag, ready, sent, copy, sender, owner, stop, late>>

(* A prefetch of SSD training, and the backward after it: the callback that*)
(* joins the copy thread, the buffers, the callback that streams them, and *)
(* the one that streams a scratch pad.                                     *)
StreamSsd ==
    /\ caller = "ssd" /\ owner = "alive" /\ next <= MaxIter
    /\ gpu' = gpu \o Work(next, <<"sync", "indices", "lookup", "weights", "stream", "pad">>)
    /\ next' = next + 1
    /\ UNCHANGED <<caller, buffers, flag, ready, queue, sent, threads>>

(* stream of the rows an enrichment has fetched: no copy.                  *)
StreamReady ==
    /\ caller = "ssd" /\ owner = "alive" /\ ready < MaxReady
    /\ queue' = Append(queue, Item(MaxIter + 1, MaxIter + 1))
    /\ ready' = ready + 1
    /\ UNCHANGED <<host, gpu, buffers, flag, sent, threads>>

-----------------------------------------------------------------------------
(* The device, and the callbacks it runs.                                  *)
-----------------------------------------------------------------------------
Done == gpu' = Tail(gpu) /\ UNCHANGED <<host, ready, sent, sender, owner, stop, late>>

(* lxu_cache_lookup of the rows the iteration trained: some of them may    *)
(* have left the cache.                                                    *)
Lookup ==
    /\ Runs("lookup")
    /\ found' \in BOOLEAN
    /\ missed' = IF found' THEN missed ELSE missed \cup {Head(gpu).i}
    /\ Done
    /\ UNCHANGED <<indices, weights, flag, queue, copier, copy>>

(* masked_index_select leaves the weights of a row not found as they are.  *)
Select ==
    /\ Runs("weights")
    /\ weights' = IF found THEN Head(gpu).i ELSE weights
    /\ Done
    /\ UNCHANGED <<found, indices, missed, flag, queue, copier, copy>>

(* UVM training masks the indices of rows not found; SSD training writes   *)
(* them before it looks the rows up.                                       *)
UpdatedIndices_NotMasked(i) == i
UpdatedIndices(i) == IF caller \in Uvm /\ ~ found THEN Masked ELSE i

CopyIndices ==
    /\ Runs("indices")
    /\ indices' = UpdatedIndices(Head(gpu).i)
    /\ Done
    /\ UNCHANGED <<found, weights, missed, flag, queue, copier, copy>>

FillFlag ==
    /\ Runs("flag")
    /\ flag' = 1
    /\ Done
    /\ UNCHANGED <<buffers, queue, copier, copy>>

(* stream_sync_cuda                                                        *)
CanSync == Joined

StreamSync ==
    /\ Runs("sync") /\ CanSync
    /\ Done
    /\ UNCHANGED <<buffers, flag, queue, copier, copy>>

(* stream_cuda, not blocking: it joins the copy thread and starts another. *)
StreamCallback ==
    /\ Runs("stream") /\ Joined
    /\ copier' = "copy"
    /\ Done
    /\ UNCHANGED <<buffers, flag, queue, copy>>

(* stream_cuda, blocking: the callback copies the scratch pad itself.      *)
StreamPad ==
    /\ Runs("pad")
    /\ queue' = Append(queue, Item(Head(gpu).i, Head(gpu).i))
    /\ Done
    /\ UNCHANGED <<buffers, flag, copier, copy>>

-----------------------------------------------------------------------------
(* The copy thread.                                                        *)
-----------------------------------------------------------------------------
Poll ==
    /\ copier = "poll" /\ flag # 0
    /\ copier' = "reset"
    /\ UNCHANGED <<host, gpu, buffers, flag, ready, queue, sent, copy, sender, owner, stop, late>>

(* After ten seconds of polling, for a GPU that is that much behind.       *)
PollTimesOut ==
    /\ copier = "poll" /\ flag = 0
    /\ copier' = "none"
    /\ late' = TRUE
    /\ UNCHANGED <<host, gpu, buffers, flag, ready, queue, sent, copy, sender, owner, stop>>

AfterReset_None == flag
AfterReset == 0

Reset ==
    /\ copier = "reset"
    /\ flag' = AfterReset
    /\ copier' = "copy"
    /\ UNCHANGED <<host, gpu, buffers, ready, queue, sent, copy, sender, owner, stop, late>>

(* tensor_copy: the indices, then the weights.                             *)
CopyFirst ==
    /\ copier = "copy"
    /\ copy' = Item(indices, copy.weights)
    /\ copier' = "weights"
    /\ UNCHANGED <<host, gpu, buffers, flag, ready, queue, sent, sender, owner, stop, late>>

CopySecond ==
    /\ copier = "weights"
    /\ copy' = Item(copy.index, weights)
    /\ copier' = "enqueue"
    /\ UNCHANGED <<host, gpu, buffers, flag, ready, queue, sent, sender, owner, stop, late>>

Enqueue ==
    /\ copier = "enqueue"
    /\ queue' = Append(queue, copy)
    /\ copier' = "none"
    /\ UNCHANGED <<host, gpu, buffers, flag, ready, sent, copy, sender, owner, stop, late>>

-----------------------------------------------------------------------------
(* The stream thread: it stops between items only.                         *)
-----------------------------------------------------------------------------
LeavesLoop_NeverAsked == FALSE
LeavesLoop == stop

Peek ==
    /\ sender = "loop"
    /\ \/ LeavesLoop /\ sender' = "exit"
       \/ ~ stop /\ queue # <<>> /\ sender' = "peeked"
    /\ UNCHANGED <<host, gpu, buffers, flag, ready, queue, sent, copier, copy, owner, stop, late>>

CheckStop ==
    /\ sender = "peeked"
    /\ sender' = IF stop THEN "exit" ELSE "send"
    /\ UNCHANGED <<host, gpu, buffers, flag, ready, queue, sent, copier, copy, owner, stop, late>>

(* tensor_stream reads the indices before the weights, here of an item that*)
(* is the buffers themselves.                                              *)
ReadLive ==
    /\ sender = "send" /\ Head(queue).index = Live
    /\ queue' = [queue EXCEPT ![1].index = indices]
    /\ UNCHANGED <<host, gpu, buffers, flag, ready, sent, threads>>

Read(item) == IF item.weights = Live THEN Item(item.index, weights) ELSE item

(* tensor_stream, which skips masked indices, and the dequeue.             *)
Send ==
    /\ sender = "send" /\ Head(queue).index # Live
    /\ sent' = IF Head(queue).index = Masked THEN sent ELSE Append(sent, Read(Head(queue)))
    /\ queue' = Tail(queue)
    /\ sender' = "loop"
    /\ UNCHANGED <<host, gpu, buffers, flag, ready, copier, copy, owner, stop, late>>

(* An error of the remote store leaves the thread as an exception: the     *)
(* process terminates.                                                     *)
SendThrows ==
    /\ sender = "send"
    /\ sender' = "terminated"
    /\ UNCHANGED <<host, gpu, buffers, flag, ready, queue, sent, copier, copy, owner, stop, late>>

-----------------------------------------------------------------------------
(* The destructor.  Callbacks hold a reference to the streamer's owner, and*)
(* the host does not drop it inside a call.                                *)
-----------------------------------------------------------------------------
Destroy ==
    /\ owner = "alive"
    /\ caller = "ssd" => gpu = <<>>
    /\ caller = "uvm_sync" => Joined
    /\ stop' = TRUE
    /\ owner' = "join_copy"
    /\ UNCHANGED <<host, gpu, buffers, flag, ready, queue, sent, copier, copy, sender, late>>

Join ==
    /\ \/ owner = "join_copy" /\ Joined /\ owner' = "join_stream"
       \/ owner = "join_stream" /\ sender = "exit" /\ owner' = "gone"
    /\ UNCHANGED <<host, gpu, buffers, flag, ready, queue, sent, copier, copy, sender, stop, late>>

-----------------------------------------------------------------------------
Init ==
    /\ caller \in Callers /\ next = 1 /\ gpu = <<>>
    /\ found = FALSE /\ indices = 0 /\ weights = 0 /\ flag = 0
    /\ copier = "none" /\ copy = Item(0, 0) /\ ready = 0
    /\ queue = <<>> /\ sender = "loop" /\ sent = <<>>
    /\ stop = FALSE /\ owner = "alive" /\ late = FALSE /\ missed = {}

Terminated == sender = "terminated"

Device    == Lookup \/ Select \/ CopyIndices \/ FillFlag \/ StreamSync \/ StreamCallback \/ StreamPad
Copier    == Poll \/ Reset \/ CopyFirst \/ CopySecond \/ Enqueue
Sender    == Peek \/ CheckStop \/ ReadLive \/ Send

Next ==
    /\ ~ Terminated
    /\ \/ StreamUvm \/ StreamSsd \/ StreamReady \/ Device
       \/ Copier \/ PollTimesOut \/ Sender \/ SendThrows
       \/ Destroy \/ Join

Running(A) == ~ Terminated /\ A

(* The device and the threads go on, and the polling thread does time out  *)
(* if the flag never comes.                                                *)
Fairness ==
    /\ WF_vars(Running(Device)) /\ WF_vars(Running(Copier)) /\ WF_vars(Running(PollTimesOut))
    /\ WF_vars(Running(Sender)) /\ WF_vars(Running(Join))

Spec == Init /\ [][Next]_vars /\ Fairness

-----------------------------------------------------------------------------
(* The weights streamed with an index are those of that index, of the      *)
(* iteration it was streamed for: no copy is of buffers that the device is *)
(* filling for another iteration.  A poll that timed out ends this for     *)
(* good, as its iteration's flag is then taken for the next one's.  UVM    *)
(* training masks the index of a row it did not find; SSD training streams *)
(* the index of such a row with what the buffer held before, which breaks  *)
(* no other pair.  Without copies the buffers themselves are queued.       *)
PairedUnlessMissed ==
    late \/ caller = "uvm_live" \/
        \A n \in DOMAIN queue :
            \/ queue[n].index \in {Masked, queue[n].weights}
            \/ caller = "ssd" /\ queue[n].index \in missed

(* Every iteration's rows that are still cached and are copied reach the   *)
(* remote store, unless the streamer is destroyed first or an error ends   *)
(* it: an item is neither skipped nor left in the queue.                   *)
UpdatesReachRemote ==
    \A i \in 1..MaxIter :
        (indices = i /\ found /\ ~ late /\ caller # "uvm_live") ~>
            (late \/ stop \/ Terminated \/ \E n \in DOMAIN sent : sent[n].index = i)

(* The destructor returns, also when the copy thread polls a flag that the *)
(* device has yet to set, or never will.                                   *)
DestructorReturns == stop ~> (owner = "gone" \/ Terminated)
=============================================================================
