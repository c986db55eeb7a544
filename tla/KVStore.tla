-------------------------------- MODULE KVStore --------------------------------
(***************************************************************************)
(* What EmbeddingKVDB promises its callers: a key-value store whose get    *)
(* and set take effect at one instant between the call and its return, and *)
(* whose flush returns only when everything set so far is durable.  Values *)
(* may become durable earlier, each no newer than the store and never      *)
(* older than what was durable before.                                     *)
(***************************************************************************)
EXTENDS Integers

CONSTANTS Clients, Keys, Versions, Absent

VARIABLES call,     \* the call of each client: "none", "get", "set", "flush"
          done,     \* the call has taken effect
          args,     \* the indices of the call
          pending,  \* the rows of a set that has not taken effect
          reply,    \* the rows a get answers
          store,    \* the newest row of each index
          durable   \* the row a snapshot of the storage would hold

vars == <<call, done, args, pending, reply, store, durable>>

NoRows == [k \in Keys |-> Absent]
Select(f, K) == [k \in Keys |-> IF k \in K THEN f[k] ELSE Absent]

Init ==
    /\ call = [c \in Clients |-> "none"]
    /\ done = [c \in Clients |-> FALSE]
    /\ args = [c \in Clients |-> {}]
    /\ pending = [c \in Clients |-> NoRows]
    /\ reply = [c \in Clients |-> NoRows]
    /\ store = [k \in Keys |-> 0]
    /\ durable = store

Request(c, kind, K, batch) ==
    /\ call[c] = "none"
    /\ call' = [call EXCEPT ![c] = kind]
    /\ args' = [args EXCEPT ![c] = K]
    /\ pending' = [pending EXCEPT ![c] = batch]
    /\ UNCHANGED <<done, reply, store, durable>>

Get(c) ==
    /\ call[c] = "get" /\ ~done[c]
    /\ done' = [done EXCEPT ![c] = TRUE]
    /\ reply' = [reply EXCEPT ![c] = Select(store, args[c])]
    /\ UNCHANGED <<call, args, pending, store, durable>>

Set(c) ==
    /\ call[c] = "set" /\ ~done[c]
    /\ done' = [done EXCEPT ![c] = TRUE]
    /\ store' = [k \in Keys |-> IF k \in args[c] THEN pending[c][k] ELSE store[k]]
    /\ pending' = [pending EXCEPT ![c] = NoRows]
    /\ UNCHANGED <<call, args, reply, durable>>

Flush(c) ==
    /\ call[c] = "flush" /\ ~done[c]
    /\ durable = store
    /\ done' = [done EXCEPT ![c] = TRUE]
    /\ UNCHANGED <<call, args, pending, reply, store, durable>>

Reply(c) ==
    /\ call[c] # "none" /\ done[c]
    /\ call' = [call EXCEPT ![c] = "none"]
    /\ done' = [done EXCEPT ![c] = FALSE]
    /\ args' = [args EXCEPT ![c] = {}]
    /\ reply' = [reply EXCEPT ![c] = NoRows]
    /\ UNCHANGED <<pending, store, durable>>

Persist ==
    /\ durable' # durable
    /\ \A k \in Keys : durable[k] <= durable'[k] /\ durable'[k] <= store[k]
    /\ DOMAIN durable' = Keys
    /\ UNCHANGED <<call, done, args, pending, reply, store>>

Next ==
    \/ Persist
    \/ \E c \in Clients :
          \/ Get(c) \/ Set(c) \/ Flush(c) \/ Reply(c)
          \/ \E K \in SUBSET Keys :
                \/ Request(c, "get", K, NoRows)
                \/ Request(c, "flush", {}, NoRows)
                \/ \E v \in Versions : Request(c, "set", K, Select([k \in Keys |-> v], K))

Spec == Init /\ [][Next]_vars
=============================================================================
