------------------------------- MODULE LxuCache -------------------------------
(***************************************************************************)
(* The GPU's L1 cache as its kernels see it: one set of Ways ways, since   *)
(* an index hashes to one set and the sets do not interact.  A cache is a  *)
(* record: the index each way holds (tag), the batch that touched the way  *)
(* last (time) and how many prefetched batches that are not trained yet    *)
(* use it (lock).  SSD training and training with a UVM cache both use it; *)
(* they differ in how misses are given ways.                               *)
(***************************************************************************)
EXTENDS Integers, FiniteSets, FiniteSetsExt

CONSTANTS
    Idx,   \* embedding rows
    NoIdx, \* kCacheStateInvalid
    Ways   \* the ways of the set: 1..associativity

NoWay == 0   \* kCacheLocationMissing

EmptyCache ==
    [tag |-> [w \in Ways |-> NoIdx], time |-> [w \in Ways |-> 0], lock |-> [w \in Ways |-> 0]]

Cached(c) == {c.tag[w] : w \in Ways} \ {NoIdx}

\* The first way that holds x.
Location(c, x) ==
    IF x \in Cached(c) THEN Min({w \in Ways : c.tag[w] = x}) ELSE NoWay

Lookup(c, batch) == [x \in batch |-> Location(c, x)]

(* lru_cache_find_uncached: the ways of the rows of the batch that are     *)
(* cached are stamped with the batch, and locked once per batch.           *)
Touch_LockedOnce(c, batch, now, locking) ==
    LET hit(w) == c.tag[w] \in batch
    IN  [c EXCEPT
            !.time = [w \in Ways |-> IF hit(w) THEN now ELSE @[w]],
            !.lock = [w \in Ways |-> IF locking /\ hit(w) /\ @[w] = 0 THEN 1 ELSE @[w]]]

Touch_LockedEachPass(c, batch, now, locking) ==
    LET hit(w) == c.tag[w] \in batch
    IN  [c EXCEPT
            !.time = [w \in Ways |-> IF hit(w) THEN now ELSE @[w]],
            !.lock = [w \in Ways |-> IF locking /\ hit(w) THEN @[w] + 1 ELSE @[w]]]

Touch(c, batch, now, locking) ==
    LET hit(w) == c.tag[w] \in batch
    IN  [c EXCEPT
            !.time = [w \in Ways |-> IF hit(w) THEN now ELSE @[w]],
            !.lock = [w \in Ways |-> IF locking /\ hit(w) /\ c.time[w] # now
                                     THEN @[w] + 1 ELSE @[w]]]

(* The rows of assigned take their ways, stamped and locked.               *)
Insert(c, assigned, now, locking) ==
    LET taken == {assigned[x] : x \in DOMAIN assigned}
        owner(w) == CHOOSE x \in DOMAIN assigned : assigned[x] = w
    IN  [tag  |-> [w \in Ways |-> IF w \in taken THEN owner(w) ELSE c.tag[w]],
         time |-> [w \in Ways |-> IF w \in taken THEN now ELSE c.time[w]],
         lock |-> [w \in Ways |-> IF locking /\ w \in taken THEN c.lock[w] + 1 ELSE c.lock[w]]]

(* The rows the ways of assigned held: what an insertion evicts.           *)
Evicted_NotWritten(c, assigned) == {}
Evicted(c, assigned) == {c.tag[assigned[x]] : x \in DOMAIN assigned} \ {NoIdx}

(* Ways for k of the rows missed: the k ways of free used longest ago.     *)
(* Which of the rows get them, and in what order, is the sort's business.  *)
OldestWays(c, free, k) ==
    {W \in kSubset(k, free) : \A w \in W, v \in free \ W : c.time[w] <= c.time[v]}

Assignments(missed, W) ==
    UNION {{f \in [S -> W] : \A x, y \in S : f[x] = f[y] => x = y} :
               S \in kSubset(Cardinality(W), missed)}

(* ssd_cache_actions_insert_kernel: a way is unavailable if it is locked   *)
(* or was touched by this batch; the others are taken oldest first.        *)
SSDAssignments_LocksIgnored(c, missed, now, locking) ==
    LET free == {w \in Ways : ~ (c.tag[w] # NoIdx /\ c.time[w] = now)}
        k    == Min({Cardinality(missed), Cardinality(free)})
    IN  UNION {Assignments(missed, W) : W \in OldestWays(c, free, k)}

SSDAssignments(c, missed, now, locking) ==
    LET free == {w \in Ways : /\ ~ (locking /\ c.lock[w] > 0)
                              /\ ~ (c.tag[w] # NoIdx /\ c.time[w] = now)}
        k    == Min({Cardinality(missed), Cardinality(free)})
    IN  UNION {Assignments(missed, W) : W \in OldestWays(c, free, k)}

(* lru_cache_insert_kernel: as many of the oldest ways as there are misses *)
(* are looked at; those locked are passed over, and the scan ends at one   *)
(* this batch touched.                                                     *)
UVMAssignments(c, missed, now, locking) ==
    LET k == Min({Cardinality(missed), Cardinality(Ways)})
        usable(W) == {w \in W : c.time[w] # now /\ ~ (locking /\ c.lock[w] > 0)}
    IN  UNION {Assignments(missed, usable(W)) : W \in OldestWays(c, Ways, k)}

(* lfu_cache_insert_kernel: the missed rows used most are paired with the  *)
(* ways whose rows are used least, and take those not used more than them. *)
LFUAssignments(c, count, missed) ==
    LET cost(w) == IF c.tag[w] = NoIdx THEN -1 ELSE count[c.tag[w]]
        k == Min({Cardinality(missed), Cardinality(Ways)})
        most(S)   == \A x \in S, y \in missed \ S : count[x] >= count[y]
        least(W)  == \A w \in W, v \in Ways \ W : cost(w) <= cost(v)
        sorted(f) == \A x, y \in DOMAIN f :
                         /\ f[x] = f[y] => x = y
                         /\ count[x] > count[y] => cost(f[x]) <= cost(f[y])
        pairings  == UNION {{f \in [S -> W] : sorted(f)} :
                                S \in {T \in kSubset(k, missed) : most(T)},
                                W \in {V \in kSubset(k, Ways) : least(V)}}
        taken(f)  == {x \in DOMAIN f : cost(f[x]) <= count[x]}
    IN  {[x \in taken(f) |-> f[x]] : f \in pairings}

(* lxu_cache_locking_counter_decrement: once for each way the batch used.  *)
Unlock(c, locations) ==
    LET used == {locations[x] : x \in DOMAIN locations}
    IN  [c EXCEPT !.lock = [w \in Ways |-> IF w \in used THEN @[w] - 1 ELSE @[w]]]
=============================================================================
