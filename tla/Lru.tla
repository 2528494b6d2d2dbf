-------------------------------- MODULE Lru --------------------------------
(***************************************************************************)
(* The sharded LRU of pingora-lru (lib.rs) under concurrent callers, and   *)
(* the way the eviction manager of pingora-cache (eviction/lru.rs) calls   *)
(* it.                                                                     *)
(*                                                                         *)
(* A shard (LruUnit) is a lookup table and a list behind a RwLock.  The    *)
(* list is the sequence of its keys, most recent first: what LinkedList    *)
(* implements.                                                             *)
(* The totals (weight, len, shard_lens, the eviction statistics) are       *)
(* separate atomics.  Some operations update them while they hold the      *)
(* shard, others after they let it go; so an operation is one step on the  *)
(* shard, which leaves the thread a list of atomic updates to make         *)
(* (`todo') and the set of shards it still holds (`held'), then one step   *)
(* for each update, then the release.  The totals are unsigned and wrap    *)
(* (% Wrap).                                                               *)
(*                                                                         *)
(* A thread makes the calls of its program in order.  The data an entry    *)
(* carries is only seen by the callers' predicates, whose answer is        *)
(* nondeterministic.                                                       *)
(***************************************************************************)
EXTENDS Integers, Sequences, FiniteSets, SequencesExt, FiniteSetsExt, Functions

CONSTANTS
    Threads,
    N,            \* number of shards
    WeightLimit,  \* the limit at the start
    Watermark,    \* len_watermark; NoWatermark for None
    NoWatermark,
    Wrap,         \* the totals count modulo Wrap
    Setups        \* [calls |-> what each thread calls, load |-> the entries at the start]

\* What the constants are taken to be.
ConstantsOK == N \in Nat \ {0} /\ Wrap \in Nat \ {0, 1}

VARIABLES
    unit,         \* shard -> [list, table, used]: LruUnit
    weight, len, shardLens, evictedWeight, evictedLen, weightLimit,
    th            \* thread -> the call it is in and what is left of its program

vars == <<unit, weight, len, shardLens, evictedWeight, evictedLen, weightLimit, th>>

totals == <<weight, len, shardLens, evictedWeight, evictedLen, weightLimit>>

ShardIds == 0..(N - 1)

GetShard(key) == key % N

Floor1(w) == IF w > 1 THEN w ELSE 1

Less(a, b) == IF a < b THEN a ELSE b

\* saturating_sub
Minus(a, b) == IF a > b THEN a - b ELSE 0

-----------------------------------------------------------------------------
(* LruUnit: what each method leaves of a shard.                            *)

EmptyUnit == [order |-> <<>>, table |-> <<>>, used |-> 0]

Has(u, key) == key \in DOMAIN u.table

\* adjust_weight
AdjustWeight(u, key, w) == [u EXCEPT !.table[key] = w, !.used = @ + w - u.table[key]]

Without(order, key) == SelectSeq(order, LAMBDA k : k # key)

\* access: promote the node to the head.
Access(u, key) == [u EXCEPT !.order = <<key>> \o Without(@, key)]

\* An entry that is pushed at one end; the caller knows the key is missing.
Pushed(u, key, w, atHead) ==
    [order |-> IF atHead THEN <<key>> \o u.order ELSE Append(u.order, key),
     table |-> u.table @@ (key :> w),
     used |-> u.used + w]

UnitAdmit(u, key, w) ==
    IF Has(u, key) THEN Access(AdjustWeight(u, key, w), key) ELSE Pushed(u, key, w, TRUE)

UnitRemove(u, key) ==
    [order |-> Without(u.order, key),
     table |-> RestrictDomain(u.table, LAMBDA k : k # key),
     used |-> u.used - u.table[key]]

Present(us, key) == Has(us[GetShard(key)], key)

WeightIn(us, key) == IF Present(us, key) THEN us[GetShard(key)].table[key] ELSE 0

IsEmpty(u) == u.order = <<>>

\* evict takes the tail of the list, and the table entry of the key it holds.
Oldest(u) == Last(u.order)

-----------------------------------------------------------------------------
(* The atomic updates an operation leaves to make.                         *)

W(d) == [weight |-> d, shard |-> 0, len |-> 0, evicted |-> 0, evictedWeight |-> 0]

\* incr_count and decr_count.  Nothing reads shard_lens or the statistics but to
\* pick any shard or to report them, so they move together with len.
CountChange(s, d) == [weight |-> 0, shard |-> s, len |-> d, evicted |-> 0, evictedWeight |-> 0]

IncrCount(s) == <<CountChange(s, 1)>>

DecrCount(s) == <<CountChange(s, -1)>>

\* The counts of an eviction of weight w.
EvictedCount(s, w) == <<[CountChange(s, -1) EXCEPT !.evicted = 1, !.evictedWeight = w]>>

ApplyWeightChange(old, new) == IF old = new THEN <<>> ELSE <<W(new - old)>>

\* update_if and upsert_if: the new weight is added, then the old one taken off.
TwoUpdates(old, new) == IF old = new THEN <<>> ELSE <<W(new), W(0 - old)>>

Mod(x) == x % Wrap

-----------------------------------------------------------------------------
Idle == [pc |-> "idle", todo |-> <<>>, held |-> {}, then |-> "idle",
         initialWeight |-> 0, initialLen |-> 0, limit |-> 0, start |-> 0, shard |-> 0]

Loaded(load) ==
    FoldLeft(LAMBDA us, e : [us EXCEPT ![GetShard(e.key)] = Pushed(@, e.key, e.weight, FALSE)],
             [s \in ShardIds |-> EmptyUnit], load)

UsedOf(us) == SumFunction([s \in ShardIds |-> us[s].used])

LenOf(us) == SumFunction([s \in ShardIds |-> Cardinality(DOMAIN us[s].table)])

\* Lru::with_capacity_and_watermark, then the entries a load brought back.
Init ==
    \E s \in Setups :
       /\ unit = Loaded(s.load)
       /\ weight = UsedOf(Loaded(s.load))
       /\ len = LenOf(Loaded(s.load))
       /\ shardLens = [i \in ShardIds |-> Cardinality(DOMAIN Loaded(s.load)[i].table)]
       /\ evictedWeight = 0 /\ evictedLen = 0
       /\ weightLimit = WeightLimit
       /\ th = [t \in Threads |-> [calls |-> s.calls[t], at |-> 1] @@ Idle]

\* No thread holds the shard.
Free(s) == \A t \in Threads : s \notin th[t].held

Returned(t) == th[t].pc = "idle" /\ th[t].at > Len(th[t].calls)

Arg(t) == th[t].calls[th[t].at]

Call(t, op) == th[t].pc = "idle" /\ ~Returned(t) /\ Arg(t).op = op

\* The step of thread t on shard s: the shard becomes u; the totals are updated
\* by todo, under the shard's lock when `locked'; then the call goes on at pc.
Does(t, s, u, todo, locked, pc) ==
    /\ unit' = [unit EXCEPT ![s] = u]
    /\ th' = [th EXCEPT ![t].pc = "count", ![t].todo = todo,
                        ![t].held = IF locked THEN {s} ELSE {}, ![t].then = pc,
                        ![t].at = @ + 1]
    /\ UNCHANGED totals

\* The manager's admit and increment_weight go on to evict_to_limit.
After(c) == IF c.evict THEN "weight" ELSE "idle"

\* admit takes an old weight of 0 for a new item, though insert_tail may have left
\* an entry of that weight: it is counted again.
Admit(t) ==
    /\ Call(t, "admit") /\ Free(GetShard(Arg(t).key))
    /\ LET c == Arg(t)
           s == GetShard(c.key)
           w == Floor1(c.weight)
           old == WeightIn(unit, c.key)
       IN  Does(t, s, UnitAdmit(unit[s], c.key, w),
                IF old > 0 THEN ApplyWeightChange(old, w) ELSE <<W(w)>> \o IncrCount(s),
                TRUE, After(c))

IncrementWeight(t) ==
    /\ Call(t, "increment") /\ Free(GetShard(Arg(t).key))
    /\ LET c == Arg(t)
           s == GetShard(c.key)
           old == unit[s].table[c.key]
           new == Max({Less(old + c.weight, c.max), old})
           w == Floor1(Less(c.weight, c.max))
       IN  IF Has(unit[s], c.key)
           THEN Does(t, s, UnitAdmit(unit[s], c.key, new), <<W(new - old)>>, TRUE, After(c))
           ELSE Does(t, s, UnitAdmit(unit[s], c.key, w), <<W(w)>> \o IncrCount(s), TRUE, After(c))

\* update_or_admit (one weight update) and upsert_if (two, and a predicate that
\* may reject an entry that exists).
UpdateOrAdmit(t) ==
    /\ Call(t, "update_or_admit") /\ Free(GetShard(Arg(t).key))
    /\ LET c == Arg(t)
           s == GetShard(c.key)
           w == Floor1(c.weight)
       IN  Does(t, s, UnitAdmit(unit[s], c.key, w),
                IF Has(unit[s], c.key) THEN ApplyWeightChange(unit[s].table[c.key], w)
                ELSE <<W(w)>> \o IncrCount(s), TRUE, After(c))

UpsertIf(t) ==
    /\ Call(t, "upsert_if") /\ Free(GetShard(Arg(t).key))
    /\ LET c == Arg(t)
           s == GetShard(c.key)
           w == Floor1(c.weight)
       IN  \/ Has(unit[s], c.key) /\ Does(t, s, unit[s], <<>>, TRUE, After(c))
           \/ Does(t, s, UnitAdmit(unit[s], c.key, w),
                   IF Has(unit[s], c.key) THEN TwoUpdates(unit[s].table[c.key], w)
                   ELSE <<W(w)>> \o IncrCount(s), TRUE, After(c))

\* update_if: nothing when the key is missing or rejected; promotes on request.
UpdateIf(t) ==
    /\ Call(t, "update_if") /\ Free(GetShard(Arg(t).key))
    /\ LET c == Arg(t)
           s == GetShard(c.key)
           w == Floor1(c.weight)
           u == AdjustWeight(unit[s], c.key, w)
       IN  \/ Does(t, s, unit[s], <<>>, TRUE, After(c))
           \/ /\ Has(unit[s], c.key)
              /\ \E promote \in BOOLEAN :
                    Does(t, s, IF promote THEN Access(u, c.key) ELSE u,
                         TwoUpdates(unit[s].table[c.key], w), TRUE, After(c))

\* set_weight, and set_weight_if_unchanged with the weight it expects.
SetWeight(t) ==
    /\ Call(t, "set_weight") /\ Free(GetShard(Arg(t).key))
    /\ LET c == Arg(t)
           s == GetShard(c.key)
           w == Floor1(c.weight)
           matches == Has(unit[s], c.key) /\ c.expected \in {0, unit[s].table[c.key]}
       IN  IF matches
           THEN Does(t, s, AdjustWeight(unit[s], c.key, w),
                     ApplyWeightChange(unit[s].table[c.key], w), TRUE, After(c))
           ELSE Does(t, s, unit[s], <<>>, TRUE, After(c))

\* promote; the manager's access admits a key it cannot promote, and evicts
\* nothing then.
PromoteKey(t) ==
    /\ Call(t, "promote") /\ Free(GetShard(Arg(t).key))
    /\ LET c == Arg(t)
           s == GetShard(c.key)
       IN  IF Has(unit[s], c.key)
           THEN Does(t, s, Access(unit[s], c.key), <<>>, TRUE, "idle")
           ELSE /\ th' = IF c.access
                         THEN [th EXCEPT ![t].calls[th[t].at].op = "admit"]
                         ELSE [th EXCEPT ![t].at = @ + 1]
                /\ UNCHANGED <<unit, totals>>

\* promote_top_n: a look under the read lock, then, if the key is not near the
\* head, a promotion under the write lock.
NeedPromote(t) ==
    /\ Call(t, "promote_top_n") /\ Free(GetShard(Arg(t).key))
    /\ LET c == Arg(t)
           order == unit[GetShard(c.key)].order
       IN  th' = IF \E i \in 1..Less(c.top, Len(order)) : order[i] = c.key
                 THEN [th EXCEPT ![t].at = @ + 1]
                 ELSE [th EXCEPT ![t].calls[th[t].at].op = "promote"]
    /\ UNCHANGED <<unit, totals>>

\* remove: the totals follow after the shard is let go.
RemoveKey(t) ==
    /\ Call(t, "remove") /\ Free(GetShard(Arg(t).key))
    /\ LET c == Arg(t)
           s == GetShard(c.key)
       IN  IF Has(unit[s], c.key)
           THEN Does(t, s, UnitRemove(unit[s], c.key),
                     <<W(0 - unit[s].table[c.key])>> \o DecrCount(s), FALSE, "idle")
           ELSE Does(t, s, unit[s], <<>>, FALSE, "idle")

\* remove_matching (remove_if, remove_if_weight, evict_if): under the lock.
RemoveMatching(t) ==
    /\ Call(t, "remove_if") /\ Free(GetShard(Arg(t).key))
    /\ LET c == Arg(t)
           s == GetShard(c.key)
       IN  \/ Does(t, s, unit[s], <<>>, TRUE, "idle")
           \/ /\ Has(unit[s], c.key)
              /\ \E counted \in BOOLEAN :
                    Does(t, s, UnitRemove(unit[s], c.key),
                         <<W(0 - unit[s].table[c.key])>>
                         \o IF counted THEN EvictedCount(s, unit[s].table[c.key]) ELSE DecrCount(s),
                         TRUE, "idle")

\* An insert_tail that overwrites the entry it finds and counts it again.
InsertTail_Twice(t) ==
    /\ Call(t, "insert_tail") /\ Free(GetShard(Arg(t).key))
    /\ LET c == Arg(t)
           s == GetShard(c.key)
       IN  Does(t, s, IF Has(unit[s], c.key) THEN AdjustWeight(unit[s], c.key, c.weight)
                      ELSE Pushed(unit[s], c.key, c.weight, FALSE),
                <<W(c.weight)>> \o IncrCount(s), FALSE, "idle")

\* insert_tail: the totals follow after the shard is let go, and the weight is
\* not floored.
InsertTail(t) ==
    /\ Call(t, "insert_tail") /\ Free(GetShard(Arg(t).key))
    /\ LET c == Arg(t)
           s == GetShard(c.key)
       IN  IF Has(unit[s], c.key) THEN Does(t, s, unit[s], <<>>, FALSE, "idle")
           ELSE Does(t, s, Pushed(unit[s], c.key, c.weight, FALSE),
                     <<W(c.weight)>> \o IncrCount(s), FALSE, "idle")

\* select_lru_if: rejected entries go to the head, and so does the one selected.
SelectLruIf(t) ==
    /\ Call(t, "select_lru") /\ Free(GetShard(Arg(t).key))
    /\ LET s == GetShard(Arg(t).key)
           Rotate(u, i) == Access(u, Oldest(u))
           most == Less(Arg(t).top, Cardinality(DOMAIN unit[s].table))
       IN  \E n \in Less(1, most)..most :
              Does(t, s, FoldLeft(Rotate, unit[s], [i \in 1..n |-> i]), <<>>, TRUE, "idle")

-----------------------------------------------------------------------------
(* mutate_pair: both shards are locked, the lower index first.             *)

Shards2(c) == {GetShard(c.key), GetShard(c.other)}

LockLow(t) ==
    /\ Call(t, "mutate_pair") /\ Arg(t).key # Arg(t).other
    /\ Free(Min(Shards2(Arg(t)))) /\ th[t].held = {}
    /\ th' = [th EXCEPT ![t].pc = "pair", ![t].held = {Min(Shards2(Arg(t)))}]
    /\ UNCHANGED <<unit, totals>>

\* One key of the pair: removed when its new weight is 0, inserted at the chosen
\* end or updated in place otherwise.
Put(us, key, w, atHead) ==
    LET s == GetShard(key)
    IN  IF w = 0 THEN IF Has(us[s], key) THEN [us EXCEPT ![s] = UnitRemove(@, key)] ELSE us
        ELSE IF Has(us[s], key) THEN [us EXCEPT ![s] = AdjustWeight(@, key, w)]
        ELSE [us EXCEPT ![s] = Pushed(@, key, w, atHead)]

\* `existed' decides what is counted, not the old weight.
CountOf(us, key, w) ==
    IF Present(us, key) THEN IF w = 0 THEN DecrCount(GetShard(key)) ELSE <<>>
    ELSE IF w = 0 THEN <<>> ELSE IncrCount(GetShard(key))

\* The weights a callback may give the two keys, 0 to remove one (None): it moves
\* the first into the second, or sets the first.  A weight it keeps is floored.
Given(us, c) ==
    LET keep(key, extra) == IF Present(us, key) \/ extra > 0
                            THEN Floor1(WeightIn(us, key) + extra) ELSE 0
    IN  {<<0, keep(c.other, WeightIn(us, c.key))>>, <<Floor1(c.weight), keep(c.other, 0)>>}

\* Increases are added before decreases are taken off.
MutatePair(t) ==
    /\ th[t].pc = "pair"
    /\ \A s \in Shards2(Arg(t)) \ th[t].held : Free(s)
    /\ LET c == Arg(t)
           old1 == WeightIn(unit, c.key)
           old2 == WeightIn(unit, c.other)
       IN  \E atHead \in BOOLEAN, give \in Given(unit, c) :
              /\ unit' = Put(Put(unit, c.key, give[1], atHead), c.other, give[2], atHead)
              /\ th' = [th EXCEPT
                    ![t].pc = "count", ![t].held = Shards2(c), ![t].then = "idle",
                    ![t].at = @ + 1,
                    ![t].todo = <<W(Minus(give[1], old1)), W(Minus(give[2], old2))>>
                                \o CountOf(unit, c.key, give[1]) \o CountOf(unit, c.other, give[2])
                                \o <<W(0 - Minus(old1, give[1])), W(0 - Minus(old2, give[2]))>>]
    /\ UNCHANGED totals

-----------------------------------------------------------------------------
(* One atomic update of a total, and the end of the operation.             *)

Count(t) ==
    /\ th[t].pc = "count" /\ th[t].todo # <<>>
    /\ LET a == Head(th[t].todo)
       IN  /\ weight' = Mod(weight + a.weight)
           /\ len' = Mod(len + a.len)
           /\ shardLens' = [shardLens EXCEPT ![a.shard] = Mod(@ + a.len)]
           /\ evictedWeight' = Mod(evictedWeight + a.evictedWeight)
           /\ evictedLen' = Mod(evictedLen + a.evicted)
    /\ th' = [th EXCEPT ![t].todo = Tail(@)]
    /\ UNCHANGED <<unit, weightLimit>>

Unlock(t) ==
    /\ th[t].pc = "count" /\ th[t].todo = <<>>
    /\ th' = [th EXCEPT ![t].pc = th[t].then, ![t].held = {}, ![t].then = "idle"]
    /\ UNCHANGED <<unit, totals>>

-----------------------------------------------------------------------------
(* evict_to_limit: one step for each load of a total and for each probe.   *)

LoadWeight(t) ==
    /\ th[t].pc = "weight"
    /\ th' = [th EXCEPT ![t].pc = "len", ![t].initialWeight = weight]
    /\ UNCHANGED <<unit, totals>>

LoadLen(t) ==
    /\ th[t].pc = "len"
    /\ th' = [th EXCEPT ![t].pc = "limit", ![t].initialLen = len]
    /\ UNCHANGED <<unit, totals>>

LoadLimit(t) ==
    /\ th[t].pc = "limit"
    /\ th' = [th EXCEPT ![t].pc = "check", ![t].limit = weightLimit]
    /\ UNCHANGED <<unit, totals>>

\* The condition of the loop: the first disjunct loads weight, and only when it
\* fails does the second load len.  Two random picks may name the same shard, so
\* any shard can be the one to start from.
CheckWeight(t) ==
    /\ th[t].pc = "check"
    /\ IF th[t].initialWeight > th[t].limit /\ weight > th[t].limit
       THEN \E s \in ShardIds : th' = [th EXCEPT ![t].pc = "probe", ![t].start = s, ![t].shard = s]
       ELSE th' = [th EXCEPT ![t].pc = "watermark"]
    /\ UNCHANGED <<unit, totals>>

CheckLen(t) ==
    /\ th[t].pc = "watermark"
    /\ IF Watermark # NoWatermark /\ th[t].initialLen > Watermark /\ len > Watermark
       THEN \E s \in ShardIds : th' = [th EXCEPT ![t].pc = "probe", ![t].start = s, ![t].shard = s]
       ELSE th' = [th EXCEPT ![t] = Idle @@ @]
    /\ UNCHANGED <<unit, totals>>

\* evict_shard_at: the totals follow after the shard is let go.  An empty shard
\* sends the probe to the next one, and back at the start the loop ends.
EvictShardAt(t) ==
    /\ th[t].pc = "probe" /\ Free(th[t].shard)
    /\ LET s == th[t].shard
           w == unit[s].table[Oldest(unit[s])]
       IN  IF ~IsEmpty(unit[s])
           THEN /\ unit' = [unit EXCEPT ![s] = UnitRemove(@, Oldest(@))]
                /\ th' = [th EXCEPT ![t].pc = "count", ![t].then = "check",
                            ![t].todo = <<W(0 - w)>> \o EvictedCount(s, w),
                            ![t].initialWeight = Minus(@, w), ![t].initialLen = Minus(@, 1)]
           ELSE /\ th' = [th EXCEPT ![t] = IF (s + 1) % N = th[t].start
                                            THEN Idle @@ @
                                            ELSE [@ EXCEPT !.shard = (s + 1) % N]]
                /\ UNCHANGED unit
    /\ UNCHANGED totals

\* evict_shard: one item of one shard, whatever the totals say.
EvictShard(t) ==
    /\ Call(t, "evict_shard") /\ Free(GetShard(Arg(t).key))
    /\ LET s == GetShard(Arg(t).key)
           w == unit[s].table[Oldest(unit[s])]
       IN  IF IsEmpty(unit[s]) THEN Does(t, s, unit[s], <<>>, FALSE, "idle")
           ELSE Does(t, s, UnitRemove(unit[s], Oldest(unit[s])),
                     <<W(0 - w)>> \o EvictedCount(s, w), FALSE, "idle")

\* set_weight_limit: a store, which evicts nothing by itself.
SetWeightLimit(t) ==
    /\ Call(t, "set_weight_limit")
    /\ weightLimit' = Arg(t).weight
    /\ th' = [th EXCEPT ![t].at = @ + 1]
    /\ UNCHANGED <<unit, weight, len, shardLens, evictedWeight, evictedLen>>

Done == \A t \in Threads : Returned(t)

Finished == Done /\ UNCHANGED vars

Step(t) ==
    \/ Admit(t) \/ IncrementWeight(t) \/ UpdateOrAdmit(t) \/ UpsertIf(t) \/ UpdateIf(t)
    \/ SetWeight(t) \/ PromoteKey(t) \/ NeedPromote(t) \/ RemoveKey(t) \/ RemoveMatching(t)
    \/ InsertTail(t) \/ SelectLruIf(t) \/ LockLow(t) \/ MutatePair(t) \/ Count(t) \/ Unlock(t)
    \/ LoadWeight(t) \/ LoadLen(t) \/ LoadLimit(t) \/ CheckWeight(t) \/ CheckLen(t)
    \/ EvictShardAt(t) \/ EvictShard(t) \/ SetWeightLimit(t)

Next == (\E t \in Threads : Step(t)) \/ Finished

Spec == Init /\ [][Next]_vars

-----------------------------------------------------------------------------
\* Table and list are 1:1 in every shard (LruUnit::evict unwraps on it: `we
\* always insert in both the hashtable and the list'), no key is listed twice,
\* and used_weight is the sum of the weights.
UnitsExact ==
    \A s \in ShardIds :
       /\ IsInjective(unit[s].order) /\ ToSet(unit[s].order) = DOMAIN unit[s].table
       /\ unit[s].used = SumFunction(unit[s].table)

Pending(Of(_)) ==
    SumFunction([t \in Threads |-> SumFunction([i \in DOMAIN th[t].todo |-> Of(th[t].todo[i])])])

CountsExact ==
    /\ len = Mod(LenOf(unit) - Pending(LAMBDA a : a.len))
    /\ \A s \in ShardIds :
          shardLens[s] = Mod(Cardinality(DOMAIN unit[s].table)
                             - Pending(LAMBDA a : IF a.shard = s THEN a.len ELSE 0))

Calls == UNION {ToSet(th[t].calls) : t \in Threads}

\* Some key is inserted with weight 0 and admitted (see Admit).
Readmits ==
    \E c, d \in Calls : /\ c.op = "insert_tail" /\ c.weight = 0
                        /\ d.op = "admit" /\ d.key = c.key

\* The totals are exact up to the updates in flight: each differs from what the
\* shards hold by exactly what the threads have still to add or take off, so that
\* they are right whenever no call is running; the counts unless a key is admitted
\* that was inserted with weight 0.
TotalsExact ==
    /\ weight = Mod(UsedOf(unit) - Pending(LAMBDA a : a.weight))
    /\ ~Readmits => CountsExact

Grows == {"admit", "increment", "update_or_admit", "upsert_if", "update_if", "set_weight",
          "insert_tail", "mutate_pair", "promote"}

\* Every call that grows the LRU is followed by evict_to_limit, as in the manager's
\* admit and increment_weight, and a new limit by such a call.
Swept ==
    \A t \in Threads : \A i \in DOMAIN th[t].calls :
       LET c == th[t].calls[i]
       IN  /\ c.op \in Grows => c.evict
           /\ c.op = "set_weight_limit" =>
                 \E j \in DOMAIN th[t].calls : j > i /\ th[t].calls[j].evict

\* When every growth and every new limit is followed by evict_to_limit and all
\* calls have returned, the LRU is within its limits.  The loop stops early on the
\* totals it loaded at its start, reads totals others are still updating, keeps to
\* the limit it loaded and gives up when it finds the shards empty one after the
\* other: whichever caller loads the totals last still sees to the rest.
WithinLimitAtRest ==
    Done /\ Swept => /\ UsedOf(unit) <= weightLimit
                     /\ Watermark # NoWatermark => LenOf(unit) <= Watermark

\* What the manager relies on in an Lru: units, totals and limits.
LruSound == UnitsExact /\ TotalsExact /\ WithinLimitAtRest

\* Refuted: the counts are exact in any case (CountsExact; lib.rs: `Assume
\* old_weight == 0 means a new item is admitted').
\*
\* Refuted: the total never wraps.  insert_tail adds the weight after it let the
\* shard go; a remove or an eviction in between takes the weight off first.
WeightNeverWraps == \A t \in Threads : th[t].pc = "len" => th[t].initialWeight < Wrap \div 2
=============================================================================
