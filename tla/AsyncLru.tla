------------------------------ MODULE AsyncLru ------------------------------
(***************************************************************************)
(* The actor-based LRU of pingora-lru (async_lru.rs) as the eviction       *)
(* manager of pingora-cache (eviction/async_lru.rs) uses it: callers send  *)
(* messages to one actor per shard, an eviction worker is woken through a  *)
(* watch channel when an actor finds the totals over the limit, and a      *)
(* callback worker gets every evicted entry.                               *)
(*                                                                         *)
(* An actor takes a batch off its queue and handles it message by message; *)
(* only between batches can a shutdown stop it.  A message is one step on  *)
(* the shard and the shared map, then one for each atomic update of the    *)
(* totals, then the signal: the worker and the callers read map and totals *)
(* without a lock in between.                                              *)
(***************************************************************************)
EXTENDS Integers, Sequences, FiniteSets, SequencesExt, FiniteSetsExt, Functions, TLC

CONSTANTS
    N,             \* number of shards
    WeightLimit,
    Watermark,     \* len_watermark; a number no length reaches for None
    DRAIN_BATCH,
    Calls,         \* sequences of calls, one of which is made
    MaxEvicts,     \* bound on the Evict messages in a queue
    MayShutDown    \* whether the shutdown watch may fire

\* What the constants are taken to be.
ConstantsOK == {N, DRAIN_BATCH, MaxEvicts} \subseteq Nat \ {0}

VARIABLES
    calls, at,     \* the calls the program makes, and the next one
    queue,         \* shard -> messages the actor has not taken
    batch,         \* shard -> messages taken and not handled
    state,         \* shard -> the keys, most recent first, with their weights: ShardState
    todo,          \* shard -> atomic updates the message in hand has still to make
    map,           \* the flurry map: key -> weight
    weight, len,   \* SharedCounters
    trigger,       \* the watch has a value the worker has not seen
    worker,        \* where the eviction worker is
    dispatch,      \* evicted entries no callback worker has taken
    stopped,       \* shutdown
    running        \* the shards whose actor runs

vars == <<calls, at, queue, batch, state, todo, map, weight, len, trigger, worker, dispatch, stopped, running>>

ShardIds == 0..(N - 1)

GetShard(key) == key % N

Floor1(w) == IF w > 1 THEN w ELSE 1

Less(a, b) == IF a < b THEN a ELSE b

Init ==
    /\ calls \in Calls /\ at = 1
    /\ queue = [s \in ShardIds |-> <<>>] /\ batch = [s \in ShardIds |-> <<>>]
    /\ state = [s \in ShardIds |-> <<>>] /\ todo = [s \in ShardIds |-> <<>>]
    /\ map = <<>> /\ weight = 0 /\ len = 0
    /\ trigger = FALSE /\ worker = "wait" /\ dispatch = <<>>
    /\ stopped = FALSE /\ running = ShardIds

-----------------------------------------------------------------------------
(* The callers.                                                            *)

\* send_msg: never blocks; fails, unnoticed, when the actor is gone.
SendMsg(s, msg) == queue' = IF s \in running THEN [queue EXCEPT ![s] = Append(@, msg)] ELSE queue

\* admit, increment_weight, insert_tail and remove only send.  promote looks the
\* key up in the map first, and the manager's access admits a key it misses.
\* trigger_eviction wakes the worker after a bulk load.
Call ==
    /\ at <= Len(calls)
    /\ LET c == calls[at]
           known == c.key \in DOMAIN map
           op == IF c.op = "access" THEN IF known THEN "promote" ELSE "admit" ELSE c.op
       IN  /\ IF c.op = "trigger" \/ (c.op = "promote" /\ ~known) THEN UNCHANGED queue
              ELSE SendMsg(GetShard(c.key), [c EXCEPT !.op = op])
           /\ trigger' = (trigger \/ c.op = "trigger")
    /\ at' = at + 1
    /\ UNCHANGED <<calls, batch, state, todo, map, weight, len, worker, dispatch, stopped,
                   running>>

-----------------------------------------------------------------------------
(* ShardState.                                                             *)

KeysOf(st) == {st[i].key : i \in DOMAIN st}

WeightOf(st, key) == LET i == CHOOSE i \in DOMAIN st : st[i].key = key IN st[i].weight

Without(st, key) == SelectSeq(st, LAMBDA e : e.key # key)

ToHead(st, key, w) == <<[key |-> key, weight |-> w]>> \o Without(st, key)

\* What a message leaves: the shard's entries, what it inserts in the map and removes
\* from it, the totals' updates, and whether it ends with a look at the limit
\* (maybe_signal_eviction).
Effect(st, put, gone, updates, signal) ==
    [st |-> st, put |-> put, gone |-> gone, updates |-> updates, signal |-> signal]

\* The message changes nothing, or only the order.
Reordered(st) == Effect(st, <<>>, {}, <<>>, FALSE)

WeightBy(d) == [weight |-> d, len |-> 0]

LenBy(d) == [weight |-> 0, len |-> d]

\* admit_inner: the new weight is added, then the old one taken off.
AdmitInner(st, m) ==
    LET w == Floor1(m.weight)
    IN  Effect(ToHead(st, m.key, w), m.key :> w, {},
               IF m.key \in KeysOf(st) THEN <<WeightBy(w), WeightBy(0 - WeightOf(st, m.key))>>
               ELSE <<WeightBy(w), LenBy(1)>>, TRUE)

Increment(st, m) ==
    LET old == WeightOf(st, m.key)
        new == Max({old, Less(old + m.weight, m.max)})
        w == Floor1(Less(m.weight, m.max))
    IN  IF m.key \notin KeysOf(st)
        THEN Effect(ToHead(st, m.key, w), m.key :> w, {}, <<WeightBy(w), LenBy(1)>>, TRUE)
        ELSE IF new = old THEN Effect(ToHead(st, m.key, old), <<>>, {}, <<>>, TRUE)
        ELSE Effect(ToHead(st, m.key, new), m.key :> new, {}, <<WeightBy(new), WeightBy(0 - old)>>, TRUE)

PromoteMsg(st, m) ==
    Reordered(IF m.key \in KeysOf(st) THEN ToHead(st, m.key, WeightOf(st, m.key)) ELSE st)

RemoveMsg(st, m) ==
    IF m.key \notin KeysOf(st) THEN Reordered(st)
    ELSE Effect(Without(st, m.key), <<>>, {m.key}, <<WeightBy(0 - WeightOf(st, m.key)), LenBy(-1)>>, FALSE)

InsertTailMsg(st, m) ==
    IF m.key \in KeysOf(st) THEN Reordered(st)
    ELSE Effect(Append(st, [key |-> m.key, weight |-> m.weight]), m.key :> m.weight, {},
                <<WeightBy(m.weight), LenBy(1)>>, FALSE)

\* Mutant: the evicted entry stays in the map.
EvictMsg_StaysInMap(st) ==
    IF st = <<>> THEN Reordered(st)
    ELSE Effect(Front(st), <<>>, {}, <<WeightBy(0 - Last(st).weight), LenBy(-1)>>, FALSE)

EvictMsg(st) ==
    IF st = <<>> THEN Reordered(st)
    ELSE Effect(Front(st), <<>>, {Last(st).key}, <<WeightBy(0 - Last(st).weight), LenBy(-1)>>, FALSE)

Handled(st, m) ==
    CASE m.op = "admit" -> AdmitInner(st, m)
      [] m.op = "increment" -> Increment(st, m)
      [] m.op = "promote" -> PromoteMsg(st, m)
      [] m.op = "remove" -> RemoveMsg(st, m)
      [] m.op = "insert_tail" -> InsertTailMsg(st, m)
      [] m.op = "evict" -> EvictMsg(st)

-----------------------------------------------------------------------------
(* shard_actor.                                                            *)

Signal == [weight |-> 0, len |-> 0, signal |-> TRUE]

Update(u) == [weight |-> u.weight, len |-> u.len, signal |-> FALSE]

\* recv_many.
RecvMany(s) ==
    /\ s \in running /\ batch[s] = <<>> /\ todo[s] = <<>> /\ queue[s] # <<>>
    /\ LET n == Less(DRAIN_BATCH, Len(queue[s]))
       IN  /\ batch' = [batch EXCEPT ![s] = SubSeq(queue[s], 1, n)]
           /\ queue' = [queue EXCEPT ![s] = SubSeq(@, n + 1, Len(@))]
    /\ UNCHANGED <<calls, at, state, todo, map, weight, len, trigger, worker, dispatch,
                   stopped, running>>

\* process_msg on the shard and the map; an evicted entry is dispatched after its
\* counters, which nothing that follows depends on.
ProcessMsg(s) ==
    /\ s \in running /\ batch[s] # <<>> /\ todo[s] = <<>>
    /\ LET e == Handled(state[s], Head(batch[s]))
       IN  /\ state' = [state EXCEPT ![s] = e.st]
           /\ map' = e.put @@ Restrict(map, DOMAIN map \ e.gone)
           /\ todo' = [todo EXCEPT ![s] = [i \in DOMAIN e.updates |-> Update(e.updates[i])]
                                          \o IF e.signal THEN <<Signal>> ELSE <<>>]
           /\ dispatch' = IF Head(batch[s]).op = "evict" /\ state[s] # <<>>
                          THEN Append(dispatch, Last(state[s])) ELSE dispatch
    /\ batch' = [batch EXCEPT ![s] = Tail(@)]
    /\ UNCHANGED <<calls, at, queue, weight, len, trigger, worker, stopped, running>>

OverLimit == weight > WeightLimit \/ len > Watermark

\* One atomic update, or the look at the limit and the send on the watch.
UpdateTotals(s) ==
    /\ todo[s] # <<>>
    /\ LET u == Head(todo[s])
       IN  /\ weight' = weight + u.weight
           /\ len' = len + u.len
           /\ trigger' = (trigger \/ (u.signal /\ OverLimit))
    /\ todo' = [todo EXCEPT ![s] = Tail(@)]
    /\ UNCHANGED <<calls, at, queue, batch, state, map, worker, dispatch, stopped, running>>

\* The shutdown branch of the select: what is queued is dropped with the receiver.
ActorStops(s) ==
    /\ s \in running /\ stopped /\ batch[s] = <<>> /\ todo[s] = <<>>
    /\ running' = running \ {s}
    /\ queue' = [queue EXCEPT ![s] = <<>>]
    /\ UNCHANGED <<calls, at, batch, state, todo, map, weight, len, trigger, worker, dispatch, stopped>>

-----------------------------------------------------------------------------
(* eviction_worker and callback_worker.                                    *)

WorkerWakes ==
    /\ worker = "wait" /\ trigger
    /\ trigger' = FALSE
    /\ worker' = "check"
    /\ UNCHANGED <<calls, at, queue, batch, state, todo, map, weight, len, dispatch,
                   stopped, running>>

\* A pass of the loop over the limit.  Two random picks may name the same shard, so
\* any shard may get the message; the yield lets the actors run, it does not wait
\* for them.
WorkerEvicts(s) ==
    /\ worker = "check" /\ OverLimit
    /\ Cardinality({i \in DOMAIN queue[s] : queue[s][i].op = "evict"}) < MaxEvicts
    /\ SendMsg(s, [op |-> "evict", key |-> s, weight |-> 0, max |-> 0])
    /\ UNCHANGED <<calls, at, batch, state, todo, map, weight, len, trigger, worker, dispatch,
                   stopped, running>>

WorkerDone ==
    /\ worker = "check" /\ ~OverLimit
    /\ worker' = "wait"
    /\ UNCHANGED <<calls, at, queue, batch, state, todo, map, weight, len, trigger, dispatch,
                   stopped, running>>

WorkerStops ==
    /\ worker = "wait" /\ stopped
    /\ worker' = "gone"
    /\ UNCHANGED <<calls, at, queue, batch, state, todo, map, weight, len, trigger, dispatch, stopped, running>>

\* The channel outlives the actors: what was dispatched is still delivered.
CallbackWorker ==
    /\ dispatch # <<>>
    /\ dispatch' = Tail(dispatch)
    /\ UNCHANGED <<calls, at, queue, batch, state, todo, map, weight, len, trigger, worker,
                   stopped, running>>

Shutdown ==
    /\ MayShutDown /\ ~stopped
    /\ stopped' = TRUE
    /\ UNCHANGED <<calls, at, queue, batch, state, todo, map, weight, len, trigger, worker, dispatch, running>>

Quiet ==
    /\ at > Len(calls) /\ dispatch = <<>> /\ worker # "check" /\ (worker = "wait" => ~trigger)
    /\ \A s \in ShardIds : queue[s] = <<>> /\ batch[s] = <<>> /\ todo[s] = <<>>

AtRest == Quiet /\ UNCHANGED vars

Next ==
    \/ Call \/ WorkerWakes \/ WorkerDone \/ WorkerStops \/ CallbackWorker \/ Shutdown \/ AtRest
    \/ \E s \in ShardIds :
          RecvMany(s) \/ ProcessMsg(s) \/ UpdateTotals(s) \/ ActorStops(s) \/ WorkerEvicts(s)

Spec == Init /\ [][Next]_vars

\* Tokio runs every task that is ready; calls and the shutdown need not come.  The
\* worker's picks are random: no shard is passed over for ever.
Fairness ==
    /\ WF_vars(WorkerWakes) /\ WF_vars(WorkerDone) /\ WF_vars(CallbackWorker)
    /\ \A s \in ShardIds :
          WF_vars(RecvMany(s) \/ ProcessMsg(s) \/ UpdateTotals(s)) /\ SF_vars(WorkerEvicts(s))

FairSpec == Spec /\ Fairness

-----------------------------------------------------------------------------
\* The program brings entries back with insert_tail.
Loads == \E i \in DOMAIN calls : calls[i].op = "insert_tail"

Total(f(_, _)) == SumFunction([s \in ShardIds |-> SumFunction([i \in DOMAIN state[s] |-> f(s, i)])])

Pending(Of(_)) == SumFunction([s \in ShardIds |-> SumFunction([i \in DOMAIN todo[s] |-> Of(todo[s][i])])])

\* The lock-free views agree with what the actors own: the map holds the keys and
\* weights of the lists, no key is listed twice, and the totals differ from the
\* lists' by exactly the updates of the messages in hand.
ViewsExact ==
    /\ \A s \in ShardIds :
          /\ {k \in DOMAIN map : GetShard(k) = s} = KeysOf(state[s])
          /\ Cardinality(KeysOf(state[s])) = Len(state[s])
          /\ \A k \in KeysOf(state[s]) : map[k] = WeightOf(state[s], k)
    /\ weight = Total(LAMBDA s, i : state[s][i].weight) - Pending(LAMBDA u : u.weight)
    /\ len = Total(LAMBDA s, i : 1) - Pending(LAMBDA u : u.len)

\* The calls cannot leave the LRU over its limit: it settles within the limits
\* unless it is shut down.  No signal is lost between an actor's update and the
\* worker going back to wait, whatever Evict messages find their shard empty.
\* (insert_tail does not signal, so a program that loads is left out.)
SettlesWithinLimit == <>[](~OverLimit) \/ <>stopped \/ []Loads

\* Refuted: a bulk load followed by trigger_eviction ends within the limit.  The
\* worker may look at the totals before the actors have handled the load.
LoadSettles == Quiet /\ running = ShardIds /\ worker = "wait" /\ calls[Len(calls)].op = "trigger" => ~OverLimit

\* Refuted: an entry is evicted only while the totals are over the limit.  The
\* worker may send several Evict messages before an actor handles the first.
EvictsOnlyOverLimit == [][Len(dispatch') > Len(dispatch) => OverLimit]_vars
=============================================================================
