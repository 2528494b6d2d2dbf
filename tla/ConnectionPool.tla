--------------------------- MODULE ConnectionPool ---------------------------
(***************************************************************************)
(* The pool of idle upstream connections: pingora-pool/src/connection.rs   *)
(* and pingora-pool/src/lru.rs, used the way TransportConnector            *)
(* (pingora-core/src/connectors/mod.rs) uses them.                         *)
(*                                                                         *)
(* All connections have one group key, so the DashMap is one slot that     *)
(* holds a PoolNode or nothing.  A connection is named by its id (its file *)
(* descriptor).  Outside the pool it is in use or closed, and a closed id  *)
(* may come back as a new connection: the pool cannot tell these apart,    *)
(* while an idle task of the id's last stay in the pool may still run.     *)
(***************************************************************************)
EXTENDS Naturals, Integers, Sequences, FiniteSets, FiniteSetsExt, SequencesExt

CONSTANTS Ids,           \* the ids of connections
          Size,          \* the pool's size limit
          Headroom,      \* evict_headroom(): min(N_SHARDS, Size / 4)
          QueueSize,     \* HOT_QUEUE_SIZE
          MaxNodes,      \* bound on the PoolNodes of the key alive at once
          MaxStale,      \* bound on the idle tasks of one id in pop_closed()
          None

\* What the constants are taken to be.
ConstantsOK ==
  /\ Size \in Nat /\ Headroom \in Nat /\ Headroom * 4 <= Size
  /\ QueueSize \in Nat \ {0} /\ MaxNodes \in Nat /\ MaxStale \in Nat
  /\ None \notin Ids

VARIABLES node,          \* the node in the map, 0 when the key has no entry
          queue, over,   \* per node: hot_queue and the overflow map
          lru, lruLen,   \* the LRU's ids, oldest first, and its len counter
          conn,          \* where each connection is
          evict,         \* what a put() has yet to pop, oldest first
          task,          \* whether an idle task watches the connection
          notified,      \* the connection's eviction notifier has fired
          job            \* the pop_evicted() calls in progress

vars == <<node, queue, over, lru, lruLen, conn, evict, task, notified, job>>
nodeVars == <<queue, over>>
lruVars == <<lru, lruLen>>

Nodes == 1..MaxNodes

\* Who runs pop_evicted(): the put() of c is <<c, 0>>, a closing idle task of c
\* is <<c, k>> with k > 0.
Workers == Ids \X (0..MaxStale)

NoJob == [st |-> "idle", id |-> None, node |-> 0, left |-> 0, hand |-> None]

Init ==
  /\ node = 0
  /\ queue = [n \in Nodes |-> <<>>]
  /\ over = [n \in Nodes |-> {}]
  /\ lru = <<>> /\ lruLen = 0
  /\ conn = [c \in Ids |-> "out"]
  /\ evict = [c \in Ids |-> <<>>]
  /\ task = [c \in Ids |-> FALSE]
  /\ notified = [c \in Ids |-> FALSE]
  /\ job = [w \in Workers |-> NoJob]

Contents(n) == ToSet(queue[n]) \cup over[n]
IsEmpty(n) == queue[n] = <<>> /\ over[n] = {}

\* PoolNode::insert(): the queue and the overflow map of a node with c.
Hot(n) == Len(queue[n]) < QueueSize
QueueWith(n, c) == IF Hot(n) THEN Append(queue[n], c) ELSE queue[n]
OverWith(n, c) == IF Hot(n) THEN over[n] ELSE over[n] \cup {c}

\* evict_lru() of the put() of c has every shard lock.
Draining(c) == conn[c] = "drain"
ShardsFree == ~\E c \in Ids : Draining(c)

\* put(): Lru::put() up to the release of the shard lock.  A replaced entry
\* does not count.
PutLru(c) ==
  /\ conn[c] = "out" /\ ShardsFree
  /\ notified' = [notified EXCEPT ![c] = FALSE]
  /\ lru' = Append(SelectSeq(lru, LAMBDA d : d # c), c)
  /\ conn' = [conn EXCEPT ![c] = IF c \in ToSet(lru) THEN "insert" ELSE "count"]
  /\ UNCHANGED <<node, nodeVars, lruLen, evict, task, job>>

\* put(): len.fetch_add(), without a lock.
PutCount(c) ==
  /\ conn[c] = "count"
  /\ lruLen' = lruLen + 1
  /\ conn' = [conn EXCEPT ![c] = IF lruLen + 1 > Size THEN "over" ELSE "insert"]
  /\ UNCHANGED <<node, nodeVars, lru, evict, task, notified, job>>

\* evict_lru(): another evictor may have drained the overflow; if not, the
\* shard locks are taken.
EvictStarts(c) ==
  /\ conn[c] = "over"
  /\ \/ lruLen <= Size /\ conn' = [conn EXCEPT ![c] = "insert"]
     \/ lruLen > Size /\ ShardsFree /\ conn' = [conn EXCEPT ![c] = "drain"]
  /\ UNCHANGED <<node, nodeVars, lruVars, evict, task, notified, job>>

\* evict_lru(): one turn of the loop; the drained entry's notifier fires.  The
\* locks do not cover len, which others count up and down meanwhile.
EvictOldest(c) ==
  /\ Draining(c)
  /\ IF lruLen > Size - Headroom /\ lru # <<>>
       THEN /\ lru' = Tail(lru) /\ lruLen' = lruLen - 1
            /\ evict' = [evict EXCEPT ![c] = Append(@, Head(lru))]
            /\ notified' = [notified EXCEPT ![Head(lru)] = TRUE]
            /\ UNCHANGED conn
       ELSE conn' = [conn EXCEPT ![c] = "insert"] /\ UNCHANGED <<lruVars, evict, notified>>
  /\ UNCHANGED <<node, nodeVars, task, job>>

\* A new PoolNode: one that neither the map nor a pop_evicted() refers to.
FreeNodes == {n \in Nodes : \A w \in Workers : job[w].node # n}

\* put(): insert_pool_connection() under the map's entry guard, and the idle
\* task is spawned.
PutInsert(c) ==
  /\ conn[c] = "insert"
  /\ evict[c] = <<>> /\ job[c, 0].st = "idle"
  /\ node # 0 \/ FreeNodes # {}
  /\ LET n == IF node = 0 THEN Min(FreeNodes) ELSE node
     IN  /\ node' = n
         /\ queue' = [queue EXCEPT ![n] = QueueWith(n, c)]
         /\ over' = [over EXCEPT ![n] = OverWith(n, c)]
  /\ conn' = [conn EXCEPT ![c] = "idle"]
  /\ task' = [task EXCEPT ![c] = TRUE]
  /\ UNCHANGED <<lruVars, evict, notified, job>>

\* Mutant: hands out an overflow entry and leaves it in the map.
GetAny_Keep(c) ==
  /\ node # 0
  /\ \/ /\ queue[node] # <<>>
        /\ c = Head(queue[node])
        /\ queue' = [queue EXCEPT ![node] = Tail(@)]
     \/ /\ queue[node] = <<>>
        /\ c \in over[node]
        /\ UNCHANGED queue
  /\ conn' = [conn EXCEPT ![c] = "got"]
  /\ UNCHANGED <<node, over, lruVars, evict, task, notified, job>>

\* get(): get_any() on the node takes the head of the queue, or else any entry
\* of the overflow map.
GetAny(c) ==
  /\ node # 0
  /\ \/ /\ queue[node] # <<>>
        /\ c = Head(queue[node])
        /\ queue' = [queue EXCEPT ![node] = Tail(@)]
        /\ UNCHANGED over
     \/ /\ queue[node] = <<>>
        /\ c \in over[node]
        /\ over' = [over EXCEPT ![node] = @ \ {c}]
        /\ UNCHANGED queue
  /\ conn' = [conn EXCEPT ![c] = "got"]
  /\ UNCHANGED <<node, lruVars, evict, task, notified, job>>

\* Lru::pop() under the lock of the shard; what it found is counted off len
\* after the lock is released.
LruPop(c) == ShardsFree /\ lru' = SelectSeq(lru, LAMBDA d : d # c)

\* get(): lru.pop() of the id ...
GetLru(c) ==
  /\ conn[c] = "got"
  /\ LruPop(c)
  /\ conn' = [conn EXCEPT ![c] = IF c \in ToSet(lru) THEN "uncount" ELSE "release"]
  /\ UNCHANGED <<node, nodeVars, lruLen, evict, task, notified, job>>

\* ... and its len.fetch_sub().
GetUncount(c) ==
  /\ conn[c] = "uncount"
  /\ lruLen' = lruLen - 1
  /\ conn' = [conn EXCEPT ![c] = "release"]
  /\ UNCHANGED <<node, nodeVars, lru, evict, task, notified, job>>

\* get(): notify_use ends the idle task, and the user gets the stream once the
\* task has let go of it.
GetRelease(c) ==
  /\ conn[c] = "release"
  /\ conn' = [conn EXCEPT ![c] = "out"]
  /\ task' = [task EXCEPT ![c] = FALSE]
  /\ UNCHANGED <<node, nodeVars, lruVars, evict, notified, job>>

\* get() that finds the node empty, or has just emptied it:
\* try_remove_empty_node().
Cleanup ==
  /\ node # 0
  /\ IsEmpty(node)
  /\ node' = 0
  /\ UNCHANGED <<nodeVars, lruVars, conn, evict, task, notified, job>>

\* idle_poll(): the eviction notifier fired; the task just ends.
TaskEvicted(c) ==
  /\ task[c] /\ notified[c]
  /\ task' = [task EXCEPT ![c] = FALSE]
  /\ UNCHANGED <<node, nodeVars, lruVars, conn, evict, notified, job>>

\* idle_poll(): the peer closed the connection or its idle timeout was reached;
\* the task lets go of the stream and calls pop_closed().
TaskClose(c, k) ==
  /\ task[c]
  /\ job[c, k].st = "idle"
  /\ task' = [task EXCEPT ![c] = FALSE]
  /\ job' = [job EXCEPT ![c, k] = [NoJob EXCEPT !.st = "start", !.id = c]]
  /\ UNCHANGED <<node, nodeVars, lruVars, conn, evict, notified>>

\* Entries of cs are dropped: their senders end the idle tasks, and the
\* connections close.
Close(cs) ==
  /\ conn' = [c \in Ids |-> IF c \in cs THEN "out" ELSE conn[c]]
  /\ task' = [c \in Ids |-> task[c] /\ c \notin cs]

\* What follows a pop_evicted(): an idle task goes on to lru.pop().
Popping(w) == IF w[2] = 0 THEN NoJob ELSE [NoJob EXCEPT !.st = "lru", !.id = w[1]]

\* pop_evicted(): find the node; PoolNode::remove() looks in the overflow map.
RemoveOverflow(w, c) ==
  /\ IF node # 0 /\ c \in over[node]
       THEN over' = [over EXCEPT ![node] = @ \ {c}] /\ Close({c})
       ELSE UNCHANGED <<over, conn, task>>
  /\ job' = [job EXCEPT ![w] = IF node = 0 \/ c \in over[node] THEN Popping(w)
                               ELSE [NoJob EXCEPT !.id = c, !.node = node, !.st = "wait"]]
  /\ UNCHANGED <<node, queue, lruVars, notified>>

\* put() pops the next connection that evict_lru() drained.
EvictNext(c) ==
  /\ conn[c] = "insert" /\ evict[c] # <<>> /\ job[c, 0].st = "idle"
  /\ RemoveOverflow(<<c, 0>>, Head(evict[c]))
  /\ evict' = [evict EXCEPT ![c] = Tail(@)]

\* pop_closed() pops its own.
CloseStarts(w) == job[w].st = "start" /\ RemoveOverflow(w, job[w].id) /\ UNCHANGED evict

\* The end of pop_evicted(), which closes cs and leaves q and o in its node: the
\* last reference to a node that left the map drops what is in the node.
Leave(w, q, o, cs) ==
  LET n == job[w].node
      last == n # node /\ \A v \in Workers \ {w} : job[v].node # n
  IN  /\ queue' = [queue EXCEPT ![n] = IF last THEN <<>> ELSE q]
      /\ over' = [over EXCEPT ![n] = IF last THEN {} ELSE o]
      /\ Close(IF last THEN cs \cup ToSet(q) \cup o ELSE cs)
      /\ job' = [job EXCEPT ![w] = Popping(w)]

\* remove(): take hot_queue_remove_lock and note the length of the queue.
RemoveLock(w) ==
  LET n == job[w].node IN
  /\ job[w].st = "wait"
  /\ \A v \in Workers : job[v].st = "scan" => job[v].node # n
  /\ IF queue[n] = <<>> THEN Leave(w, queue[n], over[n], {})
     ELSE /\ job' = [job EXCEPT ![w].st = "scan", ![w].left = Len(queue[n])]
          /\ UNCHANGED <<nodeVars, conn, task>>
  /\ UNCHANGED <<node, lruVars, evict, notified>>

\* remove(): pop an entry off the queue ...
RemovePop(w) ==
  LET n == job[w].node IN
  /\ job[w].st = "scan" /\ job[w].hand = None
  /\ \/ queue[n] = <<>> /\ Leave(w, queue[n], over[n], {})
     \/ /\ queue[n] # <<>> /\ Head(queue[n]) = job[w].id
        /\ Leave(w, Tail(queue[n]), over[n], {job[w].id})
     \/ /\ queue[n] # <<>> /\ Head(queue[n]) # job[w].id
        /\ queue' = [queue EXCEPT ![n] = Tail(@)]
        /\ job' = [job EXCEPT ![w].hand = Head(queue[n])]
        /\ UNCHANGED <<over, conn, task>>
  /\ UNCHANGED <<node, lruVars, evict, notified>>

\* ... and put it back when it is another one.
RemovePutBack(w) ==
  LET n == job[w].node
      q == QueueWith(n, job[w].hand)
      o == OverWith(n, job[w].hand)
  IN
  /\ job[w].st = "scan" /\ job[w].hand # None
  /\ IF job[w].left = 1 THEN Leave(w, q, o, {})
     ELSE /\ queue' = [queue EXCEPT ![n] = q] /\ over' = [over EXCEPT ![n] = o]
          /\ job' = [job EXCEPT ![w].left = @ - 1, ![w].hand = None]
          /\ UNCHANGED <<conn, task>>
  /\ UNCHANGED <<node, lruVars, evict, notified>>

\* pop_closed(): lru.pop() after pop_evicted() ...
CloseLru(w) ==
  LET c == job[w].id IN
  /\ job[w].st = "lru"
  /\ LruPop(c)
  /\ job' = [job EXCEPT ![w] = IF c \in ToSet(lru) THEN [@ EXCEPT !.st = "uncount"] ELSE NoJob]
  /\ UNCHANGED <<node, nodeVars, lruLen, conn, evict, task, notified>>

\* ... and its len.fetch_sub().
CloseUncount(w) ==
  /\ job[w].st = "uncount"
  /\ lruLen' = lruLen - 1
  /\ job' = [job EXCEPT ![w] = NoJob]
  /\ UNCHANGED <<node, nodeVars, lru, conn, evict, task, notified>>

Next ==
  \/ \E c \in Ids :
       \/ PutLru(c) \/ PutCount(c) \/ EvictStarts(c) \/ EvictOldest(c)
       \/ EvictNext(c) \/ PutInsert(c)
       \/ GetAny(c) \/ GetLru(c) \/ GetUncount(c) \/ GetRelease(c)
       \/ TaskEvicted(c)
       \/ \E k \in 1..MaxStale : TaskClose(c, k)
  \/ \E w \in Workers :
       \/ CloseStarts(w) \/ RemoveLock(w) \/ RemovePop(w)
       \/ RemovePutBack(w) \/ CloseLru(w) \/ CloseUncount(w)
  \/ Cleanup

Spec == Init /\ [][Next]_vars

TypeOK ==
  /\ node \in 0..MaxNodes
  /\ queue \in [Nodes -> Seq(Ids)]
  /\ over \in [Nodes -> SUBSET Ids]
  /\ lru \in Seq(Ids) /\ lruLen \in Int
  /\ conn \in [Ids -> {"out", "count", "over", "drain", "insert", "idle", "got",
                     "uncount", "release"}]
  /\ evict \in [Ids -> Seq(Ids)]
  /\ task \in [Ids -> BOOLEAN]
  /\ notified \in [Ids -> BOOLEAN]
  /\ job \in [Workers -> [st : {"idle", "start", "wait", "scan", "lru", "uncount"},
                          id : Ids \cup {None}, node : 0..MaxNodes,
                          left : 0..QueueSize, hand : Ids \cup {None}]]

\* The puts that have listed a connection and not counted it, those that have
\* counted it and may still have to evict, and the pops not counted off yet.
Uncounted == {c \in Ids : conn[c] = "count"}
Evicting == {c \in Ids : conn[c] \in {"over", "drain"}}
Popped == {c \in Ids : conn[c] = "uncount"} \cup {w \in Workers : job[w].st = "uncount"}

\* len counts what the LRU holds, up to the inserts whose fetch_add and the pops
\* whose fetch_sub are still to come, whatever order puts, gets, evictions and
\* closings run in.
LruLenExact == lruLen = Len(lru) - Cardinality(Uncounted) + Cardinality(Popped)

\* len is an AtomicUsize that is decremented by pops and evictions of entries
\* it may not count yet: it never wraps below zero.
LruLenNeverWraps == lruLen >= 0

\* The LRU never holds more than `size` entries but for the puts that have yet to
\* count theirs or to evict for it.
LruBounded == Len(lru) <= Size + Cardinality(Uncounted) + Cardinality(Evicting)

\* What the LRU promises about its length, at every moment.
LruExact == LruLenExact /\ LruBounded

Occurrences(c) ==
  Cardinality({<<n, i>> \in Nodes \X (1..QueueSize) : i <= Len(queue[n]) /\ queue[n][i] = c})
  + Cardinality({n \in Nodes : c \in over[n]})
  + Cardinality({w \in Workers : job[w].hand = c})

\* A connection is in exactly one place: a pooled one has exactly one entry, in
\* a queue, an overflow map or the hand of a remove(), and one in use has none.
\* So get() hands each entry to exactly one caller.
OneOwner == \A c \in Ids : Occurrences(c) = IF conn[c] = "idle" THEN 1 ELSE 0

\* The bookkeeping of the pool: the LRU knows what it counts, and every connection
\* has one place.
PoolSound == LruExact /\ OneOwner

\* No put() and no pop_evicted() is under way and no eviction is unnoticed.
Quiet ==
  /\ \A w \in Workers : job[w] = NoJob
  /\ \A c \in Ids : conn[c] \notin {"count", "over", "drain", "insert"} /\ ~(task[c] /\ notified[c])

\* Between operations the pool holds at most `size` connections.
PoolBounded == Quiet => node = 0 \/ Cardinality(Contents(node)) <= Size

\* A pop_evicted() of the connection is under way or about to begin.
Removing(c) == (\E w \in Workers : job[w].id = c) \/ (\E d \in Ids : c \in ToSet(evict[d]))

\* A connection that get() can find is listed in the LRU, watched by its idle task
\* or being removed, unless it was evicted before its put() had inserted it: an idle task
\* of an earlier stay of its id, which takes it off the LRU, leaves its watcher.
PooledTracked ==
  node # 0 => \A c \in Contents(node) : c \in ToSet(lru) \/ task[c] \/ notified[c] \/ Removing(c)

\* Nothing is in a node that was removed from the map as empty.
RemovedNodeEmpty == \A n \in Nodes : n # node => IsEmpty(n)
==============================================================================
