---------------------------- MODULE ReadThrough ----------------------------
(***************************************************************************)
(* RTCache, the read-through cache with lookup coalescing:                 *)
(* pingora-memory-cache/src/read_through.rs, for one key.                  *)
(*                                                                         *)
(* A CacheLock is named by the request that created it.  Its semaphore is  *)
(* a flag: the guard adds permits once and readers return theirs at once,  *)
(* so an acquire() succeeds exactly when permits were added.               *)
(***************************************************************************)
EXTENDS Naturals, FiniteSets

CONSTANTS Requests,      \* the calls of get(), get_stale() and multi_get()
          MultiCalls,    \* the ones that are calls of multi_get()
          WithTimeout,   \* whether lock_timeout is set
          NoLock

ASSUME NoLockAssumption == NoLock \notin Requests
ASSUME MultiCallsAssumption == MultiCalls \subseteq Requests
ASSUME WithTimeoutAssumption == WithTimeout \in BOOLEAN

VARIABLES cached,        \* the key's value: "none", "fresh" or "stale"
          lockers,       \* the key's lock in the table
          permits,       \* the locks whose guard added permits
          old,           \* the locks that are older than lock_age
          pc,            \* where each request is
          lock           \* the lock a request read from the table

vars == <<cached, lockers, permits, old, pc, lock>>

PC == {"start", "missed", "insert", "write", "added", "bypass", "read", "wait",
       "recheck", "reader lookup", "timed out", "multi", "done"}

Init ==
  /\ cached \in {"none", "stale"}
  /\ lockers = NoLock
  /\ permits = {}
  /\ old = {}
  /\ pc = [r \in Requests |-> "start"]
  /\ lock = [r \in Requests |-> NoLock]

Goto(r, s) == pc' = [pc EXCEPT ![r] = s]

\* get(): the cache is asked first.
CacheGet(r) ==
  /\ pc[r] = "start" /\ r \notin MultiCalls
  /\ Goto(r, IF cached = "fresh" THEN "done" ELSE "missed")
  /\ UNCHANGED <<cached, lockers, permits, old, lock>>

\* get_stale() within stale_ttl; get_stale_while_update() does the same and
\* spawns a get(), which is another request.
GetStale(r) ==
  /\ pc[r] = "start" /\ r \notin MultiCalls
  /\ cached = "stale"
  /\ Goto(r, "done")
  /\ UNCHANGED <<cached, lockers, permits, old, lock>>

\* What a request does with a lock it found in the table.
Found(r, l) ==
  IF l \in old THEN Goto(r, "bypass") /\ UNCHANGED lock
  ELSE Goto(r, "read") /\ lock' = [lock EXCEPT ![r] = l]

\* get(): look for an ongoing lookup under the table's read lock.
TableRead(r) ==
  /\ pc[r] = "missed"
  /\ IF lockers = NoLock THEN Goto(r, "insert") /\ UNCHANGED lock ELSE Found(r, lockers)
  /\ UNCHANGED <<cached, lockers, permits, old>>

\* Mutant: no second look under the write lock.
TableWrite_NoRecheck(r) ==
  /\ pc[r] = "insert"
  /\ Goto(r, "write") /\ lockers' = r
  /\ UNCHANGED <<cached, permits, old, lock>>

\* get(): look again under the write lock, and insert a new lock.
TableWrite(r) ==
  /\ pc[r] = "insert"
  /\ IF lockers = NoLock
       THEN Goto(r, "write") /\ lockers' = r /\ UNCHANGED lock
       ELSE Found(r, lockers) /\ UNCHANGED lockers
  /\ UNCHANGED <<cached, permits, old>>

\* Time passes: a lock becomes older than lock_age.
Age(l) ==
  /\ l = lockers
  /\ l \notin old
  /\ old' = old \cup {l}
  /\ UNCHANGED <<cached, lockers, permits, pc, lock>>

\* get() of a reader: the writer may be done already.
CheckPermits(r) ==
  /\ pc[r] = "read"
  /\ Goto(r, IF lock[r] \in permits THEN "recheck" ELSE "wait")
  /\ UNCHANGED <<cached, lockers, permits, old, lock>>

\* acquire() returns, and the permit with it.
Acquire(r) ==
  /\ pc[r] = "wait"
  /\ lock[r] \in permits
  /\ Goto(r, "recheck")
  /\ UNCHANGED <<cached, lockers, permits, old, lock>>

\* lock_timeout is reached.
TimeOut(r) ==
  /\ WithTimeout
  /\ pc[r] = "wait"
  /\ Goto(r, "timed out")
  /\ UNCHANGED <<cached, lockers, permits, old, lock>>

\* get() of a reader: the value is there, or else it looks it up itself.
Recheck(r) ==
  /\ pc[r] = "recheck"
  /\ Goto(r, IF cached = "fresh" THEN "done" ELSE "reader lookup")
  /\ UNCHANGED <<cached, lockers, permits, old, lock>>

\* multi_get(): a key that is not cached is looked up without coalescing.
MultiGet(r) ==
  /\ pc[r] = "start" /\ r \in MultiCalls
  /\ Goto(r, IF cached = "fresh" THEN "done" ELSE "multi")
  /\ UNCHANGED <<cached, lockers, permits, old, lock>>

\* A lookup callback without a guard returns: readers and multi_get() store its
\* value, requests that bypassed an old lock or timed out do not.
LookupReturns(r, ok) ==
  /\ pc[r] \in {"reader lookup", "timed out", "bypass", "multi"}
  /\ cached' = IF ok /\ pc[r] \in {"reader lookup", "multi"} THEN "fresh" ELSE cached
  /\ Goto(r, "done")
  /\ UNCHANGED <<lockers, permits, old, lock>>

\* Mutant: permits are added only after a successful lookup.
WriterReturns_OnlyOk(r, ok) ==
  /\ pc[r] = "write"
  /\ cached' = IF ok THEN "fresh" ELSE cached
  /\ permits' = IF ok THEN permits \cup {r} ELSE permits
  /\ Goto(r, "added")
  /\ UNCHANGED <<lockers, old, lock>>

\* The writer's lookup returns with a value to store, or with an error, or its
\* future is cancelled; its guard is dropped and adds the permits ...
WriterReturns(r, ok) ==
  /\ pc[r] = "write"
  /\ cached' = IF ok THEN "fresh" ELSE cached
  /\ permits' = permits \cup {r}
  /\ Goto(r, "added")
  /\ UNCHANGED <<lockers, old, lock>>

\* ... and then removes the lock from the table, if it is its own.
GuardRemoves(r) ==
  /\ pc[r] = "added"
  /\ lockers' = IF lockers = r THEN NoLock ELSE lockers
  /\ Goto(r, "done")
  /\ UNCHANGED <<cached, permits, old, lock>>

\* A request without a guard is dropped by its caller.
Cancel(r) ==
  /\ pc[r] \in {"wait", "reader lookup", "timed out", "bypass", "multi"}
  /\ Goto(r, "done")
  /\ UNCHANGED <<cached, lockers, permits, old, lock>>

\* The cached value outlives its TTL.
Expire ==
  /\ cached = "fresh"
  /\ cached' = "stale"
  /\ UNCHANGED <<lockers, permits, old, pc, lock>>

\* The value is evicted to make room.
Evict ==
  /\ cached # "none"
  /\ cached' = "none"
  /\ UNCHANGED <<lockers, permits, old, pc, lock>>

Step(r) ==
  \/ CacheGet(r) \/ MultiGet(r) \/ TableRead(r) \/ TableWrite(r) \/ CheckPermits(r) \/ Acquire(r)
  \/ Recheck(r) \/ GuardRemoves(r)
  \/ \E ok \in BOOLEAN : LookupReturns(r, ok) \/ WriterReturns(r, ok)

Next ==
  \/ \E r \in Requests : Step(r) \/ GetStale(r) \/ TimeOut(r) \/ Cancel(r) \/ Age(r)
  \/ Expire \/ Evict

Spec == Init /\ [][Next]_vars

\* Every request task is scheduled, and lookup callbacks return or are cancelled.
FairSpec == Spec /\ \A r \in Requests : WF_vars(Step(r))

TypeOK ==
  /\ cached \in {"none", "fresh", "stale"}
  /\ lockers \in Requests \cup {NoLock}
  /\ permits \subseteq Requests
  /\ old \subseteq Requests
  /\ pc \in [Requests -> PC]
  /\ lock \in [Requests -> Requests \cup {NoLock}]

\* The requests that hold a WriterLockGuard.
Guarding == {r \in Requests : pc[r] \in {"write", "added"}}

\* A lock is in the table exactly while its guard lives, so there is at most one
\* guard, an old lock is not replaced, and no request finds a lock whose writer
\* is gone.
GuardOwnsEntry == \A r \in Requests : r \in Guarding <=> lockers = r

\* A reader that waits has a writer that will wake it: permits are there or the
\* guard that adds them is alive, cancelled writers included.
WaitersWillWake ==
  \A r \in Requests :
    pc[r] \in {"read", "wait"} => lock[r] \in permits \/ pc[lock[r]] = "write"

\* Every get() returns, whether or not lock_timeout is set and whatever happens
\* to the lookups of other requests.
EveryGetReturns == \A r \in Requests : pc[r] = "missed" ~> pc[r] = "done"

\* Concurrent gets of one key share one lookup: a request takes the guard and
\* calls the lookup only when no other one has just stored the value.
LookupOnlyOnMiss ==
  [][\A r \in Requests : pc[r] # "write" /\ pc'[r] = "write" => cached # "fresh"]_vars
============================================================================
