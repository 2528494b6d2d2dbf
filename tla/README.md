# Pingora in TLA+

A model of the parts of Pingora in which several actors share state: TLA+
modules translated from the Rust code, TLC runs on small instances, and TLAPS
proofs for instances of any size. `PROJECT.json` maps every definition to the
source lines it stands for, and lists the runs, the hazards with the properties
that watch them, the mutants and the theorems.

## The system and its parts

| Part | Shared state | What makes it hard |
|---|---|---|
| proxy (`pingora-proxy`) | two halves of an attempt joined by bounded pipes | half-closed streams, upgrades, retries with a consumed body, clients that leave |
| cache (`pingora-cache`) | `HttpCache` phase, storage, cache lock, fill publication | streaming reads of unfinished writes, permits handed to subrequests, purges, variants |
| connectors and pool (`pingora-core/src/connectors`, `pingora-pool`) | idle connections, stream counters, LRU | put against eviction, reused ids, sharing a connection that is being released |
| HTTP sessions (`pingora-core/src/protocols/http`) | framing, keep-alive, flow control | bytes read past a message, drain, shutdown, ping |
| LRU (`pingora-lru`) | shards, atomic totals, actors, files | totals outside the locks, messages behind the calls, crashes between files |
| memory cache (`pingora-memory-cache`) | value, lock table, guards | coalesced lookups, cancellation, timeouts |
| timers (`pingora-timeout`) | per-thread trees, clock thread, watchdog | lost wakeups, rounding, fork |
| load balancing (`pingora-load-balancing`) | membership, flags, health, selectors | snapshots that outlive updates, a gate shared by groups |
| server (`pingora-core/src/server`, `services`, `listeners`) | start order, runtimes, listening sockets | dependencies, shutdown, upgrade between processes |

The server accepts a connection and hands it to a session; the session's
requests go to the proxy, which asks the cache through the cache lock, takes an
upstream connection from the connectors and bounds its waits with the timers.
The LRU evicts what the cache stored; the load balancer picks the peer.

Where one component uses another, the model does too: `ProxyCache` runs over
`SingleFlight`, what the cache lock promises, and `CacheLock` is proved to
implement it; `Http1Body` and `Http1Session` read with `BodyReader`; `ProxyH2`
and `ProxyCustom` extend the loop of `ProxyDuplex`; `Lru` keeps its order as
`LinkedList` is shown to.

## Modules

| Module | Models | State and steps |
|---|---|---|
| `CacheLock` | `lock`, `wait`, age timeout, `release`, drop of a permit | the slot of one key; a lock is named after the request that made it; one action per atomic step |
| `SingleFlight` | what that lock promises | writers, readers, outcomes, without table or semaphore |
| `FillPublication` | `watch_fill`, `publish`, `unlock` | the registry is a sequence; the bounded sweep and the `swap_remove` pass are functions on it |
| `ProxyCache` | `proxy_cache()` over `HttpCache` and `MemCache` | a request is a record with its pc, phase, permit, the permit its ctx carries, and its hit; the storage is `temp` and `cached` |
| `Variants` | variance keys, provenance, purge | a primary slot and one slot for each variance, and the fills of each as `MemCache` shows them to lookups; the cache lock is optional; `reset`, `carried`, `crossed`, `late` and `same` are history |
| `Freshness` | Cache-Control, `CacheMeta`, hit filter, 304 merge | one asset through admissions, answers and expiry |
| `RangeFilter` | range parsing, header filter, body filter, seeking reader | one request; a body is the sequence of its byte positions |
| `ProxyRequest` | the attempts of a request | which connection, what is retried, what is reused |
| `ProxyDuplex`, `ProxyH2`, `ProxyCustom` | one attempt to an HTTP/1, HTTP/2 or custom upstream | the halves `up` and `down`, pipes `toUp` and `toDown`, client, origin and cache; one action per branch of a `select!` |
| `SubrequestPipe` | subrequest session and `pipe_subrequest` | two channels and two oneshots between client, pipe and subrequest |
| `ConnectionPool` | `ConnectionPool`, `PoolNode`, `Lru` | one group; `remove()` is split where it holds an entry; each idle task is a worker |
| `H2Connector` | `ConnectionRef`, `InUsePool`, `Connector` | `spawn_stream` and `release_http_session` in their atomic steps; pools are bags |
| `BodyReader`, `Http1Body`, `Http1Session` | body framing, one body on the wire, one client connection | a byte is its class; reads and writes of any size |
| `H2Session` | both ends of an HTTP/2 connection | streams with windows, accept loop, drain, ping; the `h2` crate is external |
| `ReadThrough` | `RTCache` | one key; a lock is named after its writer |
| `Timer`, `TimerClock` | timers, clock thread and fork | time in fractions of a millisecond; the age of the watchdog |
| `Lru`, `LinkedList`, `ListOrder` | sharded LRU and its list | a call is a step on the shard and then one for each atomic; the list's links and free slots |
| `AsyncLru` | LRU actors and eviction worker | queues, batches, totals; the `Effect` of a message is what its handler changes |
| `ShardFiles` | saving, loading, cleaning up shards | processes that crash between system calls |
| `BackendView` | views, flags, health, health service | snapshots share flags and handles; weak references |
| `SelectorRebuild` | groups, rebuild workers, gate | one worker per selector slot; permits, retired and orphaned selectors |
| `ServerRun`, `ServerUpgrade` | start and stop of a process; transfer of sockets | main thread, parent, services; kernel sockets as far as the code relies on them; a transfer with more names or descriptors than its buffers hold |

`MC_*` modules give the components small instances. Those that ask the same
kind of question are explored in one run: `part` says which component runs in a
behaviour, and the others stay in an initial state. They do not interact there,
so each is explored exactly as it would be alone. `*Proofs` hold the theorems.
An operator named `X_Something` next to `X` is a mistaken version of `X`, against
which a property is tried.

## Runs

| Run | Instance | Shows |
|---|---|---|
| `cache_lock` | 3 requests | one writer unless a lock outlived its age; a lock that is queued behind has a writer that will unlock it; no released lock reads `Waiting`; every request becomes the writer or leaves; `CacheLock` implements `SingleFlight` |
| `proxy_cache` | 2 requests, each with a background subrequest, 1 retry, forced misses and hits, failed lookups, a purge | permits belong to somebody who runs; only whole bodies are admitted or served; no call in a wrong phase; a storage panic only after a purge or over a fill that expired before it was stored; every request ends |
| `proxy_attempt` | 49 exchanges with 0 to 2 chunks each way, pipes of 1 | no message that was cut short passes for whole; a connection is reused only at a message's end; a tunnel stays open until a side closes it; every attempt ends, and nothing deadlocks |
| `sessions` | 14 subrequests over channels of 1; 7 HTTP/2 connections of 2 streams, window 1 | responses arrive whole or their failure does; an idle close is of an idle connection; nobody is left waiting |
| `connections` | 3 requests on 1 HTTP/2 connection of 2 streams; a pool of 1 with 2 ids; 2 requests to 5 kinds of peers; small bodies in every framing, cut and damaged at each byte; sequences of up to 3 requests | stream counts; the pool's LRU and owners; no second write of what may be written once or outgrew the retry buffer; one response per client; bodies as sent; requests in turn |
| `waiting` | 3 lookups; 2 readers of 2 tokens; 2 timeouts of 1 or 3 up to time 4; 2 calls and 2 clock threads; 13 configurations of 2 or 3 services | nobody waits for what cannot come; timers and services in order; every wait ends |
| `background` | 2 groups of 2 selectors, 3 memberships, 1 dropped task; 2 LRU shards with racing calls | one selector besides the published ones; no membership lost; the LRU's map and totals; the tasks catch up |
| `stores` | 168 pairs of call sequences of 2 threads on 2 shards; lists of 3 slots; 9 Cache-Control headers up to time 4; 645 range requests | LRU tables and totals; use only as headers allow; exactly the bytes asked for; the list keeps its order |
| `variants` | 2 requests with the lock, 1 Vary header or none, 2 values, time 5 | a variant's slot and fills hold it; nothing older than a purge or a change of Vary is served to a later request, but for the two races `TombstoneHolds` names |
| `control` | 2 processes, 2 shards, 2 saves, 1 failure; 2 views; upgrades of 1 or 2 addresses, with room for 1 or 2 names and descriptors, 1 crash, 1 client | only whole files are loaded; views agree; sockets survive an upgrade, and no connection stays queued unless the bootstrap service panicked |

Two runs show the code departing from what a test or a comment of its own says;
`PROJECT.json` quotes it:

- `lost_body`: when a retried upload's body is past what the retry buffer kept,
  the dropped pipe is taken for the end of the body and the request is ended as
  complete (`proxy_h1.rs`);
- `lost_notify`: a timer that fires between the load of its flag and
  `notified()` never wakes the timeout (`timer.rs`). The passing run shows that
  no timer is lost and that each is fired.

### Bounds

Two or three requests are enough for a writer, a reader and a third who comes
between them; pipes, windows and channels of one are full after one step and so
reach back-pressure at once; a pool, a queue and a map of one overflow with the
second entry; saves, generations and crashes are counted because they would
otherwise grow for ever. `MaxTime`, `MaxGeneration`, `MaxDrops`, `MaxSaves`,
`MaxFailures`, `MaxRetries`, `MaxCrashes`, `MaxSlots` and `MaxQueued` are such
caps; they are conjuncts of guards, never constraints that hide a successor.
The theorems hold for all their values. `connections` uses symmetry of the two
connection ids, `variants` that of the requests and of the values they send:
the code compares them only for equality, and neither run checks liveness.

Deadlock is checked in `proxy_attempt`. Elsewhere the system may stop: requests
end, a server shuts down, and the caps are reached.

### Fairness

Weak fairness is assumed of steps that a task or a thread takes by itself once
it can: tokio polls a woken task, a spawned thread runs, a clock ticks, an age
or a ping timeout passes. Strong fairness is assumed where the code waits in a
queue that serves everybody in turn or picks at random, so that something
enabled again and again is taken in the end: the fair semaphore of the rebuild
gate (`Acquire`), a build that does not fail each time (`BuildReturns`), the
random shard an eviction picks (`WorkerEvicts`), and the clock thread's scan.
Within an attempt, a peer takes or refuses what is written and an upload
continues or times out. Nothing is assumed of idle clients, origins, purges,
expiry, crashes or failures.

## Proofs

Every theorem is checked by TLAPS for all values of the constants that satisfy
the named assumptions: any set of requests, processes, groups or connections,
any limits. The assumptions only say that a marker for "none" is not one of the
values it stands beside (`NoLockAssumption`, `NoneAssumption`, the last part of
`ProxyRequest!ConstantsOK`), that counts are natural numbers, that a limit on streams or shards is not zero, that the set of
requests to an HTTP/2 peer is finite, and that selector slots are selectors.
TLC evaluates each of them in a run.

| Module | Theorem | States |
|---|---|---|
| `CacheLockProofs` | `TypeCorrect`, `WriterAlwaysKnown`, `ReleasedHasStatus` | the invariants of `cache_lock` |
| | `Refinement` | `Spec => ImplementsSingleFlight`: every step is a step of `SingleFlight` or a stutter |
| `ProxyCacheProofs` | `PermitsAlwaysAccounted` | a write permit is in the hands of a request or subrequest that still runs |
| | `StoreAlwaysSound` | only whole bodies are admitted; no call in a wrong phase; a storage panic only after a purge, or over a fill that expired before it was stored |
| | `ReadersServedWhole` | with `fail_readers_of_dropped_writes`, a reader of a fill in progress ends cleanly only if the fill was whole |
| `VariantsProofs` | `VariantsStayApart` | `VariantsApart`, with the cache lock or without |
| `ProxyRequestProofs` | `ResendsAlwaysSafe` | a request that is not idempotent is written upstream at most once, and none is written again once its body outgrew the retry buffer |
| | `ResponsesAlwaysApart` | a client gets the response of one attempt, to its own request |
| `H2ConnectorProofs` | `StreamsAlwaysCounted` | `current_streams` is exact and `max_streams` is kept |
| `ReadThroughProofs` | `GuardExact`, `ReadersWake` | guard and table agree; no reader waits for a writer that is gone |
| `ShardFilesProofs` | `FilesAlwaysSound` | loads read whole files only; a load that no save overlapped leaves no temporary file |
| `SelectorRebuildProofs` | `LatestNeverLost` | the latest membership is published, in flight, pending or about to be scheduled |
| | `OneExtraAlways` | at most one selector besides the published ones, apart from dropped builds |

### The arguments

Each proof finds an invariant that implies the property and that every step
keeps, with one lemma or case per action.

- **Cache lock.** The property alone does not say why a reader finds a status.
  `IInv` adds when a lock exists (`NotYetCreated`, `HoldsCreated`), that
  `unlock()` stores before it opens (`OpenStatus`), that only aged locks are
  replaced while in use (`AgedExpired`, `EntryCreated`), and that without aging
  the permit is the one in the table (`PermitInTable`). The refinement maps pcs
  to the roles of `SingleFlight`; table steps are stutters.
- **Proxy cache.** `Lane` ties each pc to the phases and permits it can have;
  `Written` ties the progress of a fill to its writer's pc. `StoreInv` says a
  body in the store was finished by a request that is done, and that a partial
  hit belongs to a fill that began. `FindsInv` says that before a purge a
  request that saw a stored object finds one: that is what excludes the panics.
  A request that saw a fill may find nothing, which is the exception.
- **Variants.** `AssetInv` says of what a key holds, in its slot or as a fill:
  under the key of a variant it is that variant, with a body as new as its
  metadata unless a 304 crossed a fill; under the primary key neither its body
  nor its provenance is from before the last reset, unless an older request
  wrote there since. `Refreshing` and `Filling` say as much of the copies that
  requests hold between lookup and write, and `Looking` that the reader of a
  variant carries a tombstone no older than the reset. The step that needs more
  is the 304, which writes the metadata found at the lookup over whatever the
  slot holds by now: `Newer` says that while a request asks the origin about an
  asset, no body older than that asset comes to its variant. None of this
  depends on who holds the lock. Each action touches one request and at most
  one slot; lemmas state once what the rest keeps (`AsBefore`, `Onward`).
- **Requests and connections.** `SentInv`: the request goes back to the loop
  with the error `yes` only, and `error_while_proxy()` leaves no such error to a
  request that was written and may be written once, or whose body is truncated
  in the retry buffer. `WroteInv`: once a header
  reached the client, the error of the attempt is none or `no`. For the answers
  three facts hold each other up: a connection that carries one request at a
  time is had by one request (`AloneInv`); what it has yet to answer is nothing,
  or the request that wrote to it (`HeldInv`); and it goes to the pool only with
  nothing to answer (`IdleInv`), because `keep` is set by a body that ended.
- **HTTP/2 connector.** `streams[c]` is the cardinality of the requests that
  were granted a stream, plus those about to give back an over-reservation, plus
  those lost to cancelled calls; each action moves one request between sets.
- **Read-through cache.** A guard that lives is in the table; permits were added
  by the locks that left it (`AddedPermits`); a reader's lock has permits or a
  guard (`ReaderLock`, `WaitersWillWake`).
- **Shard files.** Saves have numbers of their own (`OwnSave`, `SavesKnown`), a
  save leaves files only for shards it has come to (`NotAhead`) and renames what
  it wrote (`WrittenFirst`), so a file in place is whole. For the clean-up: while
  the number of saves is what it was when a quiet load began, nobody saves, and
  every temporary file is on the load's list (`QuietLoad`).
- **Selector rebuild.** `GateInv` relates permits to workers; `LatestInv` says
  where a slot's latest membership is, for each pc of its worker and of the
  group's `run()`; `MemoryInv` says who owns each selector in memory: the slot,
  the worker that holds the permit, a reader, a drop under way or a build whose
  task is gone. The two theorems need all three at once, since a stopping
  group, a failed build and a dropped task hand requests and selectors from one
  owner to another in the same step.

### What is only model-checked

- Liveness (`EveryRequestProgresses`, `EveryRequestEnds`, `EveryAttemptEnds`,
  `NobodyLeftWaiting`, `EveryWaitEnds`, `TasksCatchUp` and the last part of
  `SocketsKept`): fairness and `ENABLED` are beyond the prover.
- What recursive definitions over sequences compute (`BodyReader` and with it
  `BodyAsSent` and `ServedInTurn`; `RangeFilter`, `Freshness`, the sweep of
  `FillPublication`, `Lru` and `LinkedList`, the dependency graph of
  `ServerRun`): induction over data is beyond it too.
- The attempt, the sessions, the pool, the asynchronous LRU, the backend views
  and the upgrade: their safety is left to TLC. The state of an attempt is a
  product of six records whose steps nearly all change several at once; the
  others are of the kind proved above, and are where proofs would go next.

## Statements that do not hold

While modelling, these were stated from a comment, a document or expectation,
and TLC refuted them. Their definitions are kept in the modules; they are in no
run, except the two above. Most are refuted on the instance of their component's
run. `FramedTwiceIsLast` and `ReusedInReusableState` need a request framed twice
and one whose chunks are damaged, `ServedOwnVariant` two `Vary` headers.

| Definition | What happens instead |
|---|---|
| `CacheLock!ReleaseUnlocks` | the release of a lock that outlived its age timeout removes the one that replaced it, whose writer then finds none and drops its permit unfinished |
| `ProxyCache!NoDanglingPermit` | a background subrequest that finds a fresh asset serves it and drops the permit it was given |
| `ProxyCache!NoSelfWait` | a subrequest whose own lookup misses waits for the permit it carries, until the age timeout |
| `ProxyCache!MetaMatchesBody` | a revalidated old meta is written over a body another request has stored |
| `ProxyCache!PanicOnlyAfterPurge` | a lookup finds a fill that expired before its end, and the 304 that renews it finds nothing stored: `update_meta()` panics |
| `ReadThrough!LookupOnlyOnMiss` | a request takes the guard just after another stored the value, and looks up again |
| `ConnectionPool!PoolBounded` | an eviction picks a connection that its own put has listed and not inserted yet, finds nothing to remove, and the put then inserts it outside the LRU |
| `ConnectionPool!PooledTracked` | the idle task of an earlier stay takes a connection off the LRU that is in the pool again, and nothing watches it any more |
| `ConnectionPool!RemovedNodeEmpty` | a removal that scans a node puts back the entry in its hand after the node was dropped as empty |
| `ConnectionPool!LruLenNeverWraps` | an entry is popped before its put has counted it, and `len` is `usize::MAX` for a moment |
| `H2Connector!NotInBothPools`, `IdleOnce` | a release drops its stream, decides and puts in separate steps, and another request takes and releases the connection in between |
| `H2Connector!NoStreamAfterShutdown` | a connection taken from the in-use pool is tested for being closed, not for the mark |
| `ProxyRequest!EveryClientAnswered` | `max_retries` counts attempts: with 0 the loop ends before the first, without an error and without a response |
| `ProxyRequest!DowngradedUsesH1` | the pool of HTTP/2 connections is looked at before the preference, so the retry goes back to the connection that asked for HTTP/1 |
| `Http1Session!FramedTwiceIsLast` | `HttpServer` sets keepalive from the `Connection` header after the rule for two framings has disabled it |
| `Http1Session!ReusedInReusableState` | the same setting keeps a connection whose chunked body ended in bytes that do not parse |
| `Http1Session!KeepaliveRequestLimit` | the limit counts reuses: one request more than it says is served |
| `Http1Body!SplitIndependent` | after a write that timed out, `finish()` still writes the last chunk, and a reader may take it for payload of the chunk before |
| `SubrequestPipe!EveryUploadPiped` | an HTTP/2 body of unknown length has no header that announces it, and the HTTP/1 session of the subrequest takes the request to have none |
| `Freshness!NoCacheRevalidated` | `no-cache` with `stale-while-revalidate` is served while updating |
| `Freshness!DeltaCapped` | only a value that does not fit in 32 bits is replaced by the cap; those between 2^31 and 2^32 are kept |
| `RangeFilter!EveryHeaderServed` | a suffix of no bytes becomes an empty range, whose seek fails; a start beyond `usize` makes `a-b` a suffix |
| `Variants!TombstoneHoldsOnBodies` | a fill goes stale before it ends, and the 304 of its refresh puts its metadata on the variant's older body |
| `Variants!ServedOwnVariant` | when the origin changes between two `Vary` headers, a 304 writes the old meta over a body that a refresh leaving its secondary slot has stored in the primary |
| `BackendView!SelectionKnown` | a request that loaded a selector before two updates may find none of its backends in the view |
| `BackendView!ObservedEverywhere` | a backend that left every view and came back has a new health cell, which an older snapshot does not see |
| `SelectorRebuild!OneAdditionalGeneration` | a build whose task was dropped holds its selector beyond the gate |
| `Lru!CountsExact` | `admit()` takes a key that was inserted with weight 0 for a new one and counts it twice |
| `Lru!WeightNeverWraps`, `AsyncLru!LoadSettles`, `EvictsOnlyOverLimit` | totals follow after the shard is let go; the worker looks before the actors have caught up, or evicts for one excess twice |
| `ShardFiles!RunningSaveKept` | the clean-up of a load removes the temporary file of a save in another process |
| `ServerRun!FailedDropGoesOn` | when the user cannot be resolved, `daemonize` exits and the parent reports a failed start |
| `ServerRun!NeverStartsBefore`, `ReadyMeansBootstrapped` | a runtime that shuts down releases dependents; the daemon's parent is released before `load_fds` |
| `ServerUpgrade!NoRequestRefused` | the old process closes its sockets also when the transfer failed |
| `ServerUpgrade!QueuedAlwaysLeaves` | fewer names than descriptors panic the bootstrap service: the sockets stay open, no service has them, and their backlogs fill |
| `TimerClock!TimersFire` | after a fork the child has no clock thread until a call finds the clock stale and starts one |

`EveryAttemptEnds` fails on three more exchanges that `MC_ProxyAttempt` names:
an upload whose response is complete at its header (`ShortUpload`), a cacheable
request still being uploaded (`CachedUpload`), and an HTTP/2 origin that answers
as it reads while the pipes are full (`EchoOrigin`); in each a half waits for a
client or an origin that waits for it, and a timeout has to end the wait.

## Not modelled

Selection algorithms, discovery, the rate estimators, TinyUfo's queues,
compression, TLS, header parsing and serialization, configuration, logging and
metrics: pure functions, external libraries or I/O without shared state.
`PROJECT.json` lists every part with the reason. Within the modelled parts, the
user's callbacks are choices among the outcomes the code distinguishes, sockets
deliver, fail or close, and the `h2` crate, tokio's channels and semaphores and
the kernel's listening sockets are modelled from how the code uses them.

Some simplifications narrow what the runs show. Body filters of modules pass the
data on or fail. A daemon's set-up fails only for a user that cannot be resolved.
The text of `Content-Range` is not modelled, nor the underflow of its end for a
suffix of an empty body. When the names of transferred sockets are cut,
the part left of the last one is taken not to be the address of a service.
