------------------------------ MODULE ProxyCache ------------------------------
(***************************************************************************)
(* Caching in the proxy: proxy_cache.rs of pingora-proxy driving HttpCache *)
(* (pingora-cache/src/lib.rs) over MemCache (memory.rs) and a cache lock.  *)
(*                                                                         *)
(* Requests for one cache key look it up, wait behind one another, serve a *)
(* stale object while a background subrequest carries the write permit     *)
(* away, revalidate, and admit responses that others read while they are   *)
(* still being written; a purge and an expiry come in between.  The lock   *)
(* is SingleFlight, which CacheLock implements.  HttpCache panics when it  *)
(* is called in the wrong phase, and so does this model.                   *)
(*                                                                         *)
(* A request whose cache is disabled goes on as a plain proxied request,   *)
(* which is "done" here.  Variance is left out: one slot per key.          *)
(***************************************************************************)
EXTENDS Naturals

CONSTANTS Requests,      \* requests and background subrequests for the key
          NoLock,
          Old,           \* the response cached before they start
          None,          \* no object, no response
          Forced,        \* what cache_hit_filter may force
          Unlocked,      \* fills without a lock: "bypass", "lookup error"
          MaxRetries,    \* DEFAULT_MAX_CACHE_LOCK_RETRIES or its override
          FailReaders    \* MemCache::fail_readers_of_dropped_writes

ASSUME NoLockAssumption == NoLock \notin Requests

ASSUME NoneAssumption ==
  None \notin [meta : Requests \cup {Old}, body : Requests \cup {Old},
               partial : BOOLEAN, fresh : BOOLEAN]

ASSUME RetriesAssumption == MaxRetries \in Nat

VARIABLES role, on, outcome, aged,      \* the lock: see SingleFlight
          req,           \* each request and its HttpCache
          cached, temp,  \* MemCache.cached and .temp, for the key
          prog,          \* a fill's bytes_written: "part", "all", "complete", "aborted"
          lapsed,        \* the fills whose response is no longer fresh
          streaming,     \* support_streaming_partial_write()
          purge          \* a concurrent PURGE: "ready", "temp", "over"

lockVars == <<role, on, outcome, aged>>
storeVars == <<cached, temp, prog, lapsed, streaming, purge>>
vars == <<lockVars, req, storeVars>>

Lock == INSTANCE SingleFlight

Phase == {"CacheKey", "Bypass", "Miss", "Hit", "Stale", "StaleUpdating", "Expired",
          "Revalidated", "RevalidatedNoCache", "Disabled"}

Panicked == {"wrong phase", "panicked"}

Ended == {"served", "done", "wrong phase", "panicked"}

PC == {"idle", "lookup", "missed", "found", "wait", "leave", "upstream", "attach",
       "fill", "finish", "store", "serve"} \cup Ended

\* What a lookup found: the response the meta is from, the one the body is from,
\* whether the body is still being written, and meta.is_fresh().
Object(m, b, p, f) == [meta |-> m, body |-> b, partial |-> p, fresh |-> f]

\* A request without cache state: pc, HttpCache.phase, cache_lock_retries, the
\* Locked::Write in its lock_ctx, the permit in its subrequest::Ctx, and the meta
\* and body_reader from its lookup.
Bare(l) == [pc |-> l, phase |-> "Disabled", retries |-> 0,
            permit |-> NoLock, carried |-> NoLock, hit |-> None]

Init ==
  /\ Lock!Init
  /\ req = [r \in Requests |-> Bare("idle")]
  /\ cached \in {None, Object(Old, Old, FALSE, FALSE)}
  /\ temp = {}
  /\ prog = [r \in Requests |-> "none"]
  /\ lapsed = {}
  /\ streaming \in BOOLEAN
  /\ purge = "ready"

At(r, l) == req[r].pc = l
Becomes(r, q) == req' = [req EXCEPT ![r] = q]

\* The request's state when proxy_cache() returns None.  process_request() then
\* lets cleanup_sub_req() release a permit left in a subrequest's ctx.
BreakNone(q, p) ==
  IF p = "Disabled" /\ q.carried = NoLock THEN Bare("done")
  ELSE [q EXCEPT !.pc = IF q.carried # NoLock THEN "leave" ELSE "upstream",
                 !.phase = p, !.retries = 0,
                 !.hit = IF p = "Stale" THEN @ ELSE None]

\* HttpCache::release_write_lock(), if there is a permit.
ReleaseLock(r, s) ==
  IF req[r].permit # NoLock THEN Lock!Finish(req[r].permit, s) ELSE UNCHANGED lockVars

\* Mutant: a dropped fill is not published as aborted.
DropMissHandler_Silent(r) ==
  /\ temp' = temp \ {r} /\ lapsed' = lapsed \ {r}
  /\ UNCHANGED <<cached, prog, streaming, purge>>

\* enabled_ctx goes, and the miss handler with it.
DropMissHandler(r) ==
  /\ temp' = temp \ {r} /\ lapsed' = lapsed \ {r}
  /\ prog' = [prog EXCEPT ![r] = IF FailReaders /\ @ # "none" THEN "aborted" ELSE @]
  /\ UNCHANGED <<cached, streaming, purge>>

\* A panic unwinds the task: its permit is dropped unfinished.  What it had
\* looked up is remembered, to tell why.
Panic(r, l) ==
  /\ ReleaseLock(r, "Dangling")
  /\ DropMissHandler(r)
  /\ Becomes(r, [Bare(l) EXCEPT !.hit = req[r].hit])

\* disable(): the lock is released as the reason says.
Disable(r, s) ==
  /\ ReleaseLock(r, s)
  /\ DropMissHandler(r)
  /\ Becomes(r, Bare("done"))

\* The start of proxy_cache(): the cache is looked up, bypassed as predicted, or
\* (for a subrequest) not enabled at all.
Start(r) ==
  /\ At(r, "idle")
  /\ \/ Becomes(r, [req[r] EXCEPT !.pc = "lookup", !.phase = "CacheKey"])
     \/ "bypass" \in Unlocked /\ Becomes(r, BreakNone(req[r], "Bypass"))
     \/ req[r].carried # NoLock /\ Becomes(r, BreakNone(req[r], "Disabled"))
  /\ UNCHANGED <<lockVars, storeVars>>

\* MemCache::lookup(): any partial write before the object.  proxy_cache() asks
\* meta.is_fresh() of either.
LookupResult ==
  IF streaming /\ temp # {} THEN {Object(w, w, TRUE, w \notin lapsed) : w \in temp} ELSE {cached}

\* cache_lookup() up to the storage's answer.
Lookup(r) ==
  /\ At(r, "lookup")
  /\ \/ /\ req[r].phase \in {"CacheKey", "Stale"}
        /\ \E h \in LookupResult :
             Becomes(r, [req[r] EXCEPT !.hit = h,
                                       !.pc = IF h = None THEN "missed" ELSE "found"])
        /\ UNCHANGED <<lockVars, storeVars>>
     \/ req[r].phase \notin {"CacheKey", "Stale"} /\ Panic(r, "wrong phase")

\* The storage failed: cache_miss() without a lock.
LookupError(r) ==
  /\ At(r, "lookup") /\ "lookup error" \in Unlocked
  /\ Becomes(r, BreakNone(req[r], "Miss"))
  /\ UNCHANGED <<lockVars, storeVars>>

\* The admission policy defers a miss.  It observes a request only once; here it
\* may defer any miss before the Stale phase.
Deferred(r) ==
  /\ At(r, "missed") /\ req[r].phase = "CacheKey"
  /\ Becomes(r, BreakNone(req[r], "Disabled"))
  /\ UNCHANGED <<lockVars, storeVars>>

\* cache_lock.lock() would return Locked::Read.
Contended == \E c \in Requests : role[c] = "writer" /\ outcome[c] = "Waiting"

Behind(r) == \E c \in Requests : Lock!Join(r, c)

\* Nothing usable was found: go upstream as the writer, or wait.
AsMiss(r) ==
  /\ \/ /\ Lock!Elect(r)
        /\ Becomes(r, BreakNone([req[r] EXCEPT !.permit = r], "Miss"))
     \/ /\ Behind(r)
        /\ Becomes(r, [req[r] EXCEPT !.pc = "wait", !.hit = None])
  /\ UNCHANGED storeVars

Missed(r) == At(r, "missed") /\ AsMiss(r)

\* cache_found() for HitStatus::ForceMiss or FailedHitFilter.
FoundMiss(r) == At(r, "found") /\ "ForceMiss" \in Forced /\ AsMiss(r)

\* cache_found() for a fresh or forced-fresh object.
FoundFresh(r) ==
  /\ At(r, "found")
  /\ req[r].hit.fresh \/ "ForceFresh" \in Forced
  /\ Becomes(r, [req[r] EXCEPT !.pc = "serve", !.phase = "Hit", !.retries = 0])
  /\ UNCHANGED <<lockVars, storeVars>>

ServeStale(q) == [q EXCEPT !.pc = "serve", !.phase = "StaleUpdating", !.retries = 0]

\* A background subrequest takes the permit it was started with.
TakeOver(r) ==
  /\ req[r].carried # NoLock /\ Contended
  /\ Becomes(r, BreakNone([req[r] EXCEPT !.permit = req[r].carried,
                                         !.carried = NoLock], "Stale"))
  /\ UNCHANGED lockVars

\* Another request is updating the object: serve it stale, or wait.
StaleBehind(r) ==
  /\ req[r].carried = NoLock
  /\ \/ Contended /\ Becomes(r, ServeStale(req[r])) /\ UNCHANGED lockVars
     \/ Behind(r) /\ Becomes(r, [req[r] EXCEPT !.pc = "wait", !.phase = "Stale"])

\* The writer serves stale and moves its permit to a new background subrequest,
\* or goes upstream itself.
StaleWriter(r) ==
  /\ Lock!Elect(r)
  /\ \/ \E b \in Requests \ {r} :
          /\ req[b] = Bare("idle")
          /\ req' = [req EXCEPT ![b].carried = r, ![r] = ServeStale(@)]
     \/ Becomes(r, BreakNone([req[r] EXCEPT !.permit = r], "Stale"))

\* cache_found() for an expired object, and what proxy_cache() does with it.
FoundStale(r) ==
  /\ At(r, "found")
  /\ ~req[r].hit.fresh \/ "ForceExpired" \in Forced
  /\ TakeOver(r) \/ StaleBehind(r) \/ StaleWriter(r)
  /\ UNCHANGED storeVars

\* cache_lock_wait() returned what became of the lock: handle_lock_wait_outcome()
\* and cache_lock_retry_limit_exceeded().
Woken(r) ==
  /\ At(r, "wait")
  /\ Lock!Wake(r)
  /\ \/ /\ role'[r] = "out" /\ req[r].retries < MaxRetries
        /\ Becomes(r, [req[r] EXCEPT !.pc = "lookup", !.retries = @ + 1])
     \/ /\ role'[r] = "done"
        /\ outcome[on[r]] = "GiveUp" \/ req[r].retries = MaxRetries
        /\ Becomes(r, BreakNone(req[r], "Disabled"))
  /\ UNCHANGED storeVars

\* Mutant: readers wait for as long as the writer takes.
AgeTimeout_Never(r) ==
  /\ At(r, "wait") /\ outcome[on[r]] # "Waiting"
  /\ Lock!TimeOut(r)
  /\ UNCHANGED <<req, storeVars>>

\* The lock is too old.
AgeTimeout(r) ==
  /\ At(r, "wait") /\ outcome[on[r]] = "Waiting"
  /\ Lock!TimeOut(r)
  /\ UNCHANGED <<req, storeVars>>

\* The reader's own wait timeout, or a fill that is no use to it.
WaitTimeout(r) ==
  /\ At(r, "wait")
  /\ Lock!Leave(r)
  /\ Becomes(r, BreakNone(req[r], "Disabled"))
  /\ UNCHANGED storeVars

\* Mutant: the permit in the ctx is forgotten.
CleanupSubReq_Forget(r) ==
  /\ At(r, "leave")
  /\ Becomes(r, BreakNone([req[r] EXCEPT !.carried = NoLock], req[r].phase))
  /\ UNCHANGED <<lockVars, storeVars>>

\* cleanup_sub_req().
CleanupSubReq(r) ==
  /\ At(r, "leave")
  /\ Lock!Finish(req[r].carried, "TransientError")
  /\ Becomes(r, BreakNone([req[r] EXCEPT !.carried = NoLock], req[r].phase))
  /\ UNCHANGED storeVars

\* The upstream filter declined, or no attempt gave a response.
UpstreamFails(r) == At(r, "upstream") /\ Disable(r, "TransientError")

\* An uncacheable or too large response, or a 304 without a cached object.
Uncacheable(r) == At(r, "upstream") /\ Disable(r, "GiveUp")

\* Serve what the lookup found, having released the permit.
ServeLookup(r, s, p) ==
  /\ ReleaseLock(r, s)
  /\ Becomes(r, [req[r] EXCEPT !.pc = "serve", !.phase = p, !.permit = NoLock])

\* handle_stale_if_error() and the 5xx of revalidate_or_stale().
StaleIfError(r) ==
  /\ At(r, "upstream") /\ req[r].phase = "Stale"
  /\ ServeLookup(r, "TransientError", "Stale")
  /\ UNCHANGED storeVars

\* revalidate_cache_meta().  MemCache::update_meta() panics without an object.
Revalidate(r) ==
  \/ /\ req[r].phase = "Stale" /\ cached # None
     /\ cached' = [cached EXCEPT !.meta = req[r].hit.meta, !.fresh = TRUE]
     /\ ServeLookup(r, "Done", "Revalidated")
     /\ UNCHANGED <<temp, prog, lapsed, purge, streaming>>
  \/ req[r].phase # "Stale" /\ Panic(r, "wrong phase")
  \/ req[r].phase = "Stale" /\ cached = None /\ Panic(r, "panicked")

\* revalidate_uncacheable().
RevalidateUncacheable(r) ==
  \/ /\ req[r].phase = "Stale"
     /\ \E s \in {"GiveUp", "TransientError"} : ServeLookup(r, s, "RevalidatedNoCache")
     /\ UNCHANGED storeVars
  \/ req[r].phase # "Stale" /\ Panic(r, "wrong phase")

\* revalidate_or_stale() on a 304, with the meta of the lookup.
NotModified(r) ==
  /\ At(r, "upstream") /\ req[r].hit # None
  /\ Revalidate(r) \/ RevalidateUncacheable(r)

\* cache_http_task() on a cacheable response header: cache_miss() if the cache
\* was bypassed, set_cache_meta(), and set_miss_handler() up to
\* lookup_streaming_write().
Admit(r) ==
  /\ At(r, "upstream")
  /\ \/ /\ req[r].phase \in {"Miss", "Bypass", "Stale"}
        /\ temp' = temp \cup {r}
        /\ prog' = [prog EXCEPT ![r] = "part"]
        /\ IF streaming THEN ReleaseLock(r, "Done") ELSE UNCHANGED lockVars
        /\ Becomes(r, [req[r] EXCEPT
             !.pc = IF streaming THEN "attach" ELSE "fill",
             !.phase = IF @ = "Stale" THEN "Expired" ELSE "Miss",
             !.permit = IF streaming THEN NoLock ELSE @,
             !.hit = None])
        /\ UNCHANGED <<cached, lapsed, purge, streaming>>
     \/ req[r].phase \notin {"Miss", "Bypass", "Stale"} /\ Panic(r, "wrong phase")

\* set_miss_handler(), lookup_streaming_write(): "must have partial write in
\* progress".
Attach(r) ==
  /\ At(r, "attach")
  /\ \/ /\ r \in temp
        /\ Becomes(r, [req[r] EXCEPT !.pc = "fill"])
        /\ UNCHANGED <<lockVars, storeVars>>
     \/ r \notin temp /\ Panic(r, "panicked")

\* The last of the body is written, flagged as the end or followed by Done.
WriteBody(r) ==
  /\ At(r, "fill")
  /\ \E p \in {"all", "complete"} : prog' = [prog EXCEPT ![r] = p]
  /\ Becomes(r, [req[r] EXCEPT !.pc = "finish"])
  /\ UNCHANGED <<lockVars, cached, temp, lapsed, purge, streaming>>

\* Mutant: a failed body is finished like a complete one.
FillFails_Finish(r) ==
  /\ At(r, "fill")
  /\ Becomes(r, [req[r] EXCEPT !.pc = "finish"])
  /\ UNCHANGED <<lockVars, storeVars>>

\* The upstream or a write fails in the middle of the body; so may the finish of
\* a storage that does not stream.
FillFails(r) ==
  /\ At(r, "fill") \/ (At(r, "finish") /\ ~streaming)
  /\ Disable(r, "TransientError")

\* MemMissHandler::finish(), reading the temp object.
FinishRead(r) ==
  /\ At(r, "finish")
  /\ \/ /\ r \in temp \/ ~streaming
        /\ Becomes(r, [req[r] EXCEPT !.pc = "store"])
        /\ UNCHANGED <<lockVars, storeVars>>
     \/ r \notin temp /\ streaming /\ Panic(r, "panicked")

\* finish(), storing the object and dropping the temp one; finish_miss_handler()
\* then releases a lock it still has.
FinishInsert(r) ==
  /\ At(r, "store")
  /\ cached' = Object(r, r, FALSE, r \notin lapsed)
  /\ temp' = temp \ {r} /\ lapsed' = lapsed \ {r}
  /\ ReleaseLock(r, "Done")
  /\ Becomes(r, Bare("done"))
  /\ UNCHANGED <<prog, purge, streaming>>

\* A subrequest that ends with the permit still in its ctx drops it.
EndServe(r, l) ==
  /\ IF req[r].carried # NoLock THEN Lock!Finish(req[r].carried, "Dangling")
                                ELSE UNCHANGED lockVars
  /\ Becomes(r, Bare(l))
  /\ UNCHANGED storeVars

\* PartialHit::read(): the end is flagged, or the writer is gone.
BodyEnds(h) ==
  h.partial => \/ prog[h.body] = "complete"
               \/ prog[h.body] # "aborted" /\ req[h.body].pc \in Ended

\* proxy_cache_hit(), or next_http_task() after a revalidation.
ServeHit(r) == At(r, "serve") /\ BodyEnds(req[r].hit) /\ EndServe(r, "served")

\* The fill it reads was dropped: the reader fails.
ReadAborted(r) ==
  /\ At(r, "serve")
  /\ req[r].hit.partial /\ prog[req[r].hit.body] = "aborted"
  /\ EndServe(r, "done")

\* The downstream fails.
ClientGone(r) == At(r, "serve") /\ EndServe(r, "done")

\* MemCache::purge(), one map and then the other.
PurgeTemp ==
  /\ purge = "ready"
  /\ temp' = {}
  /\ purge' = "temp"
  /\ UNCHANGED <<lockVars, req, cached, prog, lapsed, streaming>>

PurgeCached ==
  /\ purge = "temp"
  /\ cached' = None
  /\ purge' = "over"
  /\ UNCHANGED <<lockVars, req, temp, prog, lapsed, streaming>>

\* The fresh_until of a response that is still being written passes.
FillExpires(r) ==
  /\ r \in temp \ lapsed
  /\ lapsed' = lapsed \cup {r}
  /\ UNCHANGED <<lockVars, req, cached, temp, prog, streaming, purge>>

\* That of the cached object passes, or MemCache::expire() sets it to now.
ObjectExpires ==
  /\ cached # None /\ cached.fresh
  /\ cached' = [cached EXCEPT !.fresh = FALSE]
  /\ UNCHANGED <<lockVars, req, temp, prog, lapsed, streaming, purge>>

\* A lock outlives its age_timeout.
Age ==
  /\ ~aged /\ \E c \in Requests : role[c] = "writer"
  /\ Lock!Age
  /\ UNCHANGED <<req, storeVars>>

RequestStep(r) ==
  \/ Lookup(r) \/ Missed(r) \/ FoundFresh(r) \/ FoundMiss(r) \/ FoundStale(r)
  \/ Woken(r) \/ AgeTimeout(r) \/ CleanupSubReq(r)
  \/ UpstreamFails(r) \/ Uncacheable(r) \/ StaleIfError(r) \/ NotModified(r) \/ Admit(r)
  \/ Attach(r) \/ WriteBody(r) \/ FillFails(r) \/ FinishRead(r) \/ FinishInsert(r)
  \/ ServeHit(r) \/ ReadAborted(r)

Next ==
  \/ \E r \in Requests :
       \/ RequestStep(r) \/ Start(r) \/ LookupError(r) \/ Deferred(r) \/ WaitTimeout(r)
       \/ ClientGone(r) \/ FillExpires(r)
  \/ ObjectExpires \/ PurgeTemp \/ PurgeCached \/ Age

Spec == Init /\ [][Next]_vars

\* The executor runs every task that can run, upstreams answer or time out,
\* bodies end, and time passes.  Clients need not leave.
Fairness ==
  /\ \A r \in Requests :
       /\ WF_vars(RequestStep(r))
       /\ WF_vars(req[r].carried # NoLock /\ Start(r))
  /\ WF_vars(Age)

FairSpec == Spec /\ Fairness

------------------------------------------------------------------------------
Objects == [meta : Requests \cup {Old}, body : Requests \cup {Old},
            partial : BOOLEAN, fresh : BOOLEAN]

RequestState == [pc : PC, phase : Phase, retries : 0..MaxRetries,
                 permit : Requests \cup {NoLock}, carried : Requests \cup {NoLock},
                 hit : {None} \cup Objects]

\* Requests with their HttpCache, and MemCache, hold what the code declares.
TypeOK ==
  /\ role \in [Requests -> {"out", "reader", "writer", "done"}]
  /\ req \in [Requests -> RequestState]
  /\ cached \in {None} \cup Objects
  /\ temp \subseteq Requests
  /\ prog \in [Requests -> {"none", "part", "all", "complete", "aborted"}]
  /\ lapsed \subseteq Requests
  /\ streaming \in BOOLEAN
  /\ purge \in {"ready", "temp", "over"}

\* A write permit is always in the hands of a request that is still running, in
\* its HttpCache or in the ctx of the background subrequest it was moved to:
\* whatever path proxy_cache() leaves by, no lock is left for nobody to release.
PermitsAccounted ==
  \A c \in Requests :
    role[c] = "writer" =>
      \E r \in Requests :
        req[r].pc \notin Ended /\ c \in {req[r].permit, req[r].carried}

\* "panics are only caused by coding error": proxy_cache() never calls HttpCache
\* in a wrong phase, also when it looks up a second time after a wait.  MemCache
\* finds what it expects, unless a purge took it away or update_meta() renews an
\* object that expired while it was written and was never stored.
PanicsExplained ==
  \A r \in Requests :
    /\ ~At(r, "wrong phase")
    /\ At(r, "panicked") => purge # "ready" \/ (req[r].hit # None /\ req[r].hit.partial)

\* What is admitted into the cache is a whole response, even when the fill was
\* read, purged or overtaken while it was written.
AdmittedWhole ==
  cached # None => cached.body = Old \/ prog[cached.body] \in {"all", "complete"}

\* The store stays whole: partial bodies are never admitted, and what a handler
\* expects to find there it finds, unless it was purged or never stored.
StoreSound == AdmittedWhole /\ PanicsExplained

\* A panic comes only after a purge.  TLC refutes this: cache_lookup() may find a
\* fill that has expired before its end, and when a 304 renews that object while
\* nothing is stored yet, MemCache::update_meta() panics ("no meta found").
PanicOnlyAfterPurge == (\E r \in Requests : req[r].pc \in Panicked) => purge # "ready"

\* With fail_readers_of_dropped_writes, a request that reads a fill in progress
\* ends its response cleanly only if the whole body was written, although the
\* writer may fail, be purged or panic while it is read.
ServedWhole ==
  [][\A r \in Requests :
       At(r, "serve") /\ At(r, "served")' =>
         req[r].hit.body = Old \/ prog[req[r].hit.body] \in {"all", "complete"}]_vars

\* Every request that starts ends: no reader waits for ever behind a permit,
\* not even a background subrequest behind the permit that it carries itself.
EveryRequestEnds == \A r \in Requests : ~At(r, "idle") ~> req[r].pc \in Ended

\* WritePermit::drop() asserts that no permit is dropped unfinished ("Dangling
\* cache lock started!"), and proxy_cache() calls it a software bug; here for
\* requests that do not panic, with no lock older than its age_timeout.
NoDanglingPermit ==
  [][\A c \in Requests :
       outcome[c] # "Dangling" /\ outcome'[c] = "Dangling" =>
         aged \/ \E r \in Requests : req'[r].pc \in Panicked]_vars

\* A subrequest does not wait for the permit in its own ctx.  TLC refutes this:
\* it does when its own lookup misses or is forced to miss.
NoSelfWait == \A r \in Requests : At(r, "wait") => on[r] # req[r].carried

\* The cached meta and body come from one response.  TLC refutes this: a request
\* that looked up the old object may be elected after another one has replaced
\* it, and then writes the old meta, revalidated, over the new body.
MetaMatchesBody ==
  cached # None => cached.meta = cached.body \/ aged \/ purge # "ready"
===============================================================================
