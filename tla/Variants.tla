------------------------------ MODULE Variants ------------------------------
(***************************************************************************)
(* Variants of one cached URL: a primary slot and one slot for each        *)
(* variance key (pingora-cache/src/lib.rs: cache_lookup, cache_vary_lookup,*)
(* set_cache_meta, update_variance, set_miss_handler,                      *)
(* revalidate_cache_meta; key.rs; variance.rs; memory.rs; the lookup loop  *)
(* of pingora-proxy/src/proxy_cache.rs).                                   *)
(*                                                                         *)
(* Only the primary slot is purged; the provenance time of the next        *)
(* primary is the tombstone of every variant admitted before it.  A        *)
(* response carries any Vary header, which is what a family stands for.    *)
(* A hash is its input: a variance is the pair of family and request value.*)
(*                                                                         *)
(* A response is in the storage from its header on, as a fill: lookups     *)
(* prefer the fills of a key to its slot, and the lock is released then.   *)
(***************************************************************************)
EXTENDS Integers, FiniteSets

CONSTANTS Requests,
          Families,       \* Vary headers of the origin
          Values,         \* what requests send in the header that varies
          Locking,        \* whether requests take the cache lock
          MaxTime,        \* bound on the number of stamps
          None

VARIABLES now,            \* the next time stamp; no two stamps are equal
          slot,           \* Storage: [Keys -> stored asset or None]
          writer,         \* the cache lock: [Keys -> holder or None]
          req,            \* HttpCache of each request
          reset,          \* history: last purge or change of family
          carried,        \* history: a request older than that wrote the primary slot since
          crossed         \* history: a 304 was received for a fill

vars == <<now, slot, writer, req, reset, carried, crossed>>

Variances == Families \X Values
Primary == <<>>
Keys == {Primary} \union Variances

Metas == [created : Nat, family : Families \union {None}, variance : Keys, provenance : Nat]
Bodies == [variance : Keys, at : Nat]
Assets == [meta : Metas, body : Bodies, partial : BOOLEAN]

ASSUME NoneAssumption == None \notin Requests \union Assets

\* From its lookup to the answer of the origin a request has the metadata of the
\* stale asset it found, and none after a miss.
NoRequest == [pc |-> "idle", want |-> None, key |-> Primary, valid_after |-> 0, meta |-> None,
              body |-> None, partial |-> FALSE, temp |-> FALSE, late |-> FALSE,
              same |-> FALSE]

Init ==
    /\ now = 1
    /\ slot = [k \in Keys |-> None]
    /\ writer = [k \in Keys |-> None]
    /\ req = [r \in Requests |-> NoRequest]
    /\ reset = 0
    /\ carried = FALSE
    /\ crossed = FALSE

\* cache_vary_filter(): the variance a request selects under a response's Vary
VaryFilter(family, r) ==
    IF family = None THEN Primary ELSE <<family, req[r].want>>

At(r, pc) == req[r].pc = pc

Start(r) ==
    /\ At(r, "idle")
    /\ \E w \in Values :
          req' = [req EXCEPT ![r] = [NoRequest EXCEPT !.pc = "lookup", !.want = w,
                                                      !.late = TRUE]]
    /\ UNCHANGED <<now, slot, writer, reset, carried, crossed>>

-----------------------------------------------------------------------------
(* The lookup loop.                                                        *)

\* The fills of a key: the temp objects of its writers
Fills(k) == {i \in Requests : At(i, "fill") /\ req[i].temp /\ req[i].key = k}

FillOf(i) == [meta |-> req[i].meta, body |-> req[i].body, partial |-> TRUE]

\* storage.lookup(): any of the fills, or what the slot holds
Stored(k) == IF Fills(k) # {} THEN {FillOf(i) : i \in Fills(k)} ELSE {slot[k]}

\* cache_lookup(): what the storage returns is compared with the tombstone
Found(r) ==
    {IF s # None /\ s.meta.created >= req[r].valid_after THEN s ELSE None :
        s \in Stored(req[r].key)}

LookupMiss(r) ==
    /\ At(r, "lookup")
    /\ None \in Found(r)
    /\ req' = [req EXCEPT ![r].pc = "lock"]
    /\ UNCHANGED <<now, slot, writer, reset, carried, crossed>>

\* cache_vary_lookup() on the primary slot: another variant is wanted
VaryLookup(r) ==
    /\ At(r, "lookup")
    /\ req[r].key = Primary
    /\ \E s \in Found(r) \ {None} :
          LET v == VaryFilter(s.meta.family, r)
          IN  /\ v # Primary /\ v # s.meta.variance
              /\ req' = [req EXCEPT ![r].key = v, ![r].valid_after = s.meta.provenance]
    /\ UNCHANGED <<now, slot, writer, reset, carried, crossed>>

\* the primary slot holds what the request wants, or it looked in a secondary
Targets(r, s) ==
    req[r].key = Primary => s.meta.variance = VaryFilter(s.meta.family, r)

\* "Adhoc double check that the variance found is the variance we want"
Checked(r, s) == req[r].key = Primary \/ s.meta.variance = req[r].key

\* a hit; on a mismatch the cache is disabled and the origin serves the request
Serve(r) ==
    /\ At(r, "lookup")
    /\ \E s \in Found(r) \ {None} :
          /\ Targets(r, s)
          /\ req' = [req EXCEPT ![r] =
                       IF Checked(r, s)
                       THEN [NoRequest EXCEPT !.pc = "served", !.want = req[r].want, !.late = req[r].late,
                                              !.meta = s.meta, !.body = s.body]
                       ELSE NoRequest]
    /\ UNCHANGED <<now, slot, writer, reset, carried, crossed>>

\* cache_found() of a stale asset, which any asset may be by now; a match in the primary slot has passed
\* through cache_vary_lookup() too
LookupStale(r) ==
    /\ At(r, "lookup")
    /\ \E s \in Found(r) \ {None} :
          /\ Targets(r, s) /\ Checked(r, s)
          /\ req' = [req EXCEPT ![r].pc = "lock", ![r].meta = s.meta,
                                ![r].partial = s.partial,
                                ![r].valid_after = IF req[r].key = Primary /\ s.meta.variance # Primary
                                                   THEN s.meta.provenance ELSE @]
    /\ UNCHANGED <<now, slot, writer, reset, carried, crossed>>

\* CacheKeyLock::lock(): the first one writes, others wait for its release
Lock(r) ==
    LET k == req[r].key
    IN  /\ At(r, "lock")
        /\ IF Locking /\ writer[k] # None
           THEN /\ req' = [req EXCEPT ![r].pc = "wait", ![r].meta = None, ![r].partial = FALSE]
                /\ writer' = writer
           ELSE /\ req' = [req EXCEPT ![r].pc = "fetch", ![r].valid_after = 0]
                /\ writer' = IF Locking THEN [writer EXCEPT ![k] = r] ELSE writer
        /\ UNCHANGED <<now, slot, reset, carried, crossed>>

\* cache_lock_wait(): the lock was released, the lookup is repeated
WaitEnds(r) ==
    /\ At(r, "wait")
    /\ writer[req[r].key] = None
    /\ req' = [req EXCEPT ![r].pc = "lookup"]
    /\ UNCHANGED <<now, slot, writer, reset, carried, crossed>>

-----------------------------------------------------------------------------
(* The response.                                                           *)

\* set_cache_meta(): a refreshed asset keeps the provenance of the stale one
SetCacheMeta(r, family) ==
    [created |-> now, family |-> family, variance |-> Primary,
     provenance |-> IF req[r].meta # None THEN req[r].meta.provenance ELSE now]

\* Mutant: the response stays under the key of its lookup.
UpdateVariance_KeepsKey(r, m) ==
    LET q == req[r]
        v == VaryFilter(m.family, r)
        old == IF q.key # Primary THEN q.key ELSE q.meta.variance
        renewed == q.meta # None /\ old # v
    IN  [meta |-> [m EXCEPT !.variance = v,
                            !.provenance = IF renewed THEN m.created ELSE @],
         key |-> q.key]

\* update_variance(): a refresh under another variance starts a new family;
\* one that leaves its secondary slot takes over the primary slot
UpdateVariance(r, m) ==
    LET q == req[r]
        v == VaryFilter(m.family, r)
        old == IF q.key # Primary THEN q.key ELSE q.meta.variance
        renewed == q.meta # None /\ old # v
    IN  [meta |-> [m EXCEPT !.variance = v,
                            !.provenance = IF renewed THEN m.created ELSE @],
         key |-> IF q.key # Primary /\ q.key # v THEN Primary ELSE q.key]

Unlocked(r, k) == IF writer[k] = r THEN [writer EXCEPT ![k] = None] ELSE writer

\* history: a request older than the reset puts a response in the primary slot
Carries(r, k) == carried \/ (k = Primary /\ ~req[r].late)

\* history: a refresh by a response with the same Vary, which has to keep the
\* provenance of the asset it refreshes
SameFamily(r, family) == req[r].meta # None /\ req[r].meta.family = family

\* cache_http_task() on a cacheable header: set_miss_handler() makes the response
\* visible as a fill and releases the lock, unless update_variance() did
Header(r) ==
    /\ At(r, "fetch")
    /\ now < MaxTime
    /\ \E family \in Families \union {None} :
          LET u == UpdateVariance(r, SetCacheMeta(r, family))
          IN  /\ req' = [req EXCEPT ![r].pc = "fill", ![r].meta = u.meta, ![r].key = u.key,
                                    ![r].body = [variance |-> u.meta.variance, at |-> now],
                                    ![r].partial = FALSE, ![r].temp = TRUE,
                                    ![r].same = SameFamily(r, family)]
              /\ carried' = Carries(r, u.key)
    /\ now' = now + 1
    /\ writer' = Unlocked(r, req[r].key)
    /\ UNCHANGED <<slot, reset, crossed>>

\* a response with another Vary takes the primary slot
NewFamily(k, m) ==
    k = Primary /\ slot[k] # None /\ slot[k].meta.family # m.family

\* history: the requests that begin from here on are the late ones
Ends(r, starts) ==
    [i \in Requests |-> IF i = r THEN NoRequest
                       ELSE [req[i] EXCEPT !.late = @ /\ ~starts]]

\* finish_miss_handler(): the fill is moved to its slot
Finish(r) ==
    LET q == req[r]
        new == NewFamily(q.key, q.meta)
    IN  /\ At(r, "fill") /\ q.temp
        /\ slot' = [slot EXCEPT ![q.key] = [meta |-> q.meta, body |-> q.body,
                                            partial |-> FALSE]]
        /\ reset' = IF new THEN q.meta.created ELSE reset
        /\ carried' = IF new THEN ~q.late \/ q.same \/ Fills(Primary) # {r}
                      ELSE carried
        /\ req' = Ends(r, new)
        /\ UNCHANGED <<now, writer, crossed>>

\* MemMissHandler::finish() does not find the fill that a purge removed
FinishPanics(r) ==
    /\ At(r, "fill") /\ ~req[r].temp
    /\ req' = Ends(r, FALSE)
    /\ UNCHANGED <<now, slot, writer, reset, carried, crossed>>

\* a 304: revalidate_cache_meta() keeps created, provenance and variance, and
\* update_meta() writes the metadata over whatever the slot holds by now
NotModified(r) ==
    LET q == req[r]
    IN  /\ At(r, "fetch")
        /\ q.meta # None
        /\ slot[q.key] # None
        /\ slot' = [slot EXCEPT ![q.key].meta = q.meta]
        /\ carried' = Carries(r, q.key)
        /\ crossed' = (crossed \/ q.partial)
        /\ writer' = Unlocked(r, q.key)
        /\ req' = Ends(r, FALSE)
        /\ UNCHANGED <<now, reset>>

\* the request ends without a cacheable answer, stops waiting, drops its fill,
\* or panics in update_meta() because its slot was purged
GivesUp(r) ==
    /\ req[r].pc \in {"wait", "fetch", "fill"}
    /\ writer' = Unlocked(r, req[r].key)
    /\ req' = [req EXCEPT ![r] = NoRequest]
    /\ UNCHANGED <<now, slot, reset, carried, crossed>>

Done(r) ==
    /\ At(r, "served")
    /\ req' = [req EXCEPT ![r] = NoRequest]
    /\ UNCHANGED <<now, slot, writer, reset, carried, crossed>>

-----------------------------------------------------------------------------
(* The environment.                                                        *)

\* MemCache::purge(): the slot and the fills of the primary key
Purge ==
    /\ slot[Primary] # None \/ Fills(Primary) # {}
    /\ slot' = [slot EXCEPT ![Primary] = None]
    /\ reset' = now
    /\ carried' = FALSE
    /\ req' = [r \in Requests |->
                 [req[r] EXCEPT !.late = FALSE, !.temp = @ /\ r \notin Fills(Primary)]]
    /\ UNCHANGED <<now, writer, crossed>>

RequestStep(r) ==
    \/ Start(r) \/ LookupMiss(r) \/ VaryLookup(r) \/ Serve(r) \/ LookupStale(r)
    \/ Lock(r) \/ WaitEnds(r) \/ Header(r) \/ Finish(r) \/ FinishPanics(r)
    \/ NotModified(r) \/ GivesUp(r) \/ Done(r)

Next ==
    \/ \E r \in Requests : RequestStep(r)
    \/ Purge

Spec == Init /\ [][Next]_vars

-----------------------------------------------------------------------------
(* Properties                                                              *)

\* "the provenance timestamp of the primary is the tombstone of all the
\* variances": once the URL was purged, or a response with another Vary took
\* the primary slot, a request that starts later is served no body fetched
\* before, whichever slot or fill it comes from.  There are two exceptions.
\* One is the race that update_variance() documents: a refresh or fill that
\* began before has put its response, or the provenance it carries, in the
\* primary slot.  The other is a body that does not belong to its metadata:
\* update_meta() wrote what a 304 said of a fill over an older asset.
TombstoneHolds ==
    \A r \in Requests :
        At(r, "served") /\ req[r].late /\ ~carried
            => \/ req[r].body.at >= reset
               \/ crossed /\ req[r].body.at < req[r].meta.created

\* A variant's slot and its fills hold that variant: an asset whose variance
\* changed went to the primary slot (update_variance), so the "Adhoc double
\* check that the variance found is the variance we want" never finds a
\* mismatch.
SlotMatchesKey ==
    \A v \in Variances : \A s \in Stored(v) \ {None} : s.meta.variance = v

\* Both rules that keep variants apart from one another and from their past.
VariantsApart == TombstoneHolds /\ SlotMatchesKey

\* The same without the second exception does not hold: a fill goes stale
\* before it ends, the 304 of its refresh puts its metadata on the variant's
\* older body, and that body is served after the purge it precedes.
TombstoneHoldsOnBodies ==
    \A r \in Requests :
        At(r, "served") /\ req[r].late /\ ~carried => req[r].body.at >= reset

\* A request is served a body made for what it sent.
ServedOwnVariant ==
    \A r \in Requests :
        At(r, "served") /\ req[r].body.variance # Primary
            => req[r].body.variance[2] = req[r].want
=============================================================================
