-------------------------- MODULE ProxyCacheProofs --------------------------
(***************************************************************************)
(* For any number of requests for a key and of retries, and however they   *)
(* interleave with a purge and with locks that grow too old: no write      *)
(* permit is left behind, only whole bodies are admitted, HttpCache is     *)
(* called in the right phase, and a reader of a fill in progress ends its  *)
(* response cleanly only when the fill was whole.                          *)
(***************************************************************************)
EXTENDS ProxyCache, TLAPS

\* A miss handler is there, from set_miss_handler() to finish_miss_handler().
Filling == {"attach", "fill", "finish", "store"}

\* What a request and its HttpCache are at each point of proxy_cache().
Lane(q) ==
  /\ q.pc \in {"idle", "lookup", "missed", "found", "wait", "serve"} => q.permit = NoLock
  /\ q.pc \in {"upstream"} \cup Filling => q.carried = NoLock
  /\ q.pc \in {"lookup", "missed", "found", "wait"} => q.phase \in {"CacheKey", "Stale"}
  /\ q.pc \in {"upstream", "leave"} =>
       /\ q.phase \in {"Miss", "Bypass", "Stale", "Disabled"}
       /\ q.phase = "Disabled" => q.pc = "leave" /\ q.permit = NoLock
       /\ q.hit # None <=> q.phase = "Stale"
  /\ q.pc \in {"found", "serve"} => q.hit # None
  /\ q.pc # "wrong phase"

\* How far the fill of a request is, for a request at l.
Written(l, p) ==
  /\ l \notin Filling \cup Ended => p = "none"
  /\ l \in {"attach", "fill"} => p = "part"
  /\ l \in {"finish", "store"} => p \in {"all", "complete"}
  /\ l \in Ended /\ FailReaders => p # "part"

\* The body was stored by a fill that came to its end.
Whole(b) == b = Old \/ (prog[b] \in {"all", "complete"} /\ At(b, "done"))

\* A body that a lookup returned.
Readable(h) ==
  IF h.partial THEN h.body \in Requests /\ prog[h.body] # "none" ELSE Whole(h.body)

StoreInv ==
  /\ \A r \in Requests : Lane(req[r]) /\ Written(req[r].pc, prog[r])
  /\ \A r \in Requests : req[r].hit # None => Readable(req[r].hit)
  /\ cached # None => ~cached.partial /\ Whole(cached.body)
  /\ \A w \in temp : prog[w] # "none"

\* Before a purge, a request finds what it has seen or written in the storage;
\* t and c are the storage's temp and cached.
Finds(r, q, t, c) ==
  /\ q.pc = "panicked" => q.hit # None /\ q.hit.partial
  /\ q.pc \in Filling => r \in t
  /\ q.hit # None /\ ~q.hit.partial => c # None

FindsInv == purge = "ready" => \A r \in Requests : Finds(r, req[r], temp, cached)

Inv == TypeOK /\ PermitsAccounted /\ StoreInv /\ FindsInv

Roles == {"out", "reader", "writer", "done"}
Progress == {"none", "part", "all", "complete", "aborted"}

LEMMA BareIs ==
  ASSUME NEW l \in PC
  PROVE  /\ Bare(l) \in RequestState
         /\ Bare(l).pc = l /\ Bare(l).permit = NoLock /\ Bare(l).carried = NoLock
         /\ Bare(l).hit = None
BY RetriesAssumption DEF Bare, RequestState, Phase

-----------------------------------------------------------------------------
(* One request moves.                                                      *)

\* The invariant of the permits, when request r becomes q and the locks change
\* no more than they may.
LEMMA PermitsStep ==
  ASSUME TypeOK, PermitsAccounted, NEW r \in Requests, NEW q,
         req' = [req EXCEPT ![r] = q],
         \A c \in Requests : role'[c] = "writer" =>
           \/ role[c] = "writer" /\ c \notin {req[r].permit, req[r].carried}
           \/ q.pc \notin Ended /\ c \in {q.permit, q.carried}
  PROVE  PermitsAccounted'
<1> SUFFICES ASSUME NEW c \in Requests, role'[c] = "writer"
             PROVE  \E i \in Requests :
                      req'[i].pc \notin Ended /\ c \in {req'[i].permit, req'[i].carried}
  BY DEF PermitsAccounted
<1>1. req'[r] = q /\ \A i \in Requests \ {r} : req'[i] = req[i] BY DEF TypeOK
<1>2. CASE role[c] = "writer" /\ c \notin {req[r].permit, req[r].carried}
  <2>1. PICK i \in Requests : req[i].pc \notin Ended /\ c \in {req[i].permit, req[i].carried}
    BY <1>2 DEF PermitsAccounted
  <2> QED BY <1>1, <1>2, <2>1
<1> QED BY <1>1, <1>2

\* What request r may become, and what may become of the storage meanwhile.
LEMMA RequestMoves ==
  ASSUME Inv, NEW r \in Requests, req[r].pc \notin Ended, NEW q \in RequestState,
         req' = [req EXCEPT ![r] = q],
         role' \in [Requests -> Roles],
         \A c \in Requests : role'[c] = "writer" =>
           \/ role[c] = "writer" /\ c \notin {req[r].permit, req[r].carried}
           \/ q.pc \notin Ended /\ c \in {q.permit, q.carried},
         purge' = purge, streaming' = streaming,
         prog' \in [Requests -> Progress], \A i \in Requests \ {r} : prog'[i] = prog[i],
         prog[r] # "none" => prog'[r] # "none",
         temp' \subseteq temp \cup {r}, temp \subseteq temp' \cup {r},
         r \in temp' => prog'[r] # "none", lapsed' \subseteq Requests,
         cached' \in {None} \cup Objects, cached # None => cached' # None,
         cached' # None => /\ ~cached'.partial
                           /\ \/ Whole(cached'.body)
                              \/ cached'.body = r /\ q.pc = "done" /\ prog'[r] \in {"all", "complete"},
         Lane(q), Written(q.pc, prog'[r]), q.hit # None => Readable(q.hit),
         purge = "ready" => Finds(r, q, temp', cached')
  PROVE  Inv'
<1>1. req' \in [Requests -> RequestState] /\ req'[r] = q
  BY DEF Inv, TypeOK
<1>2. \A i \in Requests \ {r} : req'[i] = req[i] BY DEF Inv, TypeOK
<1>3. TypeOK' BY <1>1 DEF Inv, TypeOK, Roles, Progress
<1>4. PermitsAccounted' BY PermitsStep DEF Inv
<1>5. ASSUME NEW b \in Requests \cup {Old}, Whole(b)
      PROVE  b = Old \/ (prog'[b] \in {"all", "complete"} /\ req'[b].pc = "done")
  <2>1. b = Old \/ b # r BY <1>5 DEF Whole, At, Ended
  <2> QED BY <1>2, <1>5, <2>1 DEF Whole, At
<1>6. ASSUME NEW h \in Objects, Readable(h)
      PROVE  IF h.partial THEN h.body \in Requests /\ prog'[h.body] # "none"
             ELSE h.body = Old \/ (prog'[h.body] \in {"all", "complete"} /\ req'[h.body].pc = "done")
  <2>1. h.body \in Requests \cup {Old} BY DEF Objects
  <2>2. CASE h.partial BY <2>2, <1>6 DEF Readable
  <2>3. CASE ~h.partial BY <2>1, <2>3, <1>5, <1>6 DEF Readable
  <2> QED BY <2>2, <2>3
<1>7. StoreInv'
  <2>1. \A i \in Requests : Lane(req'[i]) /\ Written(req'[i].pc, prog'[i])
    BY <1>1, <1>2 DEF Inv, StoreInv
  <2>2. ASSUME NEW i \in Requests, req'[i].hit # None
        PROVE  Readable(req[i].hit)'
    <3>1. req'[i].hit \in Objects BY <1>1, <2>2 DEF RequestState
    <3>2. Readable(req'[i].hit) BY <1>1, <1>2, <2>2 DEF Inv, StoreInv
    <3> QED BY <3>1, <3>2, <1>6 DEF Readable, Whole, At
  <2>3. ASSUME cached' # None
        PROVE  ~cached'.partial /\ Whole(cached.body)'
    <3>1. cached'.body \in Requests \cup {Old} BY <2>3 DEF Objects
    <3>2. CASE Whole(cached'.body) BY <2>3, <3>1, <3>2, <1>5 DEF Whole, At
    <3>3. CASE cached'.body = r /\ q.pc = "done" /\ prog'[r] \in {"all", "complete"}
      BY <2>3, <3>3, <1>1 DEF Whole, At
    <3> QED BY <2>3, <3>2, <3>3
  <2>4. \A w \in temp' : prog'[w] # "none" BY DEF Inv, StoreInv, TypeOK
  <2> QED BY <2>1, <2>2, <2>3, <2>4 DEF StoreInv
<1>8. FindsInv'
  <2> SUFFICES ASSUME purge = "ready", NEW i \in Requests
               PROVE  Finds(i, req'[i], temp', cached')
    BY DEF FindsInv
  <2>1. CASE i = r BY <2>1, <1>1
  <2>2. CASE i # r BY <2>2, <1>2 DEF Inv, FindsInv, Finds
  <2> QED BY <2>1, <2>2
<1> QED BY <1>3, <1>4, <1>7, <1>8 DEF Inv

\* A request that moves and leaves the storage alone.
LEMMA QuietMoves ==
  ASSUME Inv, NEW r \in Requests, req[r].pc \notin Ended, NEW q \in RequestState,
         req' = [req EXCEPT ![r] = q],
         role' \in [Requests -> Roles],
         \A c \in Requests : role'[c] = "writer" =>
           \/ role[c] = "writer" /\ c \notin {req[r].permit, req[r].carried}
           \/ q.pc \notin Ended /\ c \in {q.permit, q.carried},
         UNCHANGED storeVars,
         Lane(q), Written(q.pc, prog[r]), q.hit # None => Readable(q.hit),
         purge = "ready" => Finds(r, q, temp, cached)
  PROVE  Inv'
<1>1. /\ purge' = purge /\ streaming' = streaming
      /\ prog' \in [Requests -> Progress] /\ \A i \in Requests \ {r} : prog'[i] = prog[i]
      /\ prog'[r] = prog[r]
      /\ temp' = temp /\ cached' = cached /\ cached' \in {None} \cup Objects
      /\ lapsed' \subseteq Requests
  BY DEF storeVars, Inv, TypeOK, Progress
<1>2. r \in temp => prog[r] # "none" BY DEF Inv, StoreInv
<1>3. cached # None => ~cached.partial /\ Whole(cached.body) BY DEF Inv, StoreInv
<1> QED BY <1>1, <1>2, <1>3, RequestMoves

\* What every request satisfies.
LEMMA Known ==
  ASSUME Inv, NEW r \in Requests
  PROVE  /\ req[r] \in RequestState /\ Lane(req[r]) /\ Written(req[r].pc, prog[r])
         /\ req[r].hit # None => Readable(req[r].hit)
         /\ purge = "ready" => Finds(r, req[r], temp, cached)
BY DEF Inv, TypeOK, StoreInv, FindsInv

\* proxy_cache() returns None.
LEMMA BreakNoneIs ==
  ASSUME NEW q \in RequestState, NEW p \in Phase
  PROVE  /\ BreakNone(q, p) \in RequestState
         /\ \/ p = "Disabled" /\ q.carried = NoLock /\ BreakNone(q, p) = Bare("done")
            \/ /\ ~(p = "Disabled" /\ q.carried = NoLock)
               /\ BreakNone(q, p).pc = (IF q.carried # NoLock THEN "leave" ELSE "upstream")
               /\ BreakNone(q, p).phase = p
               /\ BreakNone(q, p).permit = q.permit /\ BreakNone(q, p).carried = q.carried
               /\ BreakNone(q, p).hit = (IF p = "Stale" THEN q.hit ELSE None)
<1>1. CASE p = "Disabled" /\ q.carried = NoLock
  <2>1. Bare("done") \in RequestState BY BareIs DEF PC, Ended
  <2> QED BY <1>1, <2>1 DEF BreakNone
<1>2. CASE ~(p = "Disabled" /\ q.carried = NoLock)
  <2> DEFINE b == [q EXCEPT !.pc = IF q.carried # NoLock THEN "leave" ELSE "upstream",
                            !.phase = p, !.retries = 0,
                            !.hit = IF p = "Stale" THEN @ ELSE None]
  <2>1. BreakNone(q, p) = b BY <1>2 DEF BreakNone
  <2>2. /\ b.pc = (IF q.carried # NoLock THEN "leave" ELSE "upstream")
        /\ b.phase = p /\ b.permit = q.permit /\ b.carried = q.carried
        /\ b.hit = (IF p = "Stale" THEN q.hit ELSE None)
    BY DEF RequestState
  <2>3. b \in RequestState
    <3>1. (IF q.carried # NoLock THEN "leave" ELSE "upstream") \in PC BY DEF PC
    <3>2. (IF p = "Stale" THEN q.hit ELSE None) \in {None} \cup Objects BY DEF RequestState
    <3>3. 0 \in 0..MaxRetries BY RetriesAssumption
    <3> QED BY <3>1, <3>2, <3>3 DEF RequestState
  <2> HIDE DEF b
  <2> QED BY <1>2, <2>1, <2>2, <2>3
<1> QED BY <1>1, <1>2

\* HttpCache::release_write_lock().
LEMMA ReleaseDoes ==
  ASSUME TypeOK, NEW r \in Requests, NEW s, ReleaseLock(r, s)
  PROVE  /\ role' \in [Requests -> Roles]
         /\ \A c \in Requests : role'[c] = "writer" =>
              role[c] = "writer" /\ c # req[r].permit
BY NoLockAssumption DEF ReleaseLock, Lock!Finish, Lock!Become, lockVars, TypeOK, Roles

LEMMA ElectDoes ==
  ASSUME TypeOK, NEW r \in Requests, Lock!Elect(r)
  PROVE  /\ role' \in [Requests -> Roles]
         /\ \A c \in Requests : role'[c] = "writer" => role[c] = "writer" \/ c = r
BY DEF Lock!Elect, Lock!Become, TypeOK, Roles

\* The lock steps of readers make nobody a writer.
LEMMA ReadersDo ==
  ASSUME TypeOK, NEW r \in Requests,
         Behind(r) \/ Lock!Wake(r) \/ Lock!TimeOut(r) \/ Lock!Leave(r) \/ UNCHANGED lockVars
  PROVE  /\ role' \in [Requests -> Roles]
         /\ \A c \in Requests : role'[c] = "writer" => role[c] = "writer"
BY DEF Behind, Lock!Join, Lock!Wake, Lock!TimeOut, Lock!Leave, Lock!Become, lockVars, TypeOK, Roles

-----------------------------------------------------------------------------
(* The steps of a request.                                                 *)

\* A request that ends, as q, and drops its miss handler: disable(), or a panic.
LEMMA Drops ==
  ASSUME Inv, NEW r \in Requests, NEW s, NEW q \in RequestState,
         req[r].pc \in {"upstream"} \cup Filling,
         ReleaseLock(r, s), DropMissHandler(r), Becomes(r, q),
         q.pc \in {"done", "panicked"}, q.permit = NoLock, q.carried = NoLock,
         q.hit = None \/ q.hit = req[r].hit,
         purge = "ready" => Finds(r, q, temp, cached)
  PROVE  Inv'
<1>1. q.hit # None => Readable(q.hit) BY Known
<1>2. req' = [req EXCEPT ![r] = q] BY DEF Becomes
<1>3. req[r].carried = NoLock /\ req[r].pc \notin Ended BY Known DEF Lane, Filling, Ended
<1>4. /\ role' \in [Requests -> Roles]
      /\ \A c \in Requests : role'[c] = "writer" =>
           role[c] = "writer" /\ c \notin {req[r].permit, req[r].carried}
  BY <1>3, ReleaseDoes, NoLockAssumption DEF Inv
<1>5. /\ purge' = purge /\ streaming' = streaming /\ cached' = cached
      /\ temp' \subseteq temp \cup {r} /\ temp \subseteq temp' \cup {r} /\ r \notin temp'
      /\ prog' \in [Requests -> Progress] /\ \A i \in Requests \ {r} : prog'[i] = prog[i]
      /\ prog[r] # "none" => prog'[r] # "none"
      /\ FailReaders /\ prog[r] # "none" => prog'[r] = "aborted"
      /\ prog[r] = "none" => prog'[r] = "none"
      /\ lapsed' \subseteq Requests
  BY DEF DropMissHandler, Inv, TypeOK, Progress
<1>6. cached' \in {None} \cup Objects /\ (cached' # None => ~cached'.partial /\ Whole(cached'.body))
  BY <1>5 DEF Inv, TypeOK, StoreInv
<1>7. Lane(q) /\ Written(q.pc, prog'[r]) BY <1>5 DEF Lane, Written, Filling, Ended
<1>8. purge = "ready" => Finds(r, q, temp', cached') BY <1>5 DEF Finds, Filling
<1> QED BY <1>1, <1>2, <1>3, <1>4, <1>5, <1>6, <1>7, <1>8, RequestMoves

\* A request that proxy_cache() sends upstream, or on without a cache, having
\* become q: a permit of its own is kept, others keep theirs.
LEMMA Breaks ==
  ASSUME Inv, NEW r \in Requests, NEW q \in RequestState, NEW p \in Phase,
         req[r].pc \in {"idle", "lookup", "missed", "found", "wait", "leave"},
         Becomes(r, BreakNone(q, p)), UNCHANGED storeVars,
         role' \in [Requests -> Roles],
         \A c \in Requests : role'[c] = "writer" =>
           \/ role[c] = "writer" /\ c \notin {req[r].permit, req[r].carried}
           \/ c \in {q.permit, q.carried},
         p \in {"Miss", "Bypass", "Stale", "Disabled"},
         p = "Disabled" => q.permit = NoLock,
         p = "Stale" => /\ q.hit # None /\ Readable(q.hit)
                        /\ purge = "ready" /\ ~q.hit.partial => cached # None
  PROVE  Inv'
<1> DEFINE b == BreakNone(q, p)
<1>1. req' = [req EXCEPT ![r] = b] BY DEF Becomes
<1>2. /\ b \in RequestState
      /\ \/ /\ p = "Disabled" /\ q.carried = NoLock
            /\ b.pc = "done" /\ b.permit = NoLock /\ b.carried = NoLock /\ b.hit = None
         \/ /\ ~(p = "Disabled" /\ q.carried = NoLock)
            /\ b.pc = (IF q.carried # NoLock THEN "leave" ELSE "upstream")
            /\ b.phase = p /\ b.permit = q.permit /\ b.carried = q.carried
            /\ b.hit = (IF p = "Stale" THEN q.hit ELSE None)
  <2>1. "done" \in PC BY DEF PC, Ended
  <2> QED BY <2>1, BreakNoneIs, BareIs
<1> HIDE DEF b
<1>3. req[r].pc \notin Ended /\ prog[r] = "none" BY Known DEF Written, Filling, Ended
<1>4. \A c \in Requests : role'[c] = "writer" =>
        \/ role[c] = "writer" /\ c \notin {req[r].permit, req[r].carried}
        \/ b.pc \notin Ended /\ c \in {b.permit, b.carried}
  BY <1>2, NoLockAssumption DEF Ended
<1>5. Lane(b) BY <1>2 DEF Lane, Filling
<1>6. Written(b.pc, prog[r]) BY <1>2, <1>3 DEF Written, Filling
<1>7. b.hit # None => Readable(b.hit) BY <1>2
<1>8. purge = "ready" => Finds(r, b, temp, cached) BY <1>2 DEF Finds, Filling
<1> QED BY <1>1, <1>2, <1>3, <1>4, <1>5, <1>6, <1>7, <1>8, QuietMoves

\* A request that goes on within proxy_cache(), or on to serve what it found,
\* having become q.
LEMMA GoesOn ==
  ASSUME Inv, NEW r \in Requests, NEW q \in RequestState,
         req[r].pc \in {"idle", "lookup", "missed", "found", "wait"},
         Becomes(r, q), UNCHANGED storeVars,
         role' \in [Requests -> Roles],
         \A c \in Requests : role'[c] = "writer" => role[c] = "writer",
         q.pc \in {"lookup", "missed", "found", "wait", "serve"},
         q.permit = req[r].permit, q.carried = req[r].carried,
         q.pc # "serve" => q.phase \in {"CacheKey", "Stale"},
         q.hit = req[r].hit \/ q.hit \in {None} \cup LookupResult,
         q.pc \in {"found", "serve"} => q.hit # None
  PROVE  Inv'
<1>1. req' = [req EXCEPT ![r] = q] BY DEF Becomes
<1>2. req[r].pc \notin Ended /\ prog[r] = "none" /\ req[r].permit = NoLock
  BY Known DEF Written, Lane, Filling, Ended
<1>3. \A c \in Requests : role'[c] = "writer" =>
        \/ role[c] = "writer" /\ c \notin {req[r].permit, req[r].carried}
        \/ q.pc \notin Ended /\ c \in {q.permit, q.carried}
  BY DEF Ended
<1>4. Lane(q) /\ Written(q.pc, prog[r]) BY <1>2 DEF Lane, Written, Filling, Ended
<1>5. ASSUME q.hit # None
      PROVE  Readable(q.hit) /\ (purge = "ready" /\ ~q.hit.partial => cached # None)
  <2>1. CASE q.hit = req[r].hit BY <1>5, <2>1, Known DEF Finds
  <2>2. CASE q.hit = cached BY <1>5, <2>2 DEF Inv, StoreInv, Readable
  <2>3. ASSUME NEW w \in temp, q.hit = Object(w, w, TRUE, w \notin lapsed)
        PROVE  Readable(q.hit) /\ q.hit.partial
    BY <2>3 DEF Inv, TypeOK, StoreInv, Readable, Object
  <2> QED BY <1>5, <2>1, <2>2, <2>3 DEF LookupResult
<1>6. purge = "ready" => Finds(r, q, temp, cached) BY <1>5 DEF Finds, Filling
<1> QED BY <1>1, <1>2, <1>3, <1>4, <1>5, <1>6, QuietMoves

\* The lock is left alone by these.
LEMMA SameLock ==
  ASSUME TypeOK, UNCHANGED lockVars
  PROVE  role' = role /\ role' \in [Requests -> Roles]
BY DEF lockVars, TypeOK, Roles

LEMMA Starts ==
  ASSUME Inv, NEW r \in Requests, Start(r)
  PROVE  Inv'
<1>0. /\ req[r] \in RequestState /\ req[r].pc = "idle" /\ req[r].permit = NoLock
  BY Known DEF Start, At, Lane
<1>r. role' = role /\ UNCHANGED storeVars /\ role' \in [Requests -> Roles]
  BY SameLock DEF Start, Inv
<1>1. CASE Becomes(r, [req[r] EXCEPT !.pc = "lookup", !.phase = "CacheKey"])
  <2> DEFINE q == [req[r] EXCEPT !.pc = "lookup", !.phase = "CacheKey"]
  <2>1. /\ q.pc = "lookup" /\ q.phase = "CacheKey" /\ q.permit = req[r].permit
        /\ q.carried = req[r].carried /\ q.hit = req[r].hit
    BY <1>0 DEF RequestState
  <2>2. q \in RequestState
    <3>1. "lookup" \in PC /\ "CacheKey" \in Phase BY DEF PC, Phase
    <3> QED BY <1>0, <3>1 DEF RequestState
  <2>3. Becomes(r, q) BY <1>1
  <2> HIDE DEF q
  <2> QED BY <1>0, <1>r, <2>1, <2>2, <2>3, GoesOn
<1>2. ASSUME NEW p \in {"Bypass", "Disabled"}, Becomes(r, BreakNone(req[r], p))
      PROVE  Inv'
  BY <1>0, <1>r, <1>2, Breaks DEF Phase
<1> QED BY <1>1, <1>2 DEF Start

LEMMA Lookups ==
  ASSUME Inv, NEW r \in Requests, Lookup(r) \/ LookupError(r) \/ Deferred(r)
  PROVE  Inv'
<1>0. /\ req[r] \in RequestState /\ req[r].pc \in {"lookup", "missed"}
      /\ req[r].permit = NoLock /\ req[r].phase \in {"CacheKey", "Stale"}
  BY Known DEF Lookup, LookupError, Deferred, At, Lane
<1>1. CASE Lookup(r)
  <2>r. role' = role /\ UNCHANGED storeVars /\ role' \in [Requests -> Roles]
    BY <1>0, <1>1, SameLock DEF Lookup, Inv
  <2>0. PICK h \in LookupResult :
          Becomes(r, [req[r] EXCEPT !.hit = h, !.pc = IF h = None THEN "missed" ELSE "found"])
    BY <1>0, <1>1 DEF Lookup
  <2> DEFINE q == [req[r] EXCEPT !.hit = h, !.pc = IF h = None THEN "missed" ELSE "found"]
  <2>1. /\ q.pc = (IF h = None THEN "missed" ELSE "found") /\ q.phase = req[r].phase
        /\ q.permit = req[r].permit /\ q.carried = req[r].carried /\ q.hit = h
    BY <1>0 DEF RequestState
  <2>2. q \in RequestState
    <3>1. (IF h = None THEN "missed" ELSE "found") \in PC BY DEF PC
    <3>2. h \in {None} \cup Objects
      <4>1. ASSUME NEW w \in temp PROVE Object(w, w, TRUE, w \notin lapsed) \in Objects
        BY DEF Object, Objects, Inv, TypeOK
      <4>2. cached \in {None} \cup Objects BY DEF Inv, TypeOK
      <4> QED BY <4>1, <4>2 DEF LookupResult
    <3> QED BY <1>0, <3>1, <3>2 DEF RequestState
  <2>3. Becomes(r, q) BY <2>0
  <2> HIDE DEF q
  <2> QED BY <1>0, <2>r, <2>1, <2>2, <2>3, GoesOn
<1>2. ASSUME NEW p \in {"Miss", "Disabled"}, Becomes(r, BreakNone(req[r], p)),
             UNCHANGED <<lockVars, storeVars>>
      PROVE  Inv'
  <2>1. role' = role /\ UNCHANGED storeVars /\ role' \in [Requests -> Roles]
    BY <1>2, SameLock DEF Inv
  <2> QED BY <1>0, <1>2, <2>1, Breaks DEF Phase
<1> QED BY <1>1, <1>2 DEF LookupError, Deferred

\* Nothing usable was found.
LEMMA Misses ==
  ASSUME Inv, NEW r \in Requests, Missed(r) \/ FoundMiss(r)
  PROVE  Inv'
<1>0. /\ req[r] \in RequestState /\ req[r].pc \in {"missed", "found"}
      /\ req[r].permit = NoLock /\ req[r].phase \in {"CacheKey", "Stale"}
      /\ AsMiss(r) /\ UNCHANGED storeVars
  BY Known DEF Missed, FoundMiss, AsMiss, At, Lane
<1>1. CASE Lock!Elect(r) /\ Becomes(r, BreakNone([req[r] EXCEPT !.permit = r], "Miss"))
  <2> DEFINE q == [req[r] EXCEPT !.permit = r]
  <2>1. q.permit = r /\ q.carried = req[r].carried BY <1>0 DEF RequestState
  <2>2. q \in RequestState BY <1>0 DEF RequestState
  <2>3. Becomes(r, BreakNone(q, "Miss")) BY <1>1
  <2> HIDE DEF q
  <2>4. /\ role' \in [Requests -> Roles]
        /\ \A c \in Requests : role'[c] = "writer" =>
             \/ role[c] = "writer" /\ c \notin {req[r].permit, req[r].carried}
             \/ c \in {q.permit, q.carried}
    BY <1>0, <1>1, <2>1, ElectDoes, NoLockAssumption DEF Inv
  <2>5. "Miss" \in Phase BY DEF Phase
  <2> QED BY <1>0, <2>2, <2>3, <2>4, <2>5, Breaks
<1>2. CASE Behind(r) /\ Becomes(r, [req[r] EXCEPT !.pc = "wait", !.hit = None])
  <2> DEFINE q == [req[r] EXCEPT !.pc = "wait", !.hit = None]
  <2>1. /\ q.pc = "wait" /\ q.phase = req[r].phase /\ q.permit = req[r].permit
        /\ q.carried = req[r].carried /\ q.hit = None
    BY <1>0 DEF RequestState
  <2>2. q \in RequestState
    <3>1. "wait" \in PC BY DEF PC
    <3> QED BY <1>0, <3>1 DEF RequestState
  <2>3. Becomes(r, q) BY <1>2
  <2> HIDE DEF q
  <2>4. /\ role' \in [Requests -> Roles]
        /\ \A c \in Requests : role'[c] = "writer" => role[c] = "writer"
    BY <1>2, ReadersDo DEF Inv
  <2> QED BY <1>0, <2>1, <2>2, <2>3, <2>4, GoesOn
<1> QED BY <1>0, <1>1, <1>2 DEF AsMiss

LEMMA FindsFresh ==
  ASSUME Inv, NEW r \in Requests, FoundFresh(r)
  PROVE  Inv'
<1>0. req[r] \in RequestState /\ req[r].pc = "found" /\ req[r].hit # None
  BY Known DEF FoundFresh, At, Lane
<1>r. role' = role /\ UNCHANGED storeVars /\ role' \in [Requests -> Roles]
  BY SameLock DEF FoundFresh, Inv
<1> DEFINE q == [req[r] EXCEPT !.pc = "serve", !.phase = "Hit", !.retries = 0]
<1>1. /\ q.pc = "serve" /\ q.permit = req[r].permit
      /\ q.carried = req[r].carried /\ q.hit = req[r].hit
  BY <1>0 DEF RequestState
<1>2. q \in RequestState
  <2>1. "serve" \in PC /\ "Hit" \in Phase /\ 0 \in 0..MaxRetries
    BY RetriesAssumption DEF PC, Phase
  <2> QED BY <1>0, <2>1 DEF RequestState
<1>3. Becomes(r, q) BY DEF FoundFresh
<1> HIDE DEF q
<1> QED BY <1>0, <1>r, <1>1, <1>2, <1>3, GoesOn

\* What ServeStale() makes of a request.
LEMMA ServeStaleIs ==
  ASSUME NEW q \in RequestState
  PROVE  /\ ServeStale(q) \in RequestState
         /\ ServeStale(q).pc = "serve" /\ ServeStale(q).permit = q.permit
         /\ ServeStale(q).carried = q.carried /\ ServeStale(q).hit = q.hit
<1>1. "serve" \in PC /\ "StaleUpdating" \in Phase /\ 0 \in 0..MaxRetries
  BY RetriesAssumption DEF PC, Phase
<1> QED BY <1>1 DEF ServeStale, RequestState

LEMMA TakesOver ==
  ASSUME Inv, NEW r \in Requests, At(r, "found"), TakeOver(r), UNCHANGED storeVars
  PROVE  Inv'
<1>0. /\ req[r] \in RequestState /\ req[r].pc = "found" /\ req[r].permit = NoLock
      /\ req[r].hit # None /\ Readable(req[r].hit)
  BY Known DEF At, Lane
<1>r. role' = role /\ role' \in [Requests -> Roles] BY SameLock DEF TakeOver, Inv
<1> DEFINE q == [req[r] EXCEPT !.permit = req[r].carried, !.carried = NoLock]
<1>1. q.permit = req[r].carried /\ q.carried = NoLock /\ q.hit = req[r].hit
  BY <1>0 DEF RequestState
<1>2. q \in RequestState BY <1>0 DEF RequestState
<1>3. Becomes(r, BreakNone(q, "Stale")) BY DEF TakeOver
<1> HIDE DEF q
<1>4. \A c \in Requests : role'[c] = "writer" =>
        \/ role[c] = "writer" /\ c \notin {req[r].permit, req[r].carried}
        \/ c \in {q.permit, q.carried}
  BY <1>0, <1>r, <1>1, NoLockAssumption
<1>5. purge = "ready" /\ ~q.hit.partial => cached # None BY <1>0, <1>1, Known DEF Finds
<1>6. "Stale" \in Phase BY DEF Phase
<1> QED BY <1>0, <1>r, <1>1, <1>2, <1>3, <1>4, <1>5, <1>6, Breaks

LEMMA FindsUpdating ==
  ASSUME Inv, NEW r \in Requests, At(r, "found"), StaleBehind(r), UNCHANGED storeVars
  PROVE  Inv'
<1>0. req[r] \in RequestState /\ req[r].pc = "found" /\ req[r].hit # None
  BY Known DEF At, Lane
<1>1. CASE Becomes(r, ServeStale(req[r])) /\ UNCHANGED lockVars
  <2>1. role' = role /\ role' \in [Requests -> Roles] BY <1>1, SameLock DEF Inv
  <2> QED BY <1>0, <1>1, <2>1, ServeStaleIs, GoesOn
<1>2. CASE Behind(r) /\ Becomes(r, [req[r] EXCEPT !.pc = "wait", !.phase = "Stale"])
  <2> DEFINE q == [req[r] EXCEPT !.pc = "wait", !.phase = "Stale"]
  <2>1. /\ q.pc = "wait" /\ q.phase = "Stale" /\ q.permit = req[r].permit
        /\ q.carried = req[r].carried /\ q.hit = req[r].hit
    BY <1>0 DEF RequestState
  <2>2. q \in RequestState
    <3>1. "wait" \in PC /\ "Stale" \in Phase BY DEF PC, Phase
    <3> QED BY <1>0, <3>1 DEF RequestState
  <2>3. Becomes(r, q) BY <1>2
  <2> HIDE DEF q
  <2>4. /\ role' \in [Requests -> Roles]
        /\ \A c \in Requests : role'[c] = "writer" => role[c] = "writer"
    BY <1>2, ReadersDo DEF Inv
  <2> QED BY <1>0, <2>1, <2>2, <2>3, <2>4, GoesOn
<1> QED BY <1>1, <1>2 DEF StaleBehind

\* The writer moves its permit to the background subrequest b.
LEMMA HandsOver ==
  ASSUME Inv, NEW r \in Requests, At(r, "found"), Lock!Elect(r), UNCHANGED storeVars,
         NEW b \in Requests \ {r}, req[b] = Bare("idle"),
         req' = [req EXCEPT ![b].carried = r, ![r] = ServeStale(@)]
  PROVE  Inv'
<1>0. /\ req[r] \in RequestState /\ req[r].pc = "found" /\ req[r].permit = NoLock
      /\ req[r].hit # None
  BY Known DEF At, Lane
<1>1. /\ req[b] \in RequestState /\ req[b].pc = "idle" /\ req[b].permit = NoLock
      /\ req[b].carried = NoLock /\ req[b].hit = None
  <2>1. "idle" \in PC BY DEF PC
  <2> QED BY <2>1, BareIs
<1> DEFINE d == [req[b] EXCEPT !.carried = r]
<1>2. d \in RequestState /\ d.pc = "idle" /\ d.permit = NoLock /\ d.carried = r /\ d.hit = None
  BY <1>1 DEF RequestState
<1>3. /\ req'[r] = ServeStale(req[r]) /\ req'[b] = d
      /\ \A i \in Requests \ {r, b} : req'[i] = req[i]
      /\ req' \in [Requests -> RequestState]
  BY <1>0, <1>2, ServeStaleIs DEF Inv, TypeOK
<1> HIDE DEF d
<1>4. /\ req'[r].pc = "serve" /\ req'[r].permit = NoLock
      /\ req'[r].carried = req[r].carried /\ req'[r].hit = req[r].hit
  BY <1>0, <1>3, ServeStaleIs
<1>5. /\ role' \in [Requests -> Roles]
      /\ \A c \in Requests : role'[c] = "writer" => role[c] = "writer" \/ c = r
  BY ElectDoes DEF Inv
<1>6. /\ prog' = prog /\ temp' = temp /\ cached' = cached /\ purge' = purge
      /\ streaming' = streaming /\ lapsed' = lapsed
  BY DEF storeVars
<1>7. TypeOK' BY <1>3, <1>5, <1>6 DEF Inv, TypeOK, Roles
<1>8. PermitsAccounted'
  <2> SUFFICES ASSUME NEW c \in Requests, role'[c] = "writer"
               PROVE  \E i \in Requests :
                        req'[i].pc \notin Ended /\ c \in {req'[i].permit, req'[i].carried}
    BY DEF PermitsAccounted
  <2>1. CASE c = r BY <2>1, <1>2, <1>3 DEF Ended
  <2>2. CASE c # r
    <3>1. PICK i \in Requests : req[i].pc \notin Ended /\ c \in {req[i].permit, req[i].carried}
      BY <1>5, <2>2 DEF Inv, PermitsAccounted
    <3>2. i # b BY <1>1, <3>1, NoLockAssumption
    <3>3. CASE i = r BY <1>0, <1>4, <3>1, <3>3 DEF Ended
    <3> QED BY <1>3, <3>1, <3>2, <3>3
  <2> QED BY <2>1, <2>2
<1>9. \A i \in Requests :
        /\ At(i, "done")' <=> At(i, "done")
        /\ Lane(req'[i]) /\ Written(req'[i].pc, prog[i])
        /\ req'[i].hit = req[i].hit
        /\ purge = "ready" => Finds(i, req'[i], temp, cached)
  <2> SUFFICES ASSUME NEW i \in Requests
               PROVE  /\ At(i, "done")' <=> At(i, "done")
                      /\ Lane(req'[i]) /\ Written(req'[i].pc, prog[i])
                      /\ req'[i].hit = req[i].hit
                      /\ purge = "ready" => Finds(i, req'[i], temp, cached)
    OBVIOUS
  <2>1. CASE i = r
    BY <2>1, <1>0, <1>4, Known DEF At, Lane, Written, Finds, Filling, Ended
  <2>2. CASE i = b
    BY <2>2, <1>1, <1>2, <1>3, Known DEF At, Lane, Written, Finds, Filling, Ended
  <2>3. CASE i \notin {r, b} BY <2>3, <1>3, Known DEF At
  <2> QED BY <2>1, <2>2, <2>3
<1>10. StoreInv'
  <2>1. ASSUME NEW i \in Requests, req'[i].hit # None
        PROVE  Readable(req[i].hit)'
    <3>1. req[i].hit \in Objects /\ Readable(req[i].hit)
      BY <2>1, <1>9, Known DEF RequestState
    <3> QED BY <3>1, <1>6, <1>9 DEF Readable, Whole, Objects
  <2>2. cached' # None => ~cached'.partial /\ Whole(cached.body)'
    BY <1>6, <1>9 DEF Inv, TypeOK, StoreInv, Whole, Objects
  <2> QED BY <1>6, <1>9, <2>1, <2>2 DEF StoreInv, Inv
<1>11. FindsInv' BY <1>6, <1>9 DEF FindsInv
<1> QED BY <1>7, <1>8, <1>10, <1>11 DEF Inv

\* cache_found() for an expired object, whoever is the writer.
LEMMA FindsStale ==
  ASSUME Inv, NEW r \in Requests, FoundStale(r)
  PROVE  Inv'
<1>0. At(r, "found") /\ UNCHANGED storeVars BY DEF FoundStale
<1>k. /\ req[r] \in RequestState /\ req[r].pc = "found" /\ req[r].permit = NoLock
      /\ req[r].hit # None /\ Readable(req[r].hit)
  BY <1>0, Known DEF At, Lane
<1>1. CASE Lock!Elect(r) /\ Becomes(r, BreakNone([req[r] EXCEPT !.permit = r], "Stale"))
  <2> DEFINE q == [req[r] EXCEPT !.permit = r]
  <2>1. q.permit = r /\ q.carried = req[r].carried /\ q.hit = req[r].hit
    BY <1>k DEF RequestState
  <2>2. q \in RequestState BY <1>k DEF RequestState
  <2>3. Becomes(r, BreakNone(q, "Stale")) BY <1>1
  <2> HIDE DEF q
  <2>4. /\ role' \in [Requests -> Roles]
        /\ \A c \in Requests : role'[c] = "writer" =>
             \/ role[c] = "writer" /\ c \notin {req[r].permit, req[r].carried}
             \/ c \in {q.permit, q.carried}
    BY <1>k, <1>1, <2>1, ElectDoes, NoLockAssumption DEF Inv
  <2>5. purge = "ready" /\ ~q.hit.partial => cached # None BY <1>k, <2>1, Known DEF Finds
  <2>6. "Stale" \in Phase BY DEF Phase
  <2> QED BY <1>0, <1>k, <2>1, <2>2, <2>3, <2>4, <2>5, <2>6, Breaks
<1>2. CASE TakeOver(r) BY <1>0, <1>2, TakesOver
<1>3. CASE StaleBehind(r) BY <1>0, <1>3, FindsUpdating
<1>4. ASSUME Lock!Elect(r), NEW b \in Requests \ {r}, req[b] = Bare("idle"),
             req' = [req EXCEPT ![b].carried = r, ![r] = ServeStale(@)]
      PROVE  Inv'
  BY <1>0, <1>4, HandsOver
<1> QED BY <1>1, <1>2, <1>3, <1>4 DEF FoundStale, StaleWriter

\* A reader stops waiting.
LEMMA WaitEnds ==
  ASSUME Inv, NEW r \in Requests, Woken(r) \/ WaitTimeout(r)
  PROVE  Inv'
<1>0. /\ req[r] \in RequestState /\ req[r].pc = "wait" /\ req[r].permit = NoLock
      /\ req[r].phase \in {"CacheKey", "Stale"} /\ UNCHANGED storeVars
  BY Known DEF Woken, WaitTimeout, At, Lane
<1>r. /\ role' \in [Requests -> Roles]
      /\ \A c \in Requests : role'[c] = "writer" => role[c] = "writer"
  BY ReadersDo DEF Woken, WaitTimeout, Inv
<1>1. CASE /\ req[r].retries < MaxRetries
           /\ Becomes(r, [req[r] EXCEPT !.pc = "lookup", !.retries = @ + 1])
  <2> DEFINE q == [req[r] EXCEPT !.pc = "lookup", !.retries = @ + 1]
  <2>1. /\ q.pc = "lookup" /\ q.phase = req[r].phase /\ q.permit = req[r].permit
        /\ q.carried = req[r].carried /\ q.hit = req[r].hit
    BY <1>0 DEF RequestState
  <2>2. q \in RequestState
    <3>1. "lookup" \in PC BY DEF PC
    <3>2. req[r].retries + 1 \in 0..MaxRetries BY <1>0, <1>1, RetriesAssumption DEF RequestState
    <3> QED BY <1>0, <3>1, <3>2 DEF RequestState
  <2>3. Becomes(r, q) BY <1>1
  <2> HIDE DEF q
  <2> QED BY <1>0, <1>r, <2>1, <2>2, <2>3, GoesOn
<1>2. CASE Becomes(r, BreakNone(req[r], "Disabled"))
  <2>1. "Disabled" \in Phase BY DEF Phase
  <2> QED BY <1>0, <1>r, <1>2, <2>1, Breaks
<1> QED BY <1>1, <1>2 DEF Woken, WaitTimeout

\* cleanup_sub_req().
LEMMA CleansUp ==
  ASSUME Inv, NEW r \in Requests, CleanupSubReq(r)
  PROVE  Inv'
<1>0. /\ req[r] \in RequestState /\ req[r].pc = "leave" /\ UNCHANGED storeVars
      /\ req[r].phase \in {"Miss", "Bypass", "Stale", "Disabled"}
      /\ req[r].phase = "Disabled" => req[r].permit = NoLock
      /\ req[r].phase = "Stale" => req[r].hit # None /\ Readable(req[r].hit)
      /\ purge = "ready" /\ req[r].phase = "Stale" /\ ~req[r].hit.partial => cached # None
  BY Known DEF CleanupSubReq, At, Lane, Finds
<1> DEFINE q == [req[r] EXCEPT !.carried = NoLock]
<1>1. q.permit = req[r].permit /\ q.carried = NoLock /\ q.hit = req[r].hit
  BY <1>0 DEF RequestState
<1>2. q \in RequestState BY <1>0 DEF RequestState
<1>3. Becomes(r, BreakNone(q, req[r].phase)) BY DEF CleanupSubReq
<1> HIDE DEF q
<1>4. /\ role' \in [Requests -> Roles]
      /\ \A c \in Requests : role'[c] = "writer" => role[c] = "writer" /\ c # req[r].carried
  BY DEF CleanupSubReq, Lock!Finish, Lock!Become, Inv, TypeOK, Roles
<1>5. \A c \in Requests : role'[c] = "writer" =>
        \/ role[c] = "writer" /\ c \notin {req[r].permit, req[r].carried}
        \/ c \in {q.permit, q.carried}
  BY <1>1, <1>4
<1>6. req[r].phase \in Phase BY <1>0 DEF RequestState
<1> QED BY <1>0, <1>1, <1>2, <1>3, <1>4, <1>5, <1>6, Breaks

-----------------------------------------------------------------------------
(* Upstream answers.                                                       *)

\* A request that went upstream with a stale object serves that one, perhaps
\* after it has renewed the stored metadata.
LEMMA ServesLookup ==
  ASSUME Inv, NEW r \in Requests, NEW s, NEW p \in Phase,
         At(r, "upstream"), req[r].phase = "Stale", ServeLookup(r, s, p),
         UNCHANGED <<temp, prog, lapsed, purge, streaming>>,
         \/ cached' = cached
         \/ cached # None /\ cached' = [cached EXCEPT !.meta = req[r].hit.meta, !.fresh = TRUE]
  PROVE  Inv'
<1>0. /\ req[r] \in RequestState /\ req[r].pc = "upstream" /\ req[r].carried = NoLock
      /\ req[r].hit # None /\ Readable(req[r].hit)
      /\ purge = "ready" /\ ~req[r].hit.partial => cached # None
      /\ prog[r] = "none" /\ lapsed \subseteq Requests
  BY Known DEF At, Lane, Finds, Written, Filling, Ended, Inv, TypeOK
<1> DEFINE q == [req[r] EXCEPT !.pc = "serve", !.phase = p, !.permit = NoLock]
<1>1. q.pc = "serve" /\ q.permit = NoLock /\ q.carried = NoLock /\ q.hit = req[r].hit
  BY <1>0 DEF RequestState
<1>2. q \in RequestState
  <2>1. "serve" \in PC BY DEF PC
  <2> QED BY <1>0, <2>1 DEF RequestState
<1>3. req' = [req EXCEPT ![r] = q] BY DEF ServeLookup, Becomes
<1> HIDE DEF q
<1>4. /\ role' \in [Requests -> Roles]
      /\ \A c \in Requests : role'[c] = "writer" =>
           role[c] = "writer" /\ c \notin {req[r].permit, req[r].carried}
  BY <1>0, ReleaseDoes, NoLockAssumption DEF ServeLookup, Inv
<1>5. /\ purge' = purge /\ streaming' = streaming /\ temp' = temp /\ prog' = prog
      /\ prog \in [Requests -> Progress]
  BY DEF Inv, TypeOK, Progress
<1>6. /\ cached' \in {None} \cup Objects /\ (cached # None => cached' # None)
      /\ cached' # None => ~cached'.partial /\ Whole(cached'.body)
  <2>1. CASE cached' = cached BY <2>1 DEF Inv, TypeOK, StoreInv
  <2>2. CASE cached # None /\ cached' = [cached EXCEPT !.meta = req[r].hit.meta, !.fresh = TRUE]
    <3>1. cached \in Objects /\ req[r].hit \in Objects
      BY <1>0, <2>2 DEF Inv, TypeOK, RequestState
    <3>2. cached' \in Objects /\ cached'.partial = cached.partial /\ cached'.body = cached.body
      BY <2>2, <3>1 DEF Objects
    <3>3. cached' # None BY <3>2, NoneAssumption DEF Objects
    <3> QED BY <2>2, <3>2, <3>3 DEF Inv, StoreInv
  <2> QED BY <2>1, <2>2
<1>7. Lane(q) /\ Written(q.pc, prog[r]) BY <1>0, <1>1 DEF Lane, Written, Filling, Ended
<1>8. purge = "ready" => Finds(r, q, temp', cached') BY <1>0, <1>1, <1>6 DEF Finds, Filling
<1>9. req[r].pc \notin Ended /\ (r \in temp => prog[r] # "none")
  BY <1>0 DEF Ended, Inv, StoreInv
<1> QED BY <1>0, <1>1, <1>2, <1>3, <1>4, <1>5, <1>6, <1>7, <1>8, <1>9, RequestMoves

\* The storage lacks what the code expects: after a purge, or because what is
\* renewed was never stored.
LEMMA Panics ==
  ASSUME Inv, NEW r \in Requests, req[r].pc \in {"upstream"} \cup Filling, Panic(r, "panicked"),
         purge = "ready" => req[r].hit # None /\ req[r].hit.partial
  PROVE  Inv'
<1> DEFINE q == [Bare("panicked") EXCEPT !.hit = req[r].hit]
<1>0. /\ req[r] \in RequestState /\ Bare("panicked") \in RequestState
      /\ Bare("panicked").pc = "panicked"
      /\ Bare("panicked").permit = NoLock /\ Bare("panicked").carried = NoLock
  BY Known, BareIs DEF PC, Ended
<1>1. /\ q.pc = "panicked" /\ q.permit = NoLock /\ q.carried = NoLock /\ q.hit = req[r].hit
      /\ q \in RequestState
  BY <1>0 DEF RequestState
<1>2. ReleaseLock(r, "Dangling") /\ DropMissHandler(r) /\ Becomes(r, q) BY DEF Panic
<1> HIDE DEF q
<1>3. purge = "ready" => Finds(r, q, temp, cached) BY <1>1 DEF Finds, Filling
<1> QED BY <1>1, <1>2, <1>3, Drops

LEMMA Fails ==
  ASSUME Inv, NEW r \in Requests, UpstreamFails(r) \/ Uncacheable(r) \/ FillFails(r)
  PROVE  Inv'
<1>1. /\ req[r].pc \in {"upstream"} \cup Filling
      /\ \E s \in {"GiveUp", "TransientError"} : Disable(r, s)
  BY DEF UpstreamFails, Uncacheable, FillFails, At, Filling
<1>2. PICK s : ReleaseLock(r, s) /\ DropMissHandler(r) /\ Becomes(r, Bare("done"))
  BY <1>1 DEF Disable
<1> DEFINE q == Bare("done")
<1>3. /\ q \in RequestState /\ q.pc = "done" /\ q.permit = NoLock /\ q.carried = NoLock
      /\ q.hit = None
  BY BareIs DEF PC, Ended
<1>4. Becomes(r, q) BY <1>2
<1> HIDE DEF q
<1>5. Finds(r, q, temp, cached) BY <1>3 DEF Finds, Filling
<1> QED BY <1>1, <1>2, <1>3, <1>4, <1>5, Drops

LEMMA AnswersStale ==
  ASSUME Inv, NEW r \in Requests, StaleIfError(r) \/ NotModified(r)
  PROVE  Inv'
<1>0. /\ At(r, "upstream") /\ req[r].phase = "Stale"
      /\ req[r].hit # None
      /\ purge = "ready" /\ ~req[r].hit.partial => cached # None
  BY Known DEF StaleIfError, NotModified, At, Lane, Finds
<1>p. {"Stale", "Revalidated", "RevalidatedNoCache"} \subseteq Phase BY DEF Phase
<1>1. CASE StaleIfError(r)
  <2>1. ServeLookup(r, "TransientError", "Stale") /\ UNCHANGED storeVars
    BY <1>1 DEF StaleIfError
  <2> QED BY <1>0, <1>p, <2>1, ServesLookup DEF storeVars
<1>2. CASE Revalidate(r)
  <2>1. CASE cached # None
    <3>1. /\ cached' = [cached EXCEPT !.meta = req[r].hit.meta, !.fresh = TRUE]
          /\ ServeLookup(r, "Done", "Revalidated") /\ UNCHANGED <<temp, prog, lapsed, purge, streaming>>
      BY <1>0, <1>2, <2>1 DEF Revalidate
    <3> QED BY <1>0, <1>p, <2>1, <3>1, ServesLookup
  <2>2. CASE cached = None
    BY <1>0, <1>2, <2>2, Panics DEF Revalidate, At
  <2> QED BY <2>1, <2>2
<1>3. CASE RevalidateUncacheable(r)
  <2>1. PICK s : ServeLookup(r, s, "RevalidatedNoCache") /\ UNCHANGED storeVars
    BY <1>0, <1>3 DEF RevalidateUncacheable
  <2> QED BY <1>0, <1>p, <2>1, ServesLookup DEF storeVars
<1> QED BY <1>1, <1>2, <1>3 DEF NotModified

\* A cacheable response header: the fill begins.
LEMMA Admits ==
  ASSUME Inv, NEW r \in Requests, Admit(r)
  PROVE  Inv'
<1>0. /\ req[r] \in RequestState /\ req[r].pc = "upstream" /\ req[r].carried = NoLock
      /\ req[r].phase \in {"Miss", "Bypass", "Stale"}
  BY Known DEF Admit, At, Lane
<1> DEFINE q == [req[r] EXCEPT !.pc = IF streaming THEN "attach" ELSE "fill",
                               !.phase = IF @ = "Stale" THEN "Expired" ELSE "Miss",
                               !.permit = IF streaming THEN NoLock ELSE @,
                               !.hit = None]
<1>1. /\ q.pc = (IF streaming THEN "attach" ELSE "fill") /\ q.carried = NoLock
      /\ q.permit = (IF streaming THEN NoLock ELSE req[r].permit) /\ q.hit = None
  BY <1>0 DEF RequestState
<1>2. q \in RequestState
  <2>1. (IF streaming THEN "attach" ELSE "fill") \in PC BY DEF PC
  <2>2. (IF req[r].phase = "Stale" THEN "Expired" ELSE "Miss") \in Phase BY DEF Phase
  <2>3. (IF streaming THEN NoLock ELSE req[r].permit) \in Requests \cup {NoLock}
    BY <1>0 DEF RequestState
  <2> QED BY <1>0, <2>1, <2>2, <2>3 DEF RequestState
<1>3. req' = [req EXCEPT ![r] = q] BY <1>0 DEF Admit, Becomes
<1> HIDE DEF q
<1>4. /\ temp' = temp \cup {r} /\ prog' = [prog EXCEPT ![r] = "part"]
      /\ IF streaming THEN ReleaseLock(r, "Done") ELSE UNCHANGED lockVars
      /\ UNCHANGED <<cached, lapsed, purge, streaming>>
  BY <1>0 DEF Admit
<1>5. /\ role' \in [Requests -> Roles]
      /\ \A c \in Requests : role'[c] = "writer" =>
           \/ role[c] = "writer" /\ c \notin {req[r].permit, req[r].carried}
           \/ q.pc \notin Ended /\ c \in {q.permit, q.carried}
  <2>1. CASE streaming BY <2>1, <1>0, <1>4, ReleaseDoes, NoLockAssumption DEF Inv
  <2>2. CASE ~streaming BY <2>2, <1>0, <1>1, <1>4, SameLock, NoLockAssumption DEF Inv, Ended
  <2> QED BY <2>1, <2>2
<1>6. /\ prog' \in [Requests -> Progress] /\ \A i \in Requests \ {r} : prog'[i] = prog[i]
      /\ prog'[r] = "part"
  BY <1>4 DEF Inv, TypeOK, Progress
<1>7. /\ cached' \in {None} \cup Objects /\ lapsed' \subseteq Requests
      /\ cached' # None => ~cached'.partial /\ Whole(cached'.body)
  BY <1>4 DEF Inv, TypeOK, StoreInv
<1>8. Lane(q) /\ Written(q.pc, prog'[r]) BY <1>1, <1>6 DEF Lane, Written, Filling, Ended
<1>9. Finds(r, q, temp', cached') BY <1>1, <1>4 DEF Finds, Filling
<1>10. req[r].pc \notin Ended BY <1>0 DEF Ended
<1> QED BY <1>1, <1>2, <1>3, <1>4, <1>5, <1>6, <1>7, <1>8, <1>9, <1>10, RequestMoves

\* A fill goes on: the body is written, or the next step finds its object.
LEMMA FillGoesOn ==
  ASSUME Inv, NEW r \in Requests, req[r].pc \in Filling,
         NEW l \in {"fill", "finish", "store"},
         Becomes(r, [req[r] EXCEPT !.pc = l]),
         UNCHANGED <<lockVars, cached, temp, lapsed, purge, streaming>>,
         prog' \in [Requests -> Progress], \A i \in Requests \ {r} : prog'[i] = prog[i],
         Written(l, prog'[r])
  PROVE  Inv'
<1>0. /\ req[r] \in RequestState /\ req[r].carried = NoLock /\ req[r].pc \notin Ended
      /\ purge = "ready" => Finds(r, req[r], temp, cached)
      /\ req[r].hit # None => Readable(req[r].hit)
  BY Known DEF Lane, Filling, Ended
<1> DEFINE q == [req[r] EXCEPT !.pc = l]
<1>1. /\ q.pc = l /\ q.carried = NoLock /\ q.permit = req[r].permit /\ q.hit = req[r].hit
  BY <1>0 DEF RequestState
<1>2. q \in RequestState
  <2>1. l \in PC BY DEF PC
  <2> QED BY <1>0, <2>1 DEF RequestState
<1>3. req' = [req EXCEPT ![r] = q] BY DEF Becomes
<1> HIDE DEF q
<1>4. role' = role /\ role' \in [Requests -> Roles] BY SameLock DEF Inv
<1>5. \A c \in Requests : role'[c] = "writer" =>
        \/ role[c] = "writer" /\ c \notin {req[r].permit, req[r].carried}
        \/ q.pc \notin Ended /\ c \in {q.permit, q.carried}
  BY <1>0, <1>1, <1>4 DEF Ended
<1>6. prog'[r] # "none" BY DEF Written
<1>7. /\ cached' \in {None} \cup Objects /\ lapsed' \subseteq Requests
      /\ cached' # None => ~cached'.partial /\ Whole(cached'.body)
  BY DEF Inv, TypeOK, StoreInv
<1>8. Lane(q) BY <1>1 DEF Lane, Filling
<1>9. purge = "ready" => Finds(r, q, temp', cached') BY <1>0, <1>1 DEF Finds, Filling
<1> QED BY <1>0, <1>1, <1>2, <1>3, <1>4, <1>5, <1>6, <1>7, <1>8, <1>9, RequestMoves

LEMMA Fills ==
  ASSUME Inv, NEW r \in Requests, Attach(r) \/ WriteBody(r) \/ FinishRead(r)
  PROVE  Inv'
<1>0. prog \in [Requests -> Progress] /\ Written(req[r].pc, prog[r])
  BY Known DEF Inv, TypeOK, Progress
<1>1. CASE Attach(r)
  <2>0. req[r].pc = "attach" BY <1>1 DEF Attach, At
  <2>1. CASE r \in temp
    <3>1. /\ Becomes(r, [req[r] EXCEPT !.pc = "fill"])
          /\ UNCHANGED <<lockVars, cached, temp, lapsed, purge, streaming>> /\ prog' = prog
      BY <1>1, <2>1 DEF Attach, storeVars
    <3>2. Written("fill", prog'[r]) BY <1>0, <2>0, <3>1 DEF Written, Filling, Ended
    <3> QED BY <1>0, <2>0, <3>1, <3>2, FillGoesOn DEF Filling
  <2>2. CASE r \notin temp
    <3>1. purge # "ready" BY <2>0, <2>2, Known DEF Finds, Filling
    <3> QED BY <1>1, <2>0, <2>2, <3>1, Panics DEF Attach, Filling
  <2> QED BY <2>1, <2>2
<1>2. CASE WriteBody(r)
  <2>0. req[r].pc = "fill" BY <1>2 DEF WriteBody, At
  <2>1. PICK p \in {"all", "complete"} : prog' = [prog EXCEPT ![r] = p] BY <1>2 DEF WriteBody
  <2>2. /\ prog' \in [Requests -> Progress] /\ \A i \in Requests \ {r} : prog'[i] = prog[i]
        /\ prog'[r] \in {"all", "complete"}
    BY <1>0, <2>1 DEF Progress
  <2>3. Written("finish", prog'[r]) BY <2>2 DEF Written, Filling, Ended
  <2> QED BY <1>2, <2>0, <2>2, <2>3, FillGoesOn DEF WriteBody, Filling
<1>3. CASE FinishRead(r)
  <2>0. req[r].pc = "finish" BY <1>3 DEF FinishRead, At
  <2>1. CASE r \in temp \/ ~streaming
    <3>1. /\ Becomes(r, [req[r] EXCEPT !.pc = "store"])
          /\ UNCHANGED <<lockVars, cached, temp, lapsed, purge, streaming>> /\ prog' = prog
      BY <1>3, <2>1 DEF FinishRead, storeVars
    <3>2. Written("store", prog'[r]) BY <1>0, <2>0, <3>1 DEF Written, Filling, Ended
    <3> QED BY <1>0, <2>0, <3>1, <3>2, FillGoesOn DEF Filling
  <2>2. CASE r \notin temp /\ streaming
    <3>1. purge # "ready" BY <2>0, <2>2, Known DEF Finds, Filling
    <3> QED BY <1>3, <2>0, <2>2, <3>1, Panics DEF FinishRead, Filling
  <2> QED BY <2>1, <2>2
<1> QED BY <1>1, <1>2, <1>3

LEMMA Inserts ==
  ASSUME Inv, NEW r \in Requests, FinishInsert(r)
  PROVE  Inv'
<1>0. /\ req[r].pc = "store" /\ req[r].carried = NoLock /\ req[r].pc \notin Ended
      /\ prog[r] \in {"all", "complete"}
  BY Known DEF FinishInsert, At, Lane, Written, Filling, Ended
<1> DEFINE q == Bare("done")
<1>1. /\ q \in RequestState /\ q.pc = "done" /\ q.permit = NoLock /\ q.carried = NoLock
      /\ q.hit = None
  BY BareIs DEF PC, Ended
<1>2. req' = [req EXCEPT ![r] = q] BY DEF FinishInsert, Becomes
<1> HIDE DEF q
<1>3. /\ role' \in [Requests -> Roles]
      /\ \A c \in Requests : role'[c] = "writer" =>
           role[c] = "writer" /\ c \notin {req[r].permit, req[r].carried}
  BY <1>0, ReleaseDoes, NoLockAssumption DEF FinishInsert, Inv
<1>4. /\ cached' = Object(r, r, FALSE, r \notin lapsed) /\ temp' = temp \ {r}
      /\ lapsed' \subseteq Requests
      /\ prog' = prog /\ purge' = purge /\ streaming' = streaming
      /\ prog \in [Requests -> Progress]
  BY DEF FinishInsert, Inv, TypeOK, Progress
<1>5. cached' \in Objects /\ cached'.body = r /\ ~cached'.partial BY <1>4 DEF Object, Objects
<1>6. cached' # None BY <1>5, NoneAssumption DEF Objects
<1>7. Lane(q) /\ Written(q.pc, prog[r]) BY <1>0, <1>1 DEF Lane, Written, Filling, Ended
<1>8. Finds(r, q, temp', cached') BY <1>1 DEF Finds, Filling
<1> QED BY <1>0, <1>1, <1>2, <1>3, <1>4, <1>5, <1>6, <1>7, <1>8, RequestMoves

\* A response ends, and with it a permit left in the subrequest's ctx.
LEMMA Serves ==
  ASSUME Inv, NEW r \in Requests, ServeHit(r) \/ ReadAborted(r) \/ ClientGone(r)
  PROVE  Inv'
<1>0. /\ req[r].pc = "serve" /\ req[r].permit = NoLock /\ req[r].pc \notin Ended
      /\ prog[r] = "none"
  BY Known DEF ServeHit, ReadAborted, ClientGone, At, Lane, Written, Filling, Ended
<1>1. PICK l \in {"served", "done"} : EndServe(r, l) BY DEF ServeHit, ReadAborted, ClientGone
<1> DEFINE q == Bare(l)
<1>2. q \in RequestState /\ q.pc = l /\ q.permit = NoLock /\ q.carried = NoLock /\ q.hit = None
  BY BareIs DEF PC, Ended
<1>3. req' = [req EXCEPT ![r] = q] /\ UNCHANGED storeVars BY <1>1 DEF EndServe, Becomes
<1> HIDE DEF q
<1>4. /\ role' \in [Requests -> Roles]
      /\ \A c \in Requests : role'[c] = "writer" =>
           role[c] = "writer" /\ c \notin {req[r].permit, req[r].carried}
  BY <1>0, <1>1, NoLockAssumption
  DEF EndServe, Lock!Finish, Lock!Become, lockVars, Inv, TypeOK, Roles
<1>5. Lane(q) /\ Written(q.pc, prog[r]) /\ Finds(r, q, temp, cached)
  BY <1>0, <1>2 DEF Lane, Written, Finds, Filling, Ended
<1> QED BY <1>0, <1>2, <1>3, <1>4, <1>5, QuietMoves

-----------------------------------------------------------------------------
(* Purges and time.                                                        *)

LEMMA Others ==
  ASSUME Inv, PurgeTemp \/ PurgeCached \/ Age \/ \E r \in Requests : AgeTimeout(r) \/ FillExpires(r)
  PROVE  Inv'
<1>1. /\ req' = req /\ prog' = prog /\ streaming' = streaming /\ role' = role
      /\ temp' \subseteq temp /\ (cached' = cached \/ cached' = None)
      /\ \/ purge' \in {"temp", "over"}
         \/ purge' = purge /\ temp' = temp /\ cached' = cached
      /\ lapsed' \subseteq Requests
  BY DEF Inv, TypeOK, PurgeTemp, PurgeCached, Age, AgeTimeout, FillExpires, Lock!Age, Lock!TimeOut, lockVars, storeVars
<1>2. TypeOK' BY <1>1 DEF Inv, TypeOK
<1>3. PermitsAccounted' BY <1>1 DEF Inv, PermitsAccounted
<1>4. StoreInv' BY <1>1 DEF Inv, StoreInv, Readable, Whole, At
<1>5. FindsInv' BY <1>1 DEF Inv, FindsInv
<1> QED BY <1>2, <1>3, <1>4, <1>5 DEF Inv

LEMMA Expires ==
  ASSUME Inv, ObjectExpires
  PROVE  Inv'
<1>1. /\ cached \in Objects /\ ~cached.partial /\ Whole(cached.body)
      /\ cached' = [cached EXCEPT !.fresh = FALSE]
  BY DEF ObjectExpires, Inv, TypeOK, StoreInv
<1>2. /\ cached' \in Objects /\ cached'.body = cached.body /\ cached'.partial = cached.partial
  BY <1>1 DEF Objects
<1>3. cached' # None BY <1>2, NoneAssumption DEF Objects
<1>4. /\ req' = req /\ prog' = prog /\ streaming' = streaming /\ role' = role
      /\ temp' = temp /\ lapsed' = lapsed /\ purge' = purge
  BY DEF ObjectExpires, lockVars
<1>5. TypeOK' BY <1>2, <1>4 DEF Inv, TypeOK
<1>6. PermitsAccounted' BY <1>4 DEF Inv, PermitsAccounted
<1>7. StoreInv' BY <1>1, <1>2, <1>4 DEF Inv, StoreInv, Readable, Whole, At
<1>8. FindsInv' BY <1>3, <1>4 DEF Inv, FindsInv, Finds
<1> QED BY <1>5, <1>6, <1>7, <1>8 DEF Inv

LEMMA InitInv == Init => Inv
<1> SUFFICES ASSUME Init PROVE Inv OBVIOUS
<1>1. Bare("idle") \in RequestState /\ Bare("idle").pc = "idle" /\ Bare("idle").permit = NoLock
      /\ Bare("idle").carried = NoLock /\ Bare("idle").hit = None
  BY BareIs DEF PC
<1>2. \A r \in Requests : req[r] = Bare("idle") /\ prog[r] = "none" /\ role[r] = "out"
  BY DEF Init, Lock!Init
<1>3. cached = None \/ (cached \in Objects /\ ~cached.partial /\ cached.body = Old)
  <2>1. Object(Old, Old, FALSE, FALSE) \in Objects BY DEF Object, Objects
  <2>2. ~Object(Old, Old, FALSE, FALSE).partial /\ Object(Old, Old, FALSE, FALSE).body = Old
    BY DEF Object
  <2> QED BY <2>1, <2>2 DEF Init
<1>4. TypeOK BY <1>1, <1>3 DEF Init, Lock!Init, TypeOK
<1>5. PermitsAccounted BY <1>2 DEF PermitsAccounted
<1>6. StoreInv BY <1>1, <1>2, <1>3 DEF Init, StoreInv, Lane, Written, Whole, Filling, Ended
<1>7. FindsInv BY <1>1, <1>2 DEF FindsInv, Finds, Filling
<1> QED BY <1>4, <1>5, <1>6, <1>7 DEF Inv

LEMMA NextInv == Inv /\ [Next]_vars => Inv'
<1> SUFFICES ASSUME Inv, [Next]_vars PROVE Inv' OBVIOUS
<1>1. ASSUME NEW r \in Requests, RequestStep(r)
      PROVE  Inv'
  BY <1>1, Lookups, Misses, FindsFresh, FindsStale, WaitEnds, Others, CleansUp, Fails,
     AnswersStale, Admits, Fills, Inserts, Serves
  DEF RequestStep
<1>2. ASSUME NEW r \in Requests,
             \/ Start(r) \/ LookupError(r) \/ Deferred(r) \/ WaitTimeout(r) \/ ClientGone(r)
             \/ FillExpires(r)
      PROVE  Inv'
  BY <1>2, Starts, Lookups, WaitEnds, Serves, Others
<1>3. CASE ObjectExpires \/ PurgeTemp \/ PurgeCached \/ Age BY <1>3, Others, Expires
<1>4. CASE UNCHANGED vars
  BY <1>4 DEF vars, lockVars, storeVars, Inv, TypeOK, PermitsAccounted, StoreInv, Readable,
              Whole, At, FindsInv
<1> QED BY <1>1, <1>2, <1>3, <1>4 DEF Next

LEMMA Invariant == Spec => []Inv
BY InitInv, NextInv, PTL DEF Spec

\* Whatever path proxy_cache() leaves by, and however many requests and
\* background subrequests there are, every write permit stays in the hands of
\* a request that is still running and will release it.
THEOREM PermitsAlwaysAccounted == Spec => []PermitsAccounted
<1>1. Inv => PermitsAccounted BY DEF Inv
<1> QED BY <1>1, Invariant, PTL

\* finish_miss_handler() admits whole bodies only, HttpCache is never called in a
\* wrong phase, and MemCache finds what it expects unless it was purged, or had
\* expired before it was stored.
THEOREM StoreAlwaysSound == Spec => []StoreSound
<1>1. ASSUME Inv PROVE StoreSound
  <2>1. AdmittedWhole BY <1>1 DEF Inv, StoreInv, Whole, AdmittedWhole
  <2>2. PanicsExplained
    BY <1>1 DEF Inv, StoreInv, Lane, FindsInv, Finds, PanicsExplained, At
  <2> QED BY <2>1, <2>2 DEF StoreSound
<1> QED BY <1>1, Invariant, PTL

-----------------------------------------------------------------------------
(* Who ends a response.                                                    *)

\* A request's own steps, the ones that end its response aside, are not taken
\* while it serves, and they leave alone whoever serves.
LEMMA OwnSteps ==
  ASSUME TypeOK, NEW i \in Requests,
         \/ RequestStep(i) \/ Start(i) \/ LookupError(i) \/ Deferred(i) \/ WaitTimeout(i)
         \/ ClientGone(i)
  PROVE  /\ At(i, "serve") => ServeHit(i) \/ ReadAborted(i) \/ ClientGone(i)
         /\ \A r \in Requests \ {i} : At(r, "serve") => req'[r] = req[r]
<1>1. At(i, "serve") => ServeHit(i) \/ ReadAborted(i) \/ ClientGone(i)
  BY DEF RequestStep, Start, Lookup, LookupError, Deferred, Missed, FoundMiss, FoundFresh,
         FoundStale, Woken, AgeTimeout, WaitTimeout, CleanupSubReq, UpstreamFails, Uncacheable,
         StaleIfError, NotModified, Admit, Attach, WriteBody, FillFails, FinishRead,
         FinishInsert, At
<1>2. ASSUME NEW q, Becomes(i, q)
      PROVE  \A r \in Requests \ {i} : req'[r] = req[r]
  BY <1>2 DEF Becomes, TypeOK
<1>3. ASSUME NEW b \in Requests, req[b] = Bare("idle"),
             req' = [req EXCEPT ![b].carried = i, ![i] = ServeStale(@)]
      PROVE  \A r \in Requests \ {i} : At(r, "serve") => req'[r] = req[r]
  BY <1>3, BareIs DEF TypeOK, At, PC
<1>4. \/ \E q : Becomes(i, q)
      \/ req' = req
      \/ \E b \in Requests : /\ req[b] = Bare("idle")
                             /\ req' = [req EXCEPT ![b].carried = i, ![i] = ServeStale(@)]
  <2>1. CASE Start(i) \/ Lookup(i) \/ LookupError(i) \/ Deferred(i) \/ Missed(i) \/ FoundMiss(i)
    BY <2>1 DEF Start, Lookup, LookupError, Deferred, Missed, FoundMiss, AsMiss, Panic
  <2>2. CASE FoundFresh(i) \/ FoundStale(i) \/ Woken(i) \/ AgeTimeout(i) \/ WaitTimeout(i)
    BY <2>2 DEF FoundFresh, FoundStale, TakeOver, StaleBehind, StaleWriter, Woken, AgeTimeout,
                WaitTimeout
  <2>3. CASE CleanupSubReq(i) \/ UpstreamFails(i) \/ Uncacheable(i) \/ StaleIfError(i)
             \/ NotModified(i) \/ Admit(i)
    BY <2>3 DEF CleanupSubReq, UpstreamFails, Uncacheable, StaleIfError, NotModified, Admit,
                Disable, ServeLookup, Revalidate, RevalidateUncacheable, Panic
  <2>4. CASE Attach(i) \/ WriteBody(i) \/ FillFails(i) \/ FinishRead(i) \/ FinishInsert(i)
             \/ ServeHit(i) \/ ReadAborted(i) \/ ClientGone(i)
    BY <2>4 DEF Attach, WriteBody, FillFails, FinishRead, FinishInsert, ServeHit, ReadAborted,
                ClientGone, Disable, EndServe, Panic
  <2> QED BY <2>1, <2>2, <2>3, <2>4 DEF RequestStep
<1> QED BY <1>1, <1>2, <1>3, <1>4

\* A response ends cleanly only by ServeHit().
LEMMA OnlyServeHit ==
  ASSUME TypeOK, [Next]_vars, NEW r \in Requests, At(r, "serve"), At(r, "served")'
  PROVE  ServeHit(r)
<1>0. req'[r] # req[r] BY DEF At
<1>1. PICK i \in Requests :
        \/ RequestStep(i) \/ Start(i) \/ LookupError(i) \/ Deferred(i) \/ WaitTimeout(i)
        \/ ClientGone(i)
  BY <1>0 DEF Next, FillExpires, ObjectExpires, PurgeTemp, PurgeCached, Age, vars
<1>2. ServeHit(r) \/ ReadAborted(r) \/ ClientGone(r) BY <1>0, <1>1, OwnSteps
<1>3. CASE EndServe(r, "done")
  <2>1. req'[r] = Bare("done") BY <1>3 DEF EndServe, Becomes, TypeOK
  <2>2. req'[r].pc = "done" BY <2>1, BareIs DEF PC, Ended
  <2> QED BY <2>2 DEF At
<1> QED BY <1>2, <1>3 DEF ReadAborted, ClientGone

\* With fail_readers_of_dropped_writes a request that reads a fill in progress
\* reports a complete response only when the whole body was written.
THEOREM ReadersServedWhole == ASSUME FailReaders PROVE Spec => ServedWhole
<1>1. ASSUME Inv, [Next]_vars, NEW r \in Requests, At(r, "serve"), At(r, "served")'
      PROVE  req[r].hit.body = Old \/ prog[req[r].hit.body] \in {"all", "complete"}
  <2>1. BodyEnds(req[r].hit) BY <1>1, OnlyServeHit DEF Inv, ServeHit
  <2>2. Readable(req[r].hit) BY <1>1, Known DEF At, Lane
  <2>3. CASE ~req[r].hit.partial BY <2>2, <2>3 DEF Readable, Whole
  <2>4. CASE req[r].hit.partial
    <3> DEFINE w == req[r].hit.body
    <3>1. w \in Requests /\ prog[w] # "none" BY <2>2, <2>4 DEF Readable
    <3>2. prog[w] = "complete" \/ (prog[w] # "aborted" /\ req[w].pc \in Ended)
      BY <2>1, <2>4 DEF BodyEnds
    <3>3. prog[w] \in Progress BY <1>1, <3>1 DEF Inv, TypeOK, Progress
    <3>4. req[w].pc \in Ended => prog[w] # "part" BY <1>1, <3>1, Known DEF Written
    <3> HIDE DEF w
    <3>5. prog[w] \in {"all", "complete"} BY <3>1, <3>2, <3>3, <3>4 DEF Progress
    <3> QED BY <3>5 DEF w
  <2> QED BY <2>3, <2>4
<1>2. Inv /\ [Next]_vars =>
        [\A r \in Requests :
           At(r, "serve") /\ At(r, "served")' =>
             req[r].hit.body = Old \/ prog[req[r].hit.body] \in {"all", "complete"}]_vars
  BY <1>1
<1> QED BY <1>2, Invariant, PTL DEF Spec, ServedWhole
=============================================================================
