--------------------------- MODULE VariantsProofs ---------------------------
(***************************************************************************)
(* For any requests, Vary headers and values, with and without the cache   *)
(* lock: a variant's slot and its fills hold that variant, and nothing     *)
(* fetched before a purge or a change of the Vary header is served to a    *)
(* request that starts later, but for the exceptions of TombstoneHolds.    *)
(***************************************************************************)
EXTENDS Variants, TLAPS

RequestState ==
  [pc : {"idle", "lookup", "lock", "wait", "fetch", "fill", "served"},
   want : Values \union {None}, key : Keys, valid_after : Nat, meta : Metas \union {None},
   body : Bodies \union {None}, partial : BOOLEAN, temp : BOOLEAN, late : BOOLEAN,
   same : BOOLEAN]

\* Slots, the lock table and the requests hold what the structures of the code declare.
TypeOK ==
  /\ now \in Nat /\ reset \in Nat /\ carried \in BOOLEAN /\ crossed \in BOOLEAN
  /\ slot \in [Keys -> Assets \union {None}]
  /\ writer \in [Keys -> Requests \union {None}]
  /\ req \in [Requests -> RequestState]

\* A variance is computed from the family the response belongs to.
Named(m) ==
  IF m.family = None THEN m.variance = Primary
  ELSE \E v \in Values : m.variance = <<m.family, v>>

\* An asset under the key of a variant is that variant, and its body is as new as
\* its metadata.  One under the primary key is of the present family.
AssetOK(k, m, b, n, t, ca, cr) ==
  /\ m \in Metas /\ b \in Bodies /\ Named(m) /\ m.created < n
  /\ k # Primary => m.variance = k /\ (~cr => b.at >= m.created)
  /\ k = Primary /\ ~ca => b.at >= t /\ m.provenance >= t

AssetInv(k, m, b) == AssetOK(k, m, b, now, reset, carried, crossed)

SlotInv(k) ==
  slot[k] # None => ~slot[k].partial /\ AssetInv(k, slot[k].meta, slot[k].body)

\* A request on its way to refresh a stale asset.
Refreshing(r) ==
  req[r].pc \in {"lock", "fetch"} /\ req[r].meta # None =>
    /\ Named(req[r].meta) /\ req[r].meta.created < now
    /\ req[r].key # Primary => req[r].meta.variance = req[r].key
    /\ req[r].key = Primary /\ req[r].late /\ ~carried => req[r].meta.provenance >= reset

\* A response on its way to a slot.  Only a refresh by a response with the same
\* Vary has a provenance from before.
Filling(r) ==
  At(r, "fill") =>
    /\ req[r].meta \in Metas /\ req[r].body \in Bodies /\ Named(req[r].meta)
    /\ req[r].body.at = req[r].meta.created /\ req[r].meta.created < now
    /\ req[r].key # Primary => req[r].meta.variance = req[r].key
    /\ ~req[r].same => req[r].meta.provenance = req[r].meta.created
    /\ req[r].temp => AssetInv(req[r].key, req[r].meta, req[r].body)

\* The reader of a variant is bound by the tombstone it saw in the primary slot.
Looking(r) ==
  /\ req[r].pc \in {"lookup", "lock", "wait"} /\ req[r].key # Primary /\ req[r].late /\ ~carried
       => req[r].valid_after >= reset
  /\ req[r].pc \in {"lookup", "wait"} => req[r].meta = None

Served(r) ==
  At(r, "served") =>
    /\ req[r].meta \in Metas /\ req[r].body \in Bodies
    /\ req[r].late /\ ~carried =>
         \/ req[r].body.at >= reset
         \/ crossed /\ req[r].body.at < req[r].meta.created

RequestInv(r) ==
  /\ req[r].pc # "idle" => req[r].want \in Values
  /\ Looking(r) /\ Refreshing(r) /\ Filling(r) /\ Served(r)

\* When the bodies stored under a key were fetched.
Times(k) ==
  {req[i].body.at : i \in Fills(k)} \union
  (IF slot[k] # None THEN {slot[k].body.at} ELSE {})

\* No body older than the asset that a request found in the slot of a variant comes
\* to the variant while the request asks the origin about that asset.
Newer(r) ==
  req[r].pc \in {"lock", "fetch"} /\ req[r].meta # None /\ req[r].key # Primary
    /\ ~req[r].partial /\ ~crossed
    => \A t \in Times(req[r].key) : t >= req[r].meta.created

Inv ==
  /\ TypeOK /\ reset <= now
  /\ \A k \in Keys : SlotInv(k)
  /\ \A r \in Requests : RequestInv(r) /\ Newer(r)
-----------------------------------------------------------------------------
(* What a step leaves alone.                                               *)

\* What is in the primary slot or among its fills is no older than before.
Steady == ~carried' => reset' = reset /\ ~carried

\* The request is as before, or has become older than the last reset, or has lost
\* its fill to a purge.
AsBefore(i) ==
  /\ req'[i].pc = req[i].pc /\ req'[i].want = req[i].want /\ req'[i].key = req[i].key
  /\ req'[i].valid_after = req[i].valid_after /\ req'[i].meta = req[i].meta
  /\ req'[i].body = req[i].body /\ req'[i].partial = req[i].partial /\ req'[i].same = req[i].same
  /\ req'[i].late => req[i].late /\ Steady
  /\ req'[i].temp => req[i].temp /\ (i \in Fills(Primary) => Steady)

\* Time passes and a 304 for a fill is not forgotten.
Onward == now \in Nat /\ now' \in Nat /\ now <= now' /\ (crossed => crossed')

LEMMA OnwardIs == ASSUME now \in Nat, now' = now, crossed => crossed' PROVE Onward
<1>1. now <= now' OBVIOUS
<1> QED BY Zenon, <1>1 DEF Onward

LEMMA RequestKept ==
  ASSUME NEW i \in Requests, TypeOK, RequestInv(i), AsBefore(i), Onward
  PROVE  RequestInv(i)'
<1>1. At(i, "fill")' = At(i, "fill") /\ At(i, "served")' = At(i, "served")
  BY Zenon DEF At, AsBefore
<1>2. Looking(i)' BY Zenon DEF RequestInv, Looking, AsBefore, Steady
<1>3. Refreshing(i)'
  <2> SUFFICES ASSUME req[i].pc \in {"lock", "fetch"}, req[i].meta # None PROVE Refreshing(i)'
    BY Zenon DEF Refreshing, AsBefore
  <2>1. Refreshing(i) /\ req[i].meta \in Metas BY Zenon DEF RequestInv, TypeOK, RequestState
  <2>2. req[i].meta.created \in Nat /\ req[i].meta.created < now BY Zenon, <2>1 DEF Refreshing, Metas
  <2>3. req'[i].meta.created < now' BY <2>2 DEF Onward, AsBefore
  <2> QED BY Zenon, <2>1, <2>3 DEF Refreshing, AsBefore, Named, Steady
<1>4. Filling(i)'
  <2> SUFFICES ASSUME At(i, "fill") PROVE Filling(i)' BY Zenon, <1>1 DEF Filling
  <2>1. Filling(i) /\ req[i].meta.created \in Nat /\ req[i].meta.created < now
    BY Zenon DEF RequestInv, Filling, Metas
  <2>2. req'[i].meta.created < now' BY <2>1 DEF Onward, AsBefore
  <2>3. ASSUME req'[i].temp
        PROVE  AssetOK(req[i].key, req[i].meta, req[i].body, now', reset', carried', crossed')
    <3>1. AssetOK(req[i].key, req[i].meta, req[i].body, now, reset, carried, crossed)
      BY Zenon, <2>1, <2>3 DEF Filling, AsBefore, AssetInv
    <3>2. req[i].key = Primary => Steady BY Zenon, <2>3 DEF AsBefore, Fills
    <3> QED BY Zenon, <2>1, <2>2, <3>1, <3>2 DEF AssetOK, Onward, AsBefore, Steady
  <2> QED BY Zenon, <1>1, <2>1, <2>2, <2>3 DEF Filling, AsBefore, AssetInv, Named
<1>5. Served(i)' BY Zenon, <1>1 DEF RequestInv, Served, AsBefore, Onward, Steady
<1> QED BY Zenon, <1>2, <1>3, <1>4, <1>5 DEF RequestInv, AsBefore

LEMMA SlotKept ==
  ASSUME NEW k \in Keys, SlotInv(k), slot'[k] = slot[k], Onward,
         k = Primary => Steady
  PROVE  SlotInv(k)'
<1> SUFFICES ASSUME slot[k] # None PROVE SlotInv(k)' BY Zenon DEF SlotInv
<1>1. AssetOK(k, slot[k].meta, slot[k].body, now, reset, carried, crossed)
  BY Zenon DEF SlotInv, AssetInv
<1>2. slot[k].meta.created \in Nat /\ slot[k].meta.created < now
  BY Zenon, <1>1 DEF AssetOK, Metas
<1>3. slot[k].meta.created < now' BY <1>2 DEF Onward
<1>4. AssetOK(k, slot[k].meta, slot[k].body, now', reset', carried', crossed')
  BY Zenon, <1>1, <1>3 DEF AssetOK, Onward, Steady
<1> QED BY Zenon, <1>4 DEF SlotInv, AssetInv

\* The bodies stored under the key were there before or come only now.
NothingOld(k) == Times(k)' \subseteq Times(k) \union {now}

LEMMA NewerKept ==
  ASSUME NEW i \in Requests, TypeOK, RequestInv(i), Newer(i), AsBefore(i), Onward,
         \A k \in Keys : NothingOld(k)
  PROVE  Newer(i)'
<1> SUFFICES ASSUME req[i].pc \in {"lock", "fetch"}, req[i].meta # None, req[i].key # Primary,
                    ~req[i].partial, ~crossed', NEW t \in Times(req[i].key)'
             PROVE  t >= req[i].meta.created
  BY Zenon DEF Newer, AsBefore
<1>1. req[i].key \in Keys /\ req[i].meta \in Metas BY Zenon DEF TypeOK, RequestState
<1>2. req'[i].key = req[i].key BY Zenon DEF AsBefore
<1>3. t \in Times(req[i].key) \/ t = now
  <2> DEFINE k == req[i].key
  <2>1. NothingOld(k) BY Zenon, <1>1
  <2> QED BY Zenon, <1>2, <2>1 DEF NothingOld, Times, Fills, At
<1>4. CASE t \in Times(req[i].key) BY Zenon, <1>4 DEF Newer, Onward
<1>5. CASE t = now
  <2>1. req[i].meta.created < now /\ req[i].meta.created \in Nat /\ now \in Nat
    BY Zenon, <1>1 DEF RequestInv, Refreshing, Metas, TypeOK
  <2> QED BY <1>5, <2>1
<1> QED BY Zenon, <1>3, <1>4, <1>5

LEMMA StepKeeps ==
  ASSUME Inv, TypeOK', Onward, reset' <= now', \A k \in Keys : SlotInv(k)' /\ NothingOld(k),
         \A i \in Requests : AsBefore(i) \/ (RequestInv(i)' /\ Newer(i)')
  PROVE  Inv'
<1>1. ASSUME NEW i \in Requests, AsBefore(i) PROVE RequestInv(i)' /\ Newer(i)'
  <2>1. TypeOK /\ RequestInv(i) /\ Newer(i) BY Zenon DEF Inv
  <2> QED BY Zenon, <1>1, <2>1, RequestKept, NewerKept
<1> QED BY Zenon, <1>1 DEF Inv

LEMMA SetRequest ==
  ASSUME req \in [Requests -> RequestState], NEW r \in Requests, NEW q \in RequestState,
         req' = [req EXCEPT ![r] = q]
  PROVE  /\ req' \in [Requests -> RequestState] /\ req'[r] = q
         /\ \A i \in Requests : i # r => req'[i] = req[i]
BY Zenon

\* A step that changes one request, and neither a slot nor the history.
LEMMA OthersKept ==
  ASSUME Inv, NEW r \in Requests, NEW q \in RequestState, req' = [req EXCEPT ![r] = q],
         q.pc # "fill", UNCHANGED <<now, slot, reset, carried, crossed>>,
         writer' \in [Keys -> Requests \union {None}],
         req'[r] = q => RequestInv(r)',
         req'[r] = q /\ (\A k \in Keys : Times(k)' \subseteq Times(k)) => Newer(r)'
  PROVE  Inv'
<1>1. TypeOK /\ reset <= now /\ now \in Nat BY Zenon DEF Inv, TypeOK
<1>2. req' \in [Requests -> RequestState] /\ req'[r] = q
      /\ \A i \in Requests : i # r => req'[i] = req[i]
  BY Zenon, <1>1, SetRequest DEF TypeOK
<1>3. Onward BY Zenon, <1>1, OnwardIs
<1>4. ASSUME NEW k \in Keys PROVE Times(k)' \subseteq Times(k)
  <2>1. \A i \in Requests : i \in Fills(k)' => i \in Fills(k) /\ req'[i] = req[i]
    BY Zenon, <1>2 DEF Fills, At
  <2>2. Fills(k)' \subseteq Requests BY Zenon DEF Fills
  <2> QED BY Zenon, <2>1, <2>2 DEF Times
<1>5. ASSUME NEW i \in Requests, i # r PROVE AsBefore(i)
  BY Zenon, <1>2, <1>5 DEF AsBefore, Steady
<1>6. ASSUME NEW k \in Keys PROVE SlotInv(k)' /\ NothingOld(k)
  <2>1. SlotInv(k) BY Zenon DEF Inv
  <2>2. SlotInv(k)' BY Zenon, <1>3, <2>1, SlotKept DEF Steady
  <2> QED BY Zenon, <1>4, <2>2 DEF NothingOld
<1>7. TypeOK' BY Zenon, <1>1, <1>2 DEF TypeOK
<1>8. RequestInv(r)' /\ Newer(r)' BY Zenon, <1>2, <1>4
<1>9. reset' <= now' BY Zenon, <1>1
<1> QED BY Zenon, <1>3, <1>5, <1>6, <1>7, <1>8, <1>9, StepKeeps
-----------------------------------------------------------------------------
(* Lookups.                                                                *)

LEMMA NoRequestIs ==
  /\ NoRequest \in RequestState /\ NoRequest.pc = "idle" /\ NoRequest.meta = None
  /\ NoRequest.key = Primary /\ ~NoRequest.temp
<1>1. Primary \in Keys BY Zenon DEF Keys
<1> QED BY <1>1 DEF NoRequest, RequestState

\* What a lookup finds is a fill or what the slot holds.
LEMMA StoredIs ==
  ASSUME Inv, NEW k \in Keys, NEW s \in Stored(k), s # None
  PROVE  /\ AssetInv(k, s.meta, s.body) /\ s.partial \in BOOLEAN
         /\ ~s.partial => Fills(k) = {} /\ slot[k] = s
<1>1. CASE Fills(k) # {}
  <2>1. PICK i \in Fills(k) : s = FillOf(i) BY Zenon, <1>1 DEF Stored
  <2>2. s.meta = req[i].meta /\ s.body = req[i].body /\ s.partial = TRUE BY <2>1 DEF FillOf
  <2>3. i \in Requests /\ At(i, "fill") /\ req[i].temp /\ req[i].key = k BY Zenon DEF Fills
  <2>4. AssetInv(req[i].key, req[i].meta, req[i].body)
    BY Zenon, <2>3 DEF Inv, RequestInv, Filling
  <2> QED BY Zenon, <2>2, <2>3, <2>4
<1>2. CASE Fills(k) = {}
  <2>1. s = slot[k] BY Zenon, <1>2 DEF Stored
  <2>2. ~s.partial /\ AssetInv(k, s.meta, s.body) BY Zenon, <2>1 DEF Inv, SlotInv
  <2>3. s \in Assets BY Zenon, <2>1 DEF Inv, TypeOK
  <2> QED BY Zenon, <1>2, <2>1, <2>2, <2>3 DEF Assets
<1> QED BY Zenon, <1>1, <1>2

LEMMA FoundIs ==
  ASSUME Inv, NEW r \in Requests, NEW s \in Found(r) \ {None}
  PROVE  /\ s \in Stored(req[r].key) /\ s # None
         /\ s.meta.created >= req[r].valid_after
BY Zenon DEF Found

LEMMA EndsKeeps ==
  ASSUME Inv, NEW r \in Requests, req' = [req EXCEPT ![r] = NoRequest],
         UNCHANGED <<now, slot, reset, carried, crossed>>,
         writer' \in [Keys -> Requests \union {None}]
  PROVE  Inv'
<1>1. req'[r] = NoRequest => RequestInv(r)' /\ Newer(r)'
  BY Zenon, NoRequestIs DEF RequestInv, Looking, Refreshing, Filling, Served, Newer, At
<1> QED BY Zenon, <1>1, NoRequestIs, OthersKept

\* What the lookup of a request says of the asset it found.
LEMMA FoundAsset ==
  ASSUME Inv, NEW r \in Requests, At(r, "lookup"), NEW s \in Found(r) \ {None}
  PROVE  /\ req[r] \in RequestState /\ req[r].want \in Values /\ req[r].key \in Keys
         /\ s.meta \in Metas /\ s.body \in Bodies /\ s.partial \in BOOLEAN /\ Named(s.meta)
         /\ s.meta.created < now /\ s.meta.created >= req[r].valid_after
         /\ s.meta.created \in Nat /\ s.meta.provenance \in Nat /\ s.body.at \in Nat
         /\ req[r].valid_after \in Nat /\ reset \in Nat
         /\ req[r].key # Primary => /\ s.meta.variance = req[r].key
                                    /\ ~crossed => s.body.at >= s.meta.created
         /\ req[r].key = Primary /\ ~carried => s.body.at >= reset /\ s.meta.provenance >= reset
         /\ ~s.partial => Fills(req[r].key) = {} /\ slot[req[r].key] = s
<1>1. req[r] \in RequestState /\ req[r].key \in Keys /\ req[r].want \in Values
      /\ req[r].valid_after \in Nat /\ reset \in Nat
  BY Zenon DEF Inv, TypeOK, RequestState, RequestInv, At
<1>2. /\ s \in Stored(req[r].key) /\ s # None /\ s.meta.created >= req[r].valid_after
  BY Zenon, FoundIs
<1>3. /\ AssetInv(req[r].key, s.meta, s.body) /\ s.partial \in BOOLEAN
      /\ ~s.partial => Fills(req[r].key) = {} /\ slot[req[r].key] = s
  BY Zenon, <1>1, <1>2, StoredIs
<1>4. s.meta \in Metas /\ s.body \in Bodies BY Zenon, <1>3 DEF AssetInv, AssetOK
<1>5. s.meta.created \in Nat /\ s.meta.provenance \in Nat /\ s.body.at \in Nat
  BY Zenon, <1>4 DEF Metas, Bodies
<1> QED BY Zenon, <1>1, <1>2, <1>3, <1>4, <1>5 DEF AssetInv, AssetOK

LEMMA StartKeeps == ASSUME Inv, NEW r \in Requests, Start(r) PROVE Inv'
<1>1. PICK w \in Values :
        req' = [req EXCEPT ![r] = [NoRequest EXCEPT !.pc = "lookup", !.want = w, !.late = TRUE]]
  BY Zenon DEF Start
<1> DEFINE q == [NoRequest EXCEPT !.pc = "lookup", !.want = w, !.late = TRUE]
<1>2. q \in RequestState /\ q.pc = "lookup" /\ q.want = w /\ q.key = Primary /\ q.meta = None
  BY Zenon, NoRequestIs DEF RequestState
<1>3. req' = [req EXCEPT ![r] = q] BY Zenon, <1>1
<1> HIDE DEF q
<1>4. req'[r] = q => RequestInv(r)' /\ Newer(r)'
  BY Zenon, <1>2 DEF RequestInv, Looking, Refreshing, Filling, Served, Newer, At
<1>5. writer' \in [Keys -> Requests \union {None}] BY Zenon DEF Start, Inv, TypeOK
<1> QED BY Zenon, <1>2, <1>3, <1>4, <1>5, OthersKept DEF Start

LEMMA LookupMissKeeps == ASSUME Inv, NEW r \in Requests, LookupMiss(r) PROVE Inv'
<1> DEFINE q == [req[r] EXCEPT !.pc = "lock"]
<1>1. At(r, "lookup") /\ req' = [req EXCEPT ![r] = q]
      /\ UNCHANGED <<now, slot, writer, reset, carried, crossed>>
  BY Zenon DEF LookupMiss
<1>2. req[r] \in RequestState /\ RequestInv(r) /\ req[r].want \in Values /\ req[r].meta = None
      /\ writer \in [Keys -> Requests \union {None}]
  BY Zenon, <1>1 DEF Inv, TypeOK, RequestInv, Looking, At
<1>3. /\ q \in RequestState /\ q.pc = "lock" /\ q.want = req[r].want /\ q.key = req[r].key
      /\ q.valid_after = req[r].valid_after /\ q.meta = None /\ q.late = req[r].late
  BY Zenon, <1>2 DEF RequestState
<1> HIDE DEF q
<1>4. req'[r] = q => RequestInv(r)' /\ Newer(r)'
  BY Zenon, <1>1, <1>2, <1>3 DEF RequestInv, Looking, Refreshing, Filling, Served, Newer, At
<1> QED BY Zenon, <1>1, <1>2, <1>3, <1>4, OthersKept

LEMMA VaryLookupKeeps == ASSUME Inv, NEW r \in Requests, VaryLookup(r) PROVE Inv'
<1>1. At(r, "lookup") /\ req[r].key = Primary
      /\ UNCHANGED <<now, slot, writer, reset, carried, crossed>>
  BY Zenon DEF VaryLookup
<1>2. PICK s \in Found(r) \ {None} :
        /\ VaryFilter(s.meta.family, r) # Primary
        /\ req' = [req EXCEPT ![r].key = VaryFilter(s.meta.family, r),
                              ![r].valid_after = s.meta.provenance]
  BY Zenon DEF VaryLookup
<1> DEFINE v == VaryFilter(s.meta.family, r)
           q == [req[r] EXCEPT !.key = v, !.valid_after = s.meta.provenance]
<1>3. req' = [req EXCEPT ![r] = q] BY Zenon, <1>2
<1>4. /\ req[r] \in RequestState /\ req[r].want \in Values /\ s.meta \in Metas
      /\ s.meta.provenance \in Nat /\ (~carried => s.meta.provenance >= reset)
  BY Zenon, <1>1, FoundAsset
<1>5. v \in Keys /\ v # Primary
  BY Zenon, <1>2, <1>4 DEF VaryFilter, Metas, Keys, Variances
<1>6. req[r].meta = None /\ writer \in [Keys -> Requests \union {None}]
  BY Zenon, <1>1 DEF Inv, TypeOK, RequestInv, Looking, At
<1> HIDE DEF v
<1>7. /\ q \in RequestState /\ q.pc = "lookup" /\ q.want = req[r].want
      /\ q.valid_after = s.meta.provenance /\ q.meta = None
  BY Zenon, <1>1, <1>4, <1>5, <1>6 DEF RequestState, At
<1> HIDE DEF q
<1>8. req'[r] = q => RequestInv(r)' /\ Newer(r)'
  BY Zenon, <1>1, <1>4, <1>7 DEF RequestInv, Looking, Refreshing, Filling, Served, Newer, At
<1> QED BY Zenon, <1>1, <1>3, <1>6, <1>7, <1>8, OthersKept

LEMMA ServeKeeps == ASSUME Inv, NEW r \in Requests, Serve(r) PROVE Inv'
<1>1. At(r, "lookup") /\ UNCHANGED <<now, slot, writer, reset, carried, crossed>>
  BY Zenon DEF Serve
<1>2. PICK s \in Found(r) \ {None} :
        req' = [req EXCEPT ![r] =
                  IF Checked(r, s)
                  THEN [NoRequest EXCEPT !.pc = "served", !.want = req[r].want,
                                         !.late = req[r].late, !.meta = s.meta, !.body = s.body]
                  ELSE NoRequest]
  BY Zenon DEF Serve
<1>3. writer' \in [Keys -> Requests \union {None}] BY Zenon, <1>1 DEF Inv, TypeOK
<1>4. CASE Checked(r, s)
  <2> DEFINE q == [NoRequest EXCEPT !.pc = "served", !.want = req[r].want, !.late = req[r].late,
                                    !.meta = s.meta, !.body = s.body]
  <2>1. req' = [req EXCEPT ![r] = q] BY Zenon, <1>2, <1>4
  <2>2. /\ req[r] \in RequestState /\ req[r].want \in Values /\ s.meta \in Metas /\ s.body \in Bodies
        /\ s.meta.created >= req[r].valid_after
        /\ s.meta.created \in Nat /\ s.body.at \in Nat /\ req[r].valid_after \in Nat /\ reset \in Nat
        /\ req[r].key # Primary /\ ~crossed => s.body.at >= s.meta.created
        /\ req[r].key = Primary /\ ~carried => s.body.at >= reset
    BY Zenon, <1>1, FoundAsset
  <2>3. req[r].key # Primary /\ req[r].late /\ ~carried => req[r].valid_after >= reset
    BY Zenon, <1>1 DEF Inv, RequestInv, Looking, At
  <2>4. ASSUME req[r].late, ~carried
        PROVE  s.body.at >= reset \/ (crossed /\ s.body.at < s.meta.created)
    <3>1. CASE req[r].key = Primary BY Zenon, <2>2, <2>4, <3>1
    <3>2. CASE req[r].key # Primary
      <4>1. s.meta.created >= reset BY <2>2, <2>3, <2>4, <3>2
      <4>2. s.body.at >= s.meta.created => s.body.at >= reset BY <2>2, <4>1
      <4>3. s.body.at >= s.meta.created \/ s.body.at < s.meta.created BY <2>2
      <4> QED BY Zenon, <2>2, <3>2, <4>2, <4>3
    <3> QED BY Zenon, <3>1, <3>2
  <2>5. /\ q \in RequestState /\ q.pc = "served" /\ q.want = req[r].want /\ q.meta = s.meta
        /\ q.body = s.body /\ q.late = req[r].late
    BY Zenon, <2>2, NoRequestIs DEF RequestState
  <2> HIDE DEF q
  <2>6. req'[r] = q => RequestInv(r)' /\ Newer(r)'
    BY Zenon, <1>1, <2>2, <2>4, <2>5
       DEF RequestInv, Looking, Refreshing, Filling, Served, Newer, At
  <2> QED BY Zenon, <1>1, <1>3, <2>1, <2>5, <2>6, OthersKept
<1>5. CASE ~Checked(r, s)
  <2>1. req' = [req EXCEPT ![r] = NoRequest] BY Zenon, <1>2, <1>5
  <2> QED BY Zenon, <1>1, <1>3, <2>1, NoRequestIs, EndsKeeps
<1> QED BY Zenon, <1>4, <1>5

LEMMA LookupStaleKeeps == ASSUME Inv, NEW r \in Requests, LookupStale(r) PROVE Inv'
<1>1. At(r, "lookup") /\ UNCHANGED <<now, slot, writer, reset, carried, crossed>>
  BY Zenon DEF LookupStale
<1>2. PICK s \in Found(r) \ {None} :
        req' = [req EXCEPT ![r].pc = "lock", ![r].meta = s.meta, ![r].partial = s.partial,
                           ![r].valid_after = IF req[r].key = Primary /\ s.meta.variance # Primary
                                              THEN s.meta.provenance ELSE @]
  BY Zenon DEF LookupStale
<1>k. PICK k \in Keys : k = req[r].key BY Zenon DEF Inv, TypeOK, RequestState
<1> DEFINE a == IF k = Primary /\ s.meta.variance # Primary THEN s.meta.provenance
                ELSE req[r].valid_after
           q == [req[r] EXCEPT !.pc = "lock", !.meta = s.meta, !.partial = s.partial,
                               !.valid_after = a]
<1>3. req' = [req EXCEPT ![r] = q] BY Zenon, <1>k, <1>2
<1>4. /\ req[r] \in RequestState /\ req[r].want \in Values /\ k \in Keys
      /\ s.meta \in Metas /\ s.partial \in BOOLEAN /\ Named(s.meta) /\ s.meta.created < now
      /\ s.meta.provenance \in Nat /\ req[r].valid_after \in Nat
      /\ k # Primary => s.meta.variance = k /\ (~crossed => s.body.at >= s.meta.created)
      /\ k = Primary /\ ~carried => s.meta.provenance >= reset
      /\ ~s.partial => Fills(k) = {} /\ slot[k] = s
  BY Zenon, <1>k, <1>1, FoundAsset
<1>5. a \in Nat /\ (k # Primary => a = req[r].valid_after) BY Zenon, <1>4
<1>6. /\ k # Primary /\ req[r].late /\ ~carried => req[r].valid_after >= reset
      /\ writer \in [Keys -> Requests \union {None}]
  BY Zenon, <1>k, <1>1 DEF Inv, TypeOK, RequestInv, Looking, At
<1>7. ~s.partial => \A t \in Times(k) : t = s.body.at BY Zenon, <1>4 DEF Times
<1> HIDE DEF a
<1>8. /\ q \in RequestState /\ q.pc = "lock" /\ q.want = req[r].want /\ q.key = k
      /\ q.valid_after = a /\ q.meta = s.meta /\ q.late = req[r].late /\ q.partial = s.partial
  BY Zenon, <1>k, <1>4, <1>5 DEF RequestState
<1> HIDE DEF q
<1>9. req'[r] = q => RequestInv(r)'
  BY Zenon, <1>1, <1>4, <1>5, <1>6, <1>8 DEF RequestInv, Looking, Refreshing, Filling, Served, At
<1>10. ASSUME req'[r] = q, \A j \in Keys : Times(j)' \subseteq Times(j) PROVE Newer(r)'
  <2> SUFFICES ASSUME k # Primary, ~s.partial, ~crossed, NEW t \in Times(k)'
               PROVE  t >= s.meta.created
    <3>1. Times(req[r].key)' = Times(k)' BY Zenon, <1>8, <1>10 DEF Times, Fills, At
    <3> QED BY Zenon, <1>1, <1>8, <1>10, <3>1 DEF Newer
  <2>1. t \in Times(k) BY Zenon, <1>4, <1>10
  <2> QED BY Zenon, <1>4, <1>7, <2>1
<1> QED BY Zenon, <1>1, <1>3, <1>6, <1>8, <1>9, <1>10, OthersKept

LEMMA LockKeeps == ASSUME Inv, NEW r \in Requests, Lock(r) PROVE Inv'
<1>k. PICK k \in Keys : k = req[r].key BY Zenon DEF Inv, TypeOK, RequestState
<1>1. At(r, "lock") /\ UNCHANGED <<now, slot, reset, carried, crossed>> BY Zenon DEF Lock
<1>2. /\ req[r] \in RequestState /\ k \in Keys /\ RequestInv(r) /\ Newer(r) /\ req[r].want \in Values
      /\ writer \in [Keys -> Requests \union {None}]
  BY Zenon, <1>k, <1>1 DEF Inv, TypeOK, RequestState, RequestInv, At
<1>3. CASE Locking /\ writer[k] # None
  <2> DEFINE q == [req[r] EXCEPT !.pc = "wait", !.meta = None, !.partial = FALSE]
  <2>1. req' = [req EXCEPT ![r] = q] /\ writer' = writer BY Zenon, <1>k, <1>3 DEF Lock
  <2>2. /\ q \in RequestState /\ q.pc = "wait" /\ q.want = req[r].want /\ q.key = k
        /\ q.valid_after = req[r].valid_after /\ q.meta = None /\ q.late = req[r].late
    BY Zenon, <1>k, <1>2 DEF RequestState
  <2> HIDE DEF q
  <2>3. req'[r] = q => RequestInv(r)' /\ Newer(r)'
    BY Zenon, <1>k, <1>1, <1>2, <2>2 DEF RequestInv, Looking, Refreshing, Filling, Served, Newer, At
  <2> QED BY Zenon, <1>1, <1>2, <2>1, <2>2, <2>3, OthersKept
<1>4. CASE ~(Locking /\ writer[k] # None)
  <2> DEFINE q == [req[r] EXCEPT !.pc = "fetch", !.valid_after = 0]
  <2>1. req' = [req EXCEPT ![r] = q]
        /\ writer' = IF Locking THEN [writer EXCEPT ![k] = r] ELSE writer
    BY Zenon, <1>k, <1>4 DEF Lock
  <2>2. writer' \in [Keys -> Requests \union {None}] BY Zenon, <1>2, <2>1
  <2>3. /\ q \in RequestState /\ q.pc = "fetch" /\ q.want = req[r].want /\ q.key = k
        /\ q.meta = req[r].meta /\ q.late = req[r].late /\ q.partial = req[r].partial
    <3>1. 0 \in Nat OBVIOUS
    <3> QED BY Zenon, <1>k, <1>2, <3>1 DEF RequestState
  <2> HIDE DEF q
  <2>4. ASSUME req'[r] = q PROVE RequestInv(r)'
    <3>1. Looking(r)' /\ Filling(r)' /\ Served(r)'
      BY Zenon, <2>3, <2>4 DEF Looking, Filling, Served, At
    <3>2. Refreshing(r)'
      BY Zenon, <1>k, <1>1, <1>2, <2>3, <2>4 DEF RequestInv, Refreshing, Named, At
    <3> QED BY Zenon, <1>2, <2>3, <2>4, <3>1, <3>2 DEF RequestInv
  <2>5. ASSUME req'[r] = q, \A j \in Keys : Times(j)' \subseteq Times(j) PROVE Newer(r)'
    <3>1. Times(req[r].key)' = Times(k)' BY Zenon, <2>3, <2>5 DEF Times, Fills, At
    <3>2. Times(req[r].key)' \subseteq Times(req[r].key) BY Zenon, <1>k, <2>5, <3>1
    <3> QED BY Zenon, <1>k, <1>1, <1>2, <2>3, <2>5, <3>2 DEF Newer, At
  <2> QED BY Zenon, <1>1, <2>1, <2>2, <2>3, <2>4, <2>5, OthersKept
<1> QED BY Zenon, <1>3, <1>4

LEMMA WaitEndsKeeps == ASSUME Inv, NEW r \in Requests, WaitEnds(r) PROVE Inv'
<1> DEFINE q == [req[r] EXCEPT !.pc = "lookup"]
<1>1. At(r, "wait") /\ req' = [req EXCEPT ![r] = q]
      /\ UNCHANGED <<now, slot, writer, reset, carried, crossed>>
  BY Zenon DEF WaitEnds
<1>2. req[r] \in RequestState /\ RequestInv(r) /\ req[r].want \in Values /\ req[r].meta = None
      /\ writer \in [Keys -> Requests \union {None}]
  BY Zenon, <1>1 DEF Inv, TypeOK, RequestInv, Looking, At
<1>3. /\ q \in RequestState /\ q.pc = "lookup" /\ q.want = req[r].want /\ q.key = req[r].key
      /\ q.valid_after = req[r].valid_after /\ q.meta = None /\ q.late = req[r].late
  BY Zenon, <1>2 DEF RequestState
<1> HIDE DEF q
<1>4. req'[r] = q => RequestInv(r)' /\ Newer(r)'
  BY Zenon, <1>1, <1>2, <1>3 DEF RequestInv, Looking, Refreshing, Filling, Served, Newer, At
<1> QED BY Zenon, <1>1, <1>2, <1>3, <1>4, OthersKept

LEMMA DoneKeeps == ASSUME Inv, NEW r \in Requests, Done(r) PROVE Inv'
<1>1. writer' \in [Keys -> Requests \union {None}] BY Zenon DEF Done, Inv, TypeOK
<1> QED BY Zenon, <1>1, EndsKeeps DEF Done
-----------------------------------------------------------------------------
(* The response.                                                           *)

LEMMA UnlockedIs ==
  ASSUME Inv, NEW r \in Requests, writer' = Unlocked(r, req[r].key)
  PROVE  writer' \in [Keys -> Requests \union {None}]
BY Zenon DEF Inv, TypeOK, RequestState, Unlocked

LEMMA GivesUpKeeps == ASSUME Inv, NEW r \in Requests, GivesUp(r) PROVE Inv'
<1>1. writer' \in [Keys -> Requests \union {None}] BY Zenon, UnlockedIs DEF GivesUp
<1> QED BY Zenon, <1>1, EndsKeeps DEF GivesUp

\* The requests after one of them ended.
LEMMA EndsIs ==
  ASSUME Inv, NEW r \in Requests, NEW starts \in BOOLEAN, req' = Ends(r, starts)
  PROVE  /\ req' \in [Requests -> RequestState] /\ RequestInv(r)' /\ Newer(r)'
         /\ req'[r] = NoRequest
         /\ \A i \in Requests : i # r =>
              /\ (req'[i].late => ~starts /\ Steady) /\ (i \in Fills(Primary) => Steady)
                   => AsBefore(i)
              /\ req'[i].pc = req[i].pc /\ req'[i].key = req[i].key /\ req'[i].body = req[i].body
              /\ req'[i].temp = req[i].temp /\ (req'[i].late => req[i].late /\ ~starts)
         /\ \A k \in Keys : Fills(k)' = Fills(k) \ {r}
<1>1. req \in [Requests -> RequestState] BY Zenon DEF Inv, TypeOK
<1>2. req'[r] = NoRequest BY Zenon DEF Ends
<1>3. RequestInv(r)' /\ Newer(r)'
  BY Zenon, <1>2, NoRequestIs DEF RequestInv, Looking, Refreshing, Filling, Served, Newer, At
<1>4. ASSUME NEW i \in Requests, i # r
      PROVE  /\ req'[i] \in RequestState
             /\ (req'[i].late => ~starts /\ Steady) /\ (i \in Fills(Primary) => Steady)
                  => AsBefore(i)
             /\ req'[i].pc = req[i].pc /\ req'[i].key = req[i].key /\ req'[i].body = req[i].body
             /\ req'[i].temp = req[i].temp /\ (req'[i].late => req[i].late /\ ~starts)
  <2> DEFINE q == [req[i] EXCEPT !.late = @ /\ ~starts]
  <2>1. req'[i] = q BY Zenon, <1>4 DEF Ends
  <2>2. req[i] \in RequestState /\ req[i].late \in BOOLEAN BY Zenon, <1>1 DEF RequestState
  <2>3. /\ q \in RequestState /\ q.pc = req[i].pc /\ q.want = req[i].want /\ q.key = req[i].key
        /\ q.valid_after = req[i].valid_after /\ q.meta = req[i].meta /\ q.body = req[i].body
        /\ q.partial = req[i].partial /\ q.temp = req[i].temp /\ q.same = req[i].same
        /\ q.late = (req[i].late /\ ~starts)
    BY Zenon, <2>2 DEF RequestState
  <2> HIDE DEF q
  <2> QED BY Zenon, <2>1, <2>3 DEF AsBefore
<1>5. req' \in [Requests -> RequestState]
  <2>1. \A i \in Requests : req'[i] \in RequestState BY Zenon, <1>2, <1>4, NoRequestIs
  <2>2. req' = [i \in Requests |-> req'[i]] BY Zenon DEF Ends
  <2> QED BY Zenon, <2>1, <2>2
<1>6. ASSUME NEW k \in Keys PROVE Fills(k)' = Fills(k) \ {r}
  BY Zenon, <1>2, <1>4, NoRequestIs DEF Fills, At
<1> QED BY Zenon, <1>2, <1>3, <1>4, <1>5, <1>6

LEMMA FinishPanicsKeeps == ASSUME Inv, NEW r \in Requests, FinishPanics(r) PROVE Inv'
<1>1. req' = Ends(r, FALSE) /\ UNCHANGED <<now, slot, writer, reset, carried, crossed>>
  BY Zenon DEF FinishPanics
<1>2. TypeOK /\ now \in Nat /\ reset <= now BY Zenon DEF Inv, TypeOK
<1>3. Onward /\ Steady BY Zenon, <1>1, <1>2, OnwardIs DEF Steady
<1>4. /\ req' \in [Requests -> RequestState] /\ RequestInv(r)' /\ Newer(r)'
      /\ \A i \in Requests : i # r => AsBefore(i) /\ req'[i].body = req[i].body
      /\ \A k \in Keys : Fills(k)' = Fills(k) \ {r}
  BY Zenon, <1>1, <1>3, EndsIs
<1>5. ASSUME NEW k \in Keys PROVE SlotInv(k)' /\ NothingOld(k)
  <2>1. SlotInv(k)' BY Zenon, <1>1, <1>3, SlotKept DEF Inv
  <2>2. Fills(k)' = Fills(k) \ {r} /\ Fills(k) \subseteq Requests BY Zenon, <1>4 DEF Fills
  <2> QED BY Zenon, <1>1, <1>4, <2>1, <2>2 DEF NothingOld, Times
<1>6. TypeOK' BY Zenon, <1>1, <1>2, <1>4 DEF TypeOK
<1>7. reset' <= now' BY Zenon, <1>1, <1>2
<1> QED BY Zenon, <1>3, <1>4, <1>5, <1>6, <1>7, StepKeeps

\* Equal variances are of one family.
LEMMA OneFamily ==
  ASSUME NEW m, NEW n, Named(m), Named(n), m.variance = n.variance
  PROVE  m.family = n.family
BY DEF Named, Primary

\* The metadata of a response: its provenance is inherited only by a refresh of
\* the same variant in the slot where that was found.
LEMMA UpdateVarianceIs ==
  ASSUME Inv, NEW r \in Requests, At(r, "fetch"), NEW family \in Families \union {None}
  PROVE  LET u == UpdateVariance(r, SetCacheMeta(r, family)) IN
         /\ u.meta \in Metas /\ u.key \in Keys /\ Named(u.meta)
         /\ u.meta.created = now /\ u.meta.family = family
         /\ u.key # Primary => u.key = u.meta.variance
         /\ u.meta.provenance # now =>
              /\ req[r].meta # None /\ u.meta.provenance = req[r].meta.provenance
              /\ u.key = req[r].key /\ u.meta.variance = req[r].meta.variance
<1> DEFINE u == UpdateVariance(r, SetCacheMeta(r, family))
           q == req[r]
           v == VaryFilter(family, r)
           old == IF q.key # Primary THEN q.key ELSE q.meta.variance
           renewed == q.meta # None /\ old # v
           p == IF renewed THEN now ELSE IF q.meta # None THEN q.meta.provenance ELSE now
<1>1. TypeOK /\ RequestInv(r) BY Zenon DEF Inv
<1>2. now \in Nat /\ q \in RequestState /\ q.key \in Keys /\ q.want \in Values
  BY Zenon, <1>1 DEF TypeOK, RequestState, RequestInv, At
<1>3. v \in Keys /\ (IF family = None THEN v = Primary ELSE v = <<family, q.want>>)
  BY Zenon, <1>2 DEF VaryFilter, Keys, Variances
<1>4. q.meta # None => /\ q.meta.provenance \in Nat
                       /\ q.key # Primary => q.meta.variance = q.key
  BY Zenon, <1>1, <1>2 DEF RequestInv, RequestState, Refreshing, Metas, At
<1>5. p \in Nat BY Zenon, <1>2, <1>4
<1>6. /\ u.meta.created = now /\ u.meta.family = family /\ u.meta.variance = v
      /\ u.meta.provenance = p
      /\ u.meta \in Metas /\ u.key = IF q.key # Primary /\ q.key # v THEN Primary ELSE q.key
  <2> DEFINE p0 == IF q.meta # None THEN q.meta.provenance ELSE now
             m == [created |-> now, family |-> family, variance |-> Primary, provenance |-> p0]
             n == [m EXCEPT !.variance = v, !.provenance = IF renewed THEN m.created ELSE @]
  <2>1. SetCacheMeta(r, family) = m BY Zenon DEF SetCacheMeta
  <2>2. m.family = family BY Zenon
  <2>3. u = [meta |-> n, key |-> IF q.key # Primary /\ q.key # v THEN Primary ELSE q.key]
    BY Zenon, <2>1, <2>2 DEF UpdateVariance
  <2>4. p = (IF renewed THEN now ELSE p0) /\ p0 \in Nat /\ Primary \in Keys
    BY Zenon, <1>2, <1>4 DEF Keys
  <2>5. n.created = now /\ n.family = family /\ n.variance = v /\ n.provenance = p /\ n \in Metas
    <3> HIDE DEF v, renewed, p0, p
    <3>1. m \in Metas /\ m.created = now /\ m.family = family /\ m.provenance = p0
      BY Zenon, <1>2, <2>4 DEF Metas
    <3> HIDE DEF m
    <3> QED BY Zenon, <1>2, <1>3, <2>4, <3>1 DEF Metas
  <2> HIDE DEF n
  <2> QED BY <2>3, <2>5
<1>7. p # now => q.meta # None /\ p = q.meta.provenance /\ old = v BY Zenon
<1>8. old = v /\ q.key # Primary => q.key = v BY Zenon
<1>9. old = v /\ q.key = Primary => q.meta.variance = v BY Zenon
<1> HIDE DEF u, v, p, old
<1>10. Named(u.meta) BY Zenon, <1>2, <1>3, <1>6 DEF Named
<1>11. u.key \in Keys BY Zenon, <1>2, <1>6 DEF Keys
<1>12. u.key # Primary => u.key = v BY Zenon, <1>6
<1>13. p # now => /\ q.meta # None /\ p = q.meta.provenance
                  /\ u.key = q.key /\ v = q.meta.variance
  BY Zenon, <1>4, <1>6, <1>7, <1>8, <1>9
<1>14. /\ u.meta \in Metas /\ u.key \in Keys /\ Named(u.meta)
       /\ u.meta.created = now /\ u.meta.family = family
       /\ u.key # Primary => u.key = u.meta.variance
       /\ u.meta.provenance # now =>
            /\ q.meta # None /\ u.meta.provenance = q.meta.provenance
            /\ u.key = q.key /\ u.meta.variance = q.meta.variance
  BY Zenon, <1>6, <1>10, <1>11, <1>12, <1>13
<1> QED BY Zenon, <1>14 DEF u

LEMMA HeaderKeeps == ASSUME Inv, NEW r \in Requests, Header(r) PROVE Inv'
<1>1. /\ At(r, "fetch") /\ now' = now + 1 /\ writer' = Unlocked(r, req[r].key)
      /\ UNCHANGED <<slot, reset, crossed>>
  BY Zenon DEF Header
<1>2. /\ TypeOK /\ reset <= now /\ RequestInv(r) /\ req \in [Requests -> RequestState]
      /\ req[r] \in RequestState /\ now \in Nat /\ reset \in Nat /\ carried \in BOOLEAN
  BY Zenon DEF Inv, TypeOK
<1>3. PICK family \in Families \union {None} :
        LET u == UpdateVariance(r, SetCacheMeta(r, family))
        IN  /\ req' = [req EXCEPT ![r].pc = "fill", ![r].meta = u.meta, ![r].key = u.key,
                                  ![r].body = [variance |-> u.meta.variance, at |-> now],
                                  ![r].partial = FALSE, ![r].temp = TRUE,
                                  ![r].same = SameFamily(r, family)]
            /\ carried' = Carries(r, u.key)
  BY Zenon DEF Header
<1> DEFINE u == UpdateVariance(r, SetCacheMeta(r, family))
           b == [variance |-> u.meta.variance, at |-> now]
           same == SameFamily(r, family)
           q == [req[r] EXCEPT !.pc = "fill", !.meta = u.meta, !.key = u.key, !.body = b,
                               !.partial = FALSE, !.temp = TRUE, !.same = same]
<1>4. req' = [req EXCEPT ![r] = q] /\ carried' = Carries(r, u.key) BY Zenon, <1>3
<1>5. /\ u.meta \in Metas /\ u.key \in Keys /\ Named(u.meta)
      /\ u.meta.created = now /\ u.meta.family = family
      /\ u.key # Primary => u.key = u.meta.variance
      /\ u.meta.provenance # now =>
           /\ req[r].meta # None /\ u.meta.provenance = req[r].meta.provenance
           /\ u.key = req[r].key /\ u.meta.variance = req[r].meta.variance
  BY Zenon, <1>1, UpdateVarianceIs
<1>6. req[r].want \in Values /\ Refreshing(r) BY Zenon, <1>1, <1>2 DEF RequestInv, At
<1>7. b \in Bodies /\ b.at = now BY Zenon, <1>2, <1>5 DEF Bodies, Metas
<1>8. same \in BOOLEAN /\ (same <=> req[r].meta # None /\ req[r].meta.family = family)
  BY Zenon DEF SameFamily
<1> HIDE DEF u, b, same
<1>9. /\ q.pc = "fill" /\ q.meta = u.meta /\ q.key = u.key /\ q.body = b /\ q.same = same
      /\ q.want = req[r].want /\ q.late = req[r].late /\ q \in RequestState
  BY Zenon, <1>2, <1>5, <1>7, <1>8 DEF RequestState
<1> HIDE DEF q
<1>10. req' \in [Requests -> RequestState] /\ req'[r] = q
       /\ \A i \in Requests : i # r => req'[i] = req[i]
  BY Zenon, <1>2, <1>4, <1>9, SetRequest
<1>11. u.meta.provenance # now =>
         /\ same
         /\ u.key = Primary /\ req[r].late /\ ~carried => u.meta.provenance >= reset
  <2> SUFFICES ASSUME u.meta.provenance # now
               PROVE  /\ same
                      /\ u.key = Primary /\ req[r].late /\ ~carried => u.meta.provenance >= reset
    BY Zenon
  <2>1. Named(req[r].meta) /\ req[r].meta # None BY Zenon, <1>1, <1>5, <1>6 DEF Refreshing, At
  <2>2. u.meta.family = req[r].meta.family BY Zenon, <1>5, <2>1, OneFamily
  <2> QED BY Zenon, <1>1, <1>5, <1>6, <1>8, <2>1, <2>2 DEF Refreshing, At
<1>12. now < now' /\ now <= now' /\ now' \in Nat /\ now >= now /\ now >= reset /\ reset <= now'
  <2>1. now' = now + 1 /\ now \in Nat /\ reset \in Nat /\ reset <= now BY Zenon, <1>1, <1>2
  <2> QED BY <2>1
<1>13. carried' = (carried \/ (u.key = Primary /\ ~req[r].late)) BY Zenon, <1>4 DEF Carries
<1>14. AssetOK(u.key, u.meta, b, now', reset', carried', crossed')
  BY Zenon, <1>1, <1>2, <1>5, <1>7, <1>11, <1>12, <1>13 DEF AssetOK
<1>15. RequestInv(r)' /\ Newer(r)'
  <2>1. Filling(r)'
    <3>1. ~same => u.meta.provenance = u.meta.created BY Zenon, <1>5, <1>11
    <3> QED BY Zenon, <1>5, <1>7, <1>9, <1>10, <1>12, <1>14, <3>1 DEF Filling, AssetInv, Named
  <2> QED BY Zenon, <1>6, <1>9, <1>10, <2>1
         DEF RequestInv, Looking, Refreshing, Served, Newer, At
<1>16. Onward /\ Steady BY Zenon, <1>1, <1>2, <1>12, <1>13 DEF Onward, Steady
<1>17. ASSUME NEW i \in Requests, i # r PROVE AsBefore(i)
  BY Zenon, <1>10, <1>16, <1>17 DEF AsBefore
<1>18. ASSUME NEW k \in Keys PROVE SlotInv(k)' /\ NothingOld(k)
  <2>1. SlotInv(k)' BY Zenon, <1>1, <1>16, SlotKept DEF Inv
  <2>2. ASSUME NEW i \in Fills(k)' PROVE req'[i].body.at \in Times(k) \union {now}
    <3>1. i \in Requests BY Zenon, <2>2 DEF Fills
    <3>2. CASE i = r BY Zenon, <1>7, <1>9, <1>10, <3>2
    <3>3. CASE i # r
      <4>1. i \in Fills(k) /\ req'[i] = req[i] BY Zenon, <1>10, <2>2, <3>1, <3>3 DEF Fills, At
      <4> QED BY Zenon, <4>1 DEF Times
    <3> QED BY Zenon, <3>2, <3>3
  <2>3. NothingOld(k) BY Zenon, <1>1, <2>2 DEF NothingOld, Times
  <2> QED BY Zenon, <2>1, <2>3
<1>19. writer' \in [Keys -> Requests \union {None}] BY Zenon, <1>1, UnlockedIs
<1>20. TypeOK'
  <2>1. carried' \in BOOLEAN BY Zenon, <1>13
  <2> QED BY Zenon, <1>1, <1>2, <1>10, <1>12, <1>19, <2>1 DEF TypeOK
<1>21. reset' <= now' BY Zenon, <1>1, <1>12
<1> QED BY Zenon, <1>15, <1>16, <1>17, <1>18, <1>20, <1>21, StepKeeps

LEMMA FinishKeeps == ASSUME Inv, NEW r \in Requests, Finish(r) PROVE Inv'
<1> DEFINE q == req[r]
           a == [meta |-> q.meta, body |-> q.body, partial |-> FALSE]
<1>k. PICK k \in Keys : k = q.key BY Zenon DEF Inv, TypeOK, RequestState
<1>n. PICK new \in BOOLEAN : new = NewFamily(q.key, q.meta) BY Zenon DEF NewFamily
<1>1. /\ At(r, "fill") /\ q.temp /\ slot' = [slot EXCEPT ![k] = a]
      /\ reset' = (IF new THEN q.meta.created ELSE reset)
      /\ carried' = (IF new THEN ~q.late \/ q.same \/ Fills(Primary) # {r} ELSE carried)
      /\ req' = Ends(r, new) /\ UNCHANGED <<now, writer, crossed>>
  BY Zenon, <1>k, <1>n DEF Finish
<1>2. /\ TypeOK /\ reset <= now /\ now \in Nat /\ reset \in Nat /\ carried \in BOOLEAN
      /\ slot \in [Keys -> Assets \union {None}] /\ q.late \in BOOLEAN /\ q.same \in BOOLEAN
  BY Zenon DEF Inv, TypeOK, RequestState
<1>3. /\ q.meta \in Metas /\ q.body \in Bodies /\ Named(q.meta)
      /\ q.body.at = q.meta.created /\ q.meta.created < now /\ q.meta.created \in Nat
      /\ ~q.same => q.meta.provenance = q.meta.created
      /\ AssetInv(k, q.meta, q.body)
  BY Zenon, <1>k, <1>1 DEF Inv, RequestInv, Filling, Metas
<1>4. new => k = Primary BY Zenon, <1>k, <1>n DEF NewFamily
<1>5. ~new => Steady BY Zenon, <1>1 DEF Steady
<1>6. /\ req' \in [Requests -> RequestState] /\ RequestInv(r)' /\ Newer(r)'
      /\ req'[r] = NoRequest
      /\ \A i \in Requests : i # r =>
           /\ (req'[i].late => ~new /\ Steady) /\ (i \in Fills(Primary) => Steady)
                => AsBefore(i)
           /\ req'[i].pc = req[i].pc /\ req'[i].key = req[i].key /\ req'[i].body = req[i].body
           /\ req'[i].temp = req[i].temp /\ (req'[i].late => req[i].late /\ ~new)
      /\ \A j \in Keys : Fills(j)' = Fills(j) \ {r}
  <2>1. req' = Ends(r, new) BY Zenon, <1>1
  <2> QED BY Zenon, <2>1, EndsIs
<1>7. Onward BY Zenon, <1>1, <1>2, OnwardIs
<1>8. ASSUME NEW i \in Requests, i # r PROVE AsBefore(i)
  <2>1. i \in Fills(Primary) => Steady
    <3>1. i \in Fills(Primary) /\ new => carried' BY Zenon, <1>1, <1>8
    <3> QED BY Zenon, <1>5, <3>1 DEF Steady
  <2> QED BY Zenon, <1>5, <1>6, <1>8, <2>1
<1>9. a \in Assets /\ a.meta = q.meta /\ a.body = q.body /\ ~a.partial
  BY Zenon, <1>3 DEF Assets
<1> HIDE DEF a
<1>10. /\ slot' \in [Keys -> Assets \union {None}] /\ slot'[k] = a
       /\ \A j \in Keys : j # k => slot'[j] = slot[j]
  BY Zenon, <1>1, <1>2, <1>9
<1>11. SlotInv(k)'
  <2>1. AssetOK(k, q.meta, q.body, now', reset', carried', crossed')
    <3>1. CASE ~new BY Zenon, <1>1, <1>3, <3>1 DEF AssetInv, AssetOK
    <3>2. CASE new
      <4>1. ~carried' => q.meta.provenance = q.meta.created BY Zenon, <1>1, <1>2, <1>3, <3>2
      <4>2. q.meta.created >= q.meta.created BY <1>3
      <4>3. reset' = q.meta.created /\ k = Primary BY Zenon, <1>1, <1>4, <3>2
      <4> QED BY Zenon, <1>1, <1>3, <4>1, <4>2, <4>3 DEF AssetOK
    <3> QED BY Zenon, <3>1, <3>2
  <2> QED BY Zenon, <1>9, <1>10, <2>1 DEF SlotInv, AssetInv
<1>12. ASSUME NEW j \in Keys, j # k PROVE SlotInv(j)'
  <2>1. SlotInv(j) /\ slot'[j] = slot[j] BY Zenon, <1>10, <1>12 DEF Inv
  <2>2. j = Primary => Steady BY Zenon, <1>4, <1>5, <1>12
  <2> QED BY Zenon, <1>7, <2>1, <2>2, SlotKept
<1>13. ASSUME NEW j \in Keys PROVE NothingOld(j)
  <2>1. Fills(j)' = Fills(j) \ {r} /\ Fills(j) \subseteq Requests BY Zenon, <1>6 DEF Fills
  <2>2. ASSUME NEW i \in Fills(j)' PROVE req'[i].body.at \in Times(j)
    BY Zenon, <1>6, <2>1 DEF Times
  <2>3. slot'[j] # None => slot'[j].body.at \in Times(j)
    <3>1. CASE j = k
      <4>1. r \in Fills(j) BY Zenon, <1>k, <1>1, <3>1 DEF Fills
      <4>2. q.body.at \in Times(j) BY Zenon, <4>1 DEF Times
      <4> QED BY Zenon, <1>9, <1>10, <3>1, <4>2
    <3>2. CASE j # k BY Zenon, <1>10, <3>2 DEF Times
    <3> QED BY Zenon, <3>1, <3>2
  <2> QED BY Zenon, <2>2, <2>3 DEF NothingOld, Times
<1>14. TypeOK'
  <2>1. carried' \in BOOLEAN BY Zenon, <1>1, <1>2
  <2>2. reset' \in Nat BY Zenon, <1>1, <1>2, <1>3
  <2> QED BY Zenon, <1>1, <1>2, <1>6, <1>10, <2>1, <2>2 DEF TypeOK
<1>15. reset' <= now'
  <2>1. q.meta.created <= now BY <1>2, <1>3
  <2> QED BY Zenon, <1>1, <1>2, <2>1
<1>16. \A j \in Keys : SlotInv(j)' /\ NothingOld(j) BY Zenon, <1>11, <1>12, <1>13
<1> QED BY Zenon, <1>6, <1>7, <1>8, <1>14, <1>15, <1>16, StepKeeps

LEMMA NotModifiedKeeps == ASSUME Inv, NEW r \in Requests, NotModified(r) PROVE Inv'
<1> DEFINE q == req[r]
<1>k. PICK k \in Keys : k = q.key BY Zenon DEF Inv, TypeOK, RequestState
<1> DEFINE a == [slot[k] EXCEPT !.meta = q.meta]
<1>1. /\ At(r, "fetch") /\ q.meta # None /\ slot[k] # None /\ slot' = [slot EXCEPT ![k] = a]
      /\ carried' = (carried \/ (k = Primary /\ ~q.late)) /\ crossed' = (crossed \/ q.partial)
      /\ writer' = Unlocked(r, q.key) /\ req' = Ends(r, FALSE) /\ UNCHANGED <<now, reset>>
  BY Zenon, <1>k DEF NotModified, Carries
<1>2. /\ TypeOK /\ reset <= now /\ now \in Nat /\ reset \in Nat /\ carried \in BOOLEAN
      /\ slot \in [Keys -> Assets \union {None}] /\ q.partial \in BOOLEAN /\ q.late \in BOOLEAN
      /\ crossed \in BOOLEAN /\ slot[k] \in Assets /\ q.meta \in Metas
  BY Zenon, <1>1 DEF Inv, TypeOK, RequestState
<1>3. Refreshing(r) /\ Newer(r) /\ SlotInv(k) BY Zenon DEF Inv, RequestInv
<1>4. Onward /\ Steady
  <2>1. Steady BY Zenon, <1>1 DEF Steady
  <2> QED BY Zenon, <1>1, <1>2, <2>1, OnwardIs
<1>5. /\ req' \in [Requests -> RequestState] /\ RequestInv(r)' /\ Newer(r)'
      /\ \A i \in Requests : i # r => AsBefore(i) /\ req'[i].body = req[i].body
      /\ \A j \in Keys : Fills(j)' = Fills(j) \ {r}
  BY Zenon, <1>1, <1>4, EndsIs
<1>6. a \in Assets /\ a.meta = q.meta /\ a.body = slot[k].body /\ a.partial = slot[k].partial
  BY Zenon, <1>2 DEF Assets
<1> HIDE DEF a
<1>7. /\ slot' \in [Keys -> Assets \union {None}] /\ slot'[k] = a
      /\ \A j \in Keys : j # k => slot'[j] = slot[j]
  BY Zenon, <1>1, <1>2, <1>6
<1>8. SlotInv(k)'
  <2>1. AssetInv(k, slot[k].meta, slot[k].body) /\ ~slot[k].partial BY Zenon, <1>1, <1>3 DEF SlotInv
  <2>2. /\ Named(q.meta) /\ q.meta.created < now /\ (k # Primary => q.meta.variance = k)
        /\ k = Primary /\ q.late /\ ~carried => q.meta.provenance >= reset
    BY Zenon, <1>k, <1>1, <1>3 DEF Refreshing, At
  <2>3. k # Primary /\ ~crossed' => slot[k].body.at >= q.meta.created
    <3>1. slot[k].body.at \in Times(k) BY Zenon, <1>1 DEF Times
    <3> QED BY Zenon, <1>k, <1>1, <1>3, <3>1 DEF Newer, At
  <2>4. AssetOK(k, q.meta, slot[k].body, now', reset', carried', crossed')
    BY Zenon, <1>1, <1>2, <2>1, <2>2, <2>3 DEF AssetInv, AssetOK
  <2> QED BY Zenon, <1>6, <1>7, <2>1, <2>4 DEF SlotInv, AssetInv
<1>9. ASSUME NEW j \in Keys, j # k PROVE SlotInv(j)'
  <2>1. SlotInv(j) /\ slot'[j] = slot[j] BY Zenon, <1>7, <1>9 DEF Inv
  <2> QED BY Zenon, <1>4, <2>1, SlotKept
<1>10. ASSUME NEW j \in Keys PROVE NothingOld(j)
  <2>1. Fills(j)' = Fills(j) \ {r} /\ Fills(j) \subseteq Requests BY Zenon, <1>5 DEF Fills
  <2>2. ASSUME NEW i \in Fills(j)' PROVE req'[i].body.at \in Times(j)
    BY Zenon, <1>5, <2>1 DEF Times
  <2>3. slot'[j] # None => slot'[j].body.at \in Times(j)
    <3>1. CASE j = k BY Zenon, <1>1, <1>6, <1>7, <3>1 DEF Times
    <3>2. CASE j # k BY Zenon, <1>7, <3>2 DEF Times
    <3> QED BY Zenon, <3>1, <3>2
  <2> QED BY Zenon, <2>2, <2>3 DEF NothingOld, Times
<1>11. writer' \in [Keys -> Requests \union {None}] BY Zenon, <1>1, UnlockedIs
<1>12. TypeOK'
  <2>1. carried' \in BOOLEAN /\ crossed' \in BOOLEAN BY Zenon, <1>1
  <2> QED BY Zenon, <1>1, <1>2, <1>5, <1>7, <1>11, <2>1 DEF TypeOK
<1>13. reset' <= now' BY Zenon, <1>1, <1>2
<1>14. \A j \in Keys : SlotInv(j)' /\ NothingOld(j) BY Zenon, <1>8, <1>9, <1>10
<1> QED BY Zenon, <1>4, <1>5, <1>12, <1>13, <1>14, StepKeeps

LEMMA PurgeKeeps == ASSUME Inv, Purge PROVE Inv'
<1>1. /\ slot' = [slot EXCEPT ![Primary] = None] /\ reset' = now /\ carried' = FALSE
      /\ req' = [r \in Requests |->
                   [req[r] EXCEPT !.late = FALSE, !.temp = @ /\ r \notin Fills(Primary)]]
      /\ UNCHANGED <<now, writer, crossed>>
  BY Zenon DEF Purge
<1>2. /\ TypeOK /\ now \in Nat /\ slot \in [Keys -> Assets \union {None}] /\ Primary \in Keys
      /\ req \in [Requests -> RequestState]
  BY Zenon DEF Inv, TypeOK, Keys
<1>3. ASSUME NEW i \in Requests PROVE req'[i] \in RequestState /\ AsBefore(i)
  <2>1. PICK t \in BOOLEAN : t = (req[i].temp /\ i \notin Fills(Primary)) BY Zenon
  <2> DEFINE q == [req[i] EXCEPT !.late = FALSE, !.temp = t]
  <2>2. req'[i] = q BY Zenon, <1>1, <2>1
  <2>3. req[i] \in RequestState BY Zenon, <1>2
  <2>4. /\ q \in RequestState /\ q.pc = req[i].pc /\ q.want = req[i].want /\ q.key = req[i].key
        /\ q.valid_after = req[i].valid_after /\ q.meta = req[i].meta /\ q.body = req[i].body
        /\ q.partial = req[i].partial /\ q.same = req[i].same /\ q.late = FALSE /\ q.temp = t
    BY Zenon, <2>3 DEF RequestState
  <2> HIDE DEF q
  <2> QED BY Zenon, <2>1, <2>2, <2>4 DEF AsBefore
<1>4. req' \in [Requests -> RequestState] BY Zenon, <1>1, <1>3
<1>5. /\ slot' \in [Keys -> Assets \union {None}] /\ slot'[Primary] = None
      /\ \A j \in Keys : j # Primary => slot'[j] = slot[j]
  BY Zenon, <1>1, <1>2
<1>6. reset' <= now' /\ reset' \in Nat
  <2>1. now <= now BY <1>2
  <2> QED BY Zenon, <1>1, <1>2, <2>1
<1>7. Onward BY Zenon, <1>1, <1>2, OnwardIs
<1>8. ASSUME NEW k \in Keys PROVE SlotInv(k)' /\ NothingOld(k)
  <2>1. SlotInv(k)'
    <3>1. CASE k = Primary BY Zenon, <1>5, <3>1 DEF SlotInv
    <3>2. CASE k # Primary BY Zenon, <1>5, <1>7, <3>2, SlotKept DEF Inv
    <3> QED BY Zenon, <3>1, <3>2
  <2>2. ASSUME NEW i \in Fills(k)' PROVE req'[i].body.at \in Times(k)
    <3>1. i \in Requests BY Zenon, <2>2 DEF Fills
    <3>2. i \in Fills(k) /\ req'[i].body = req[i].body BY Zenon, <1>3, <2>2, <3>1 DEF AsBefore, Fills, At
    <3> QED BY Zenon, <3>2 DEF Times
  <2>3. slot'[k] # None => slot'[k].body.at \in Times(k) BY Zenon, <1>5 DEF Times
  <2>4. NothingOld(k) BY Zenon, <2>2, <2>3 DEF NothingOld, Times
  <2> QED BY Zenon, <2>1, <2>4
<1>9. TypeOK' BY Zenon, <1>1, <1>2, <1>4, <1>5, <1>6 DEF TypeOK
<1> QED BY Zenon, <1>3, <1>6, <1>7, <1>8, <1>9, StepKeeps
-----------------------------------------------------------------------------
LEMMA InitInv == Init => Inv
<1> SUFFICES ASSUME Init PROVE Inv BY Zenon
<1>1. TypeOK /\ reset <= now
  <2>1. now \in Nat /\ reset \in Nat /\ reset <= now BY DEF Init
  <2>2. carried \in BOOLEAN /\ crossed \in BOOLEAN BY Zenon DEF Init
  <2>3. /\ slot \in [Keys -> Assets \union {None}] /\ writer \in [Keys -> Requests \union {None}]
        /\ req \in [Requests -> RequestState]
    BY Zenon, NoRequestIs DEF Init
  <2> QED BY Zenon, <2>1, <2>2, <2>3 DEF TypeOK
<1>2. ASSUME NEW k \in Keys PROVE SlotInv(k) BY Zenon DEF Init, SlotInv
<1>3. ASSUME NEW r \in Requests PROVE RequestInv(r) /\ Newer(r)
  <2>1. req[r].pc = "idle" BY Zenon, NoRequestIs DEF Init
  <2> QED BY Zenon, <2>1 DEF RequestInv, Looking, Refreshing, Filling, Served, Newer, At
<1> QED BY Zenon, <1>1, <1>2, <1>3 DEF Inv

LEMMA StutterKeeps == ASSUME Inv, UNCHANGED vars PROVE Inv'
<1>1. UNCHANGED <<now, slot, writer, req, reset, carried, crossed>> BY Zenon DEF vars
<1>2. TypeOK /\ now \in Nat /\ reset <= now BY Zenon DEF Inv, TypeOK
<1>3. Onward BY Zenon, <1>1, <1>2, OnwardIs
<1>4. Steady BY Zenon, <1>1 DEF Steady
<1>5. \A i \in Requests : AsBefore(i) BY Zenon, <1>1, <1>4 DEF AsBefore
<1>6. ASSUME NEW k \in Keys PROVE SlotInv(k)' /\ NothingOld(k)
  <2>1. SlotInv(k)' BY Zenon, <1>1, <1>3, <1>4, SlotKept DEF Inv
  <2>2. Times(k)' = Times(k) BY Zenon, <1>1 DEF Times, Fills, At
  <2> QED BY Zenon, <2>1, <2>2 DEF NothingOld
<1>7. TypeOK' /\ reset' <= now' BY Zenon, <1>1, <1>2 DEF TypeOK
<1> QED BY Zenon, <1>3, <1>5, <1>6, <1>7, StepKeeps

LEMMA NextKeeps == ASSUME Inv, [Next]_vars PROVE Inv'
<1>1. ASSUME NEW r \in Requests, RequestStep(r) PROVE Inv'
  BY Zenon, <1>1, StartKeeps, LookupMissKeeps, VaryLookupKeeps, ServeKeeps, LookupStaleKeeps,
     LockKeeps, WaitEndsKeeps, HeaderKeeps, FinishKeeps, FinishPanicsKeeps, NotModifiedKeeps,
     GivesUpKeeps, DoneKeeps DEF RequestStep
<1>2. CASE Purge BY Zenon, <1>2, PurgeKeeps
<1>3. CASE UNCHANGED vars BY Zenon, <1>3, StutterKeeps
<1> QED BY Zenon, <1>1, <1>2, <1>3 DEF Next

LEMMA Inductive == Spec => []Inv
BY InitInv, NextKeeps, PTL DEF Spec

\* update_variance(), the provenance time and the "Adhoc double check" of
\* cache_vary_lookup(), with and without the cache lock: a variant's slot and its
\* fills hold that variant, and after a purge or a change of Vary no request that
\* starts later is served a body fetched before, but for the documented race of
\* an older refresh or fill and the 304 that was received for a fill.
THEOREM VariantsStayApart == Spec => []VariantsApart
<1>1. ASSUME Inv PROVE VariantsApart
  <2>1. TombstoneHolds BY Zenon, <1>1 DEF Inv, RequestInv, Served, TombstoneHolds
  <2>2. ASSUME NEW v \in Variances, NEW s \in Stored(v) \ {None} PROVE s.meta.variance = v
    <3>1. v \in Keys /\ v # Primary BY DEF Keys, Variances, Primary
    <3>2. AssetInv(v, s.meta, s.body) BY Zenon, <1>1, <3>1, StoredIs
    <3> QED BY Zenon, <3>1, <3>2 DEF AssetInv, AssetOK
  <2> QED BY Zenon, <2>1, <2>2 DEF VariantsApart, SlotMatchesKey
<1> QED BY <1>1, Inductive, PTL
=============================================================================
