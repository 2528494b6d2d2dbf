----------------------------- MODULE Freshness -----------------------------
(***************************************************************************)
(* How long a cached response may be used: the Cache-Control directives    *)
(* (pingora-cache/src/cache_control.rs), the cacheability decision         *)
(* (filters.rs), the stored CacheMeta with its serve-stale windows         *)
(* (meta.rs), the hit filter's verdicts, and what admission, replacement   *)
(* and revalidation make of the header (lib.rs, proxy_cache.rs).           *)
(*                                                                         *)
(* One asset lives through admissions, 200 and 304 answers, expiry in      *)
(* storage, and reads at any later second.  A directive is a record; its   *)
(* value is absent, a number, a fraction, a list of field names or         *)
(* something that does not parse.                                          *)
(***************************************************************************)
EXTENDS Integers, Sequences, SequencesExt, FiniteSets

CONSTANTS Answers,        \* full responses of the origin: header records
          Updates,        \* 304 responses of the origin: header records
          Defaults,       \* CacheMetaDefaults: [ttl, swr, sie]
          U32Max,         \* u32::MAX
          DELTA_SECONDS_OVERFLOW_VALUE,
          MaxTime,        \* bound on the clock
          None            \* no asset, no time

\* What the constants are taken to be.
ConstantsOK ==
    /\ DELTA_SECONDS_OVERFLOW_VALUE \in 1 .. U32Max
    /\ MaxTime \in Nat

VARIABLES now,            \* SystemTime::now(), in seconds
          asset,          \* the stored CacheMeta, or None
          last,           \* what a read of the asset has just decided
          rule,           \* history: the header in force and the times it gave
          expired,        \* history: when the asset was first expired in storage
          gone            \* when the application took the asset out of service

vars == <<now, asset, last, rule, expired, gone>>

Value(kind, n, fields) == [kind |-> kind, n |-> n, fields |-> fields]
Flag == Value("none", 0, {})
Num(n) == Value("num", n, {})
Fraction(n) == Value("float", n, {})
Bad == Value("bad", 0, {})
List(fields) == Value("list", 0, fields)

-----------------------------------------------------------------------------
(* Cache-Control.  A header's directives are kept in a map, so a later one *)
(* replaces an earlier one of the same name.                               *)

\* CacheControl::from_headers: no header, no CacheControl
FromHeaders(h) ==
    LET Names == {h.cc[i].name : i \in DOMAIN h.cc}
        LastOf(k) == CHOOSE i \in DOMAIN h.cc :
                        /\ h.cc[i].name = k
                        /\ \A j \in DOMAIN h.cc : h.cc[j].name = k => j <= i
    IN  [k \in Names |-> h.cc[LastOf(k)].value]

Has(cc, k) == k \in DOMAIN cc

\* has_key_without_value(): the directive in its boolean form
HasWithoutValue(cc, k) == Has(cc, k) /\ cc[k].kind = "none"

\* DirectiveValue::parse_as_delta_seconds(): u32, a positive overflow is capped
ParseDelta(v) ==
    IF v.kind = "num"
    THEN [ok |-> TRUE,
          n |-> IF v.n <= U32Max THEN v.n ELSE DELTA_SECONDS_OVERFLOW_VALUE]
    ELSE [ok |-> FALSE, n |-> 0]

\* parse_as_delta_seconds_floor(): a fraction is rounded down, and capped
ParseDeltaFloor(v) ==
    IF v.kind = "float"
    THEN [ok |-> TRUE,
          n |-> IF v.n >= DELTA_SECONDS_OVERFLOW_VALUE
                THEN DELTA_SECONDS_OVERFLOW_VALUE ELSE v.n]
    ELSE ParseDelta(v)

\* parse_delta_seconds(): an error, nothing, or seconds
Seconds(h, cc, k) ==
    IF Has(cc, k) /\ cc[k].kind # "none"
    THEN LET p == IF h.float THEN ParseDeltaFloor(cc[k]) ELSE ParseDelta(cc[k])
         IN  [is |-> IF p.ok THEN "some" ELSE "error", n |-> p.n]
    ELSE [is |-> "none", n |-> 0]

\* is_cacheable() = No
NotCacheable(cc) == Has(cc, "no-store") \/ HasWithoutValue(cc, "private")

AllowCachingAuthorizedReq(cc) ==
    \E k \in {"must-revalidate", "public", "s-maxage"} : Has(cc, k)

\* fresh_duration(): no-cache is always stale; s-maxage before max-age; an
\* s-maxage that does not parse hides max-age
FreshDuration(h, cc) ==
    LET s == Seconds(h, cc, "s-maxage")
        m == Seconds(h, cc, "max-age")
    IN  CASE HasWithoutValue(cc, "no-cache") -> 0
          [] s.is = "some" -> s.n
          [] s.is = "none" /\ m.is = "some" -> m.n
          [] OTHER -> None

\* serve_stale_while_revalidate_duration(), serve_stale_if_error_duration()
StaleDuration(h, cc, k) ==
    LET d == Seconds(h, cc, k)
    IN  CASE \E f \in {"must-revalidate", "proxy-revalidate", "s-maxage"} :
                 Has(cc, f) -> 0
          [] d.is = "some" -> d.n
          [] OTHER -> None

\* strip_private_headers(): fields named by private= or no-cache=
StripPrivateHeaders(h, cc) ==
    LET Listed(k) == IF Has(cc, k) /\ cc[k].kind # "none" THEN cc[k].fields ELSE {}
    IN  [h EXCEPT !.fields = @ \ (Listed("private") \union Listed("no-cache"))]

-----------------------------------------------------------------------------
(* filters.rs: when a response may be stored, and until when it is fresh.  *)

\* freshness_ttl_to_time(): a zero ttl is in the past already
FreshnessTtlToTime(ttl) == IF ttl = 0 THEN now - 1 ELSE now + ttl

\* calculate_expires_header_time(): one header only; a bad date is the epoch
CalculateExpiresHeaderTime(h) ==
    CASE Len(h.expires) # 1 -> None
      [] h.expires[1].kind = "num" -> h.expires[1].n
      [] OTHER -> 0

CalculateFreshUntil(h, auth) ==
    LET cc == FromHeaders(h)
        ttl == IF h.cc = <<>> THEN None ELSE FreshDuration(h, cc)
    IN  CASE auth /\ ~AllowCachingAuthorizedReq(cc) -> None
          [] NotCacheable(cc) -> None
          [] ttl # None -> FreshnessTtlToTime(ttl)
          [] CalculateExpiresHeaderTime(h) # None -> CalculateExpiresHeaderTime(h)
          [] Defaults.ttl[h.status] # None -> FreshnessTtlToTime(Defaults.ttl[h.status])
          [] OTHER -> None

CalculateServeStaleDurations(h) ==
    LET cc == FromHeaders(h)
        Or(k, d) == IF StaleDuration(h, cc, k) = None THEN d ELSE StaleDuration(h, cc, k)
    IN  [swr |-> Or("stale-while-revalidate", Defaults.swr),
         sie |-> Or("stale-if-error", Defaults.sie)]

\* resp_cacheable() with CacheMeta::new(): the metadata, or None
RespCacheable(h, auth) ==
    LET until == CalculateFreshUntil(h, auth)
        stale == CalculateServeStaleDurations(h)
    IN  IF until = None
        THEN None
        ELSE [fresh_until |-> until, swr |-> stale.swr, sie |-> stale.sie,
              header |-> StripPrivateHeaders(h, FromHeaders(h))]

-----------------------------------------------------------------------------
(* meta.rs: the stored metadata.                                           *)

IsFresh(m, t) == m.fresh_until >= t

CanServeStale(m, sec, t) == sec # 0 /\ m.fresh_until + sec >= t

DisableServeStale(m) == [m EXCEPT !.swr = 0, !.sie = 0]

\* Mutant: an asset that has expired is given a later end.
ExpireAt_Restarts(m, instant) == [m EXCEPT !.fresh_until = instant]

ExpireAt(m, instant) ==
    [m EXCEPT !.fresh_until = IF @ <= instant THEN @ ELSE instant]

-----------------------------------------------------------------------------
(* lib.rs and proxy_cache.rs: the asset's life.                            *)

NoRead == [as |-> "none", forced |-> "no"]
NoRule == [header |-> None, until |-> 0, swr |-> 0, sie |-> 0]

Init ==
    /\ now = 0
    /\ asset = None
    /\ last = NoRead
    /\ rule = NoRule
    /\ expired = MaxTime
    /\ gone = MaxTime

\* time passes; only a request to the origin outlasts the second it began in
Tick ==
    /\ now < MaxTime
    /\ now' = now + 1
    /\ last' = IF last.as \in {"miss", "revalidate"} THEN [last EXCEPT !.forced = "no"]
               ELSE NoRead
    /\ UNCHANGED <<asset, rule, expired, gone>>

Stored(m, h) ==
    /\ asset' = m
    /\ rule' = [header |-> h, until |-> m.fresh_until, swr |-> m.swr, sie |-> m.sie]
    /\ expired' = MaxTime
    /\ gone' = MaxTime
    /\ last' = NoRead
    /\ UNCHANGED now

\* set_cache_meta() in phase Miss: the first fill, or one after a forced miss
Admit(h, auth) ==
    LET m == RespCacheable(h, auth)
    IN  /\ asset = None \/ last.as = "miss"
        /\ m # None
        /\ Stored(m, h)

\* set_cache_meta() in phase Stale: a new response for a stale asset; one that
\* may not be stored leaves the stale asset where it is
Replace(h, auth) ==
    LET m == RespCacheable(h, auth)
    IN  /\ last.as = "revalidate"
        /\ m # None
        /\ Stored(m, h)

\* revalidate_merge_header(): a 304 replaces only the fields it carries
RevalidateMergeHeader(u) ==
    [asset.header EXCEPT !.cc = IF u.cc = <<>> THEN @ ELSE u.cc,
                         !.expires = IF u.expires = <<>> THEN @ ELSE u.expires]

\* revalidate_or_stale() with revalidate_cache_meta(); a merged header that may
\* not be stored leaves the stale asset where it is
NotModified(u, auth) ==
    LET h == RevalidateMergeHeader(u)
        m == RespCacheable(h, auth)
    IN  /\ last.as = "revalidate"
        /\ m # None
        /\ Stored(m,
                  [h EXCEPT !.cc = IF u.cc = <<>> THEN rule.header.cc ELSE u.cc,
                            !.expires = IF u.expires = <<>>
                                        THEN rule.header.expires ELSE u.expires])

\* Storage::expire()
Expire ==
    /\ asset # None
    /\ asset' = ExpireAt(asset, now)
    /\ expired' = IF expired <= now THEN expired ELSE now
    /\ UNCHANGED <<now, last, rule, gone>>

\* the application takes the asset out of service for its hit filter only
TakeOut ==
    /\ asset # None
    /\ gone = MaxTime
    /\ gone' = now
    /\ UNCHANGED <<now, asset, last, rule, expired>>

\* The hit filter's answers: none, or a ForcedFreshness; ForceExpiredServeStale
\* comes with the moment the asset went out of service or without one.  A filter
\* that fails has the effect of ForceMiss.
Forced == {"no", "ForceExpired", "ForceExpiredServeStale", "ForceExpiredServeStale None",
           "ForceMiss", "ForceFresh"}

\* the metadata one read works with, after the hit filter
Filtered(forced) ==
    CASE forced = "ForceExpired" -> DisableServeStale(asset)
      [] forced = "ForceExpiredServeStale" -> ExpireAt(asset, gone)
      [] OTHER -> asset

\* The lookup's verdict: the hit filter, then a hit, a miss, or a stale asset,
\* which is served while it is updated, served because the origin failed, or
\* revalidated.  An application that took the asset out says so in its filter.
Read(forced, originFails) ==
    LET m == Filtered(forced)
        fresh == \/ forced = "ForceFresh"
                 \/ forced = "no" /\ IsFresh(asset, now)
    IN  /\ asset # None
        /\ gone # MaxTime => forced # "no"
        /\ forced = "ForceExpiredServeStale" => gone # MaxTime
        /\ last' = [as |-> CASE forced = "ForceMiss" -> "miss"
                             [] fresh -> "fresh"
                             [] ~fresh /\ CanServeStale(m, m.swr, now) -> "updating"
                             [] OTHER -> IF originFails /\ CanServeStale(m, m.sie, now)
                                         THEN "error" ELSE "revalidate",
                    forced |-> forced]
        /\ UNCHANGED <<now, asset, rule, expired, gone>>

Next ==
    \/ Tick
    \/ \E h \in Answers, auth \in BOOLEAN : Admit(h, auth)
    \/ \E h \in Answers, auth \in BOOLEAN : Replace(h, auth)
    \/ \E u \in Updates, auth \in BOOLEAN : NotModified(u, auth)
    \/ Expire
    \/ TakeOut
    \/ \E forced \in Forced, fails \in BOOLEAN : Read(forced, fails)

Spec == Init /\ [][Next]_vars
-----------------------------------------------------------------------------
(* Properties                                                              *)

\* Values have the shapes the metadata and the read verdicts have.
TypeOK ==
    /\ now \in 0 .. MaxTime
    /\ expired \in 0 .. MaxTime /\ gone \in 0 .. MaxTime
    /\ asset # None => asset.header.status = rule.header.status
    /\ last.as \in {"none", "miss", "fresh", "updating", "error", "revalidate"}

Earlier(a, b) == IF a <= b THEN a ELSE b

\* The end of the asset's service in storage, and as far as a read knows it.
Deadline == Earlier(rule.until, expired)
OutOfService == IF last.forced = "ForceExpiredServeStale" THEN Earlier(Deadline, gone) ELSE Deadline

\* An asset is served as fresh only up to its deadline or the first expiry
\* applied to it in storage, unless the hit filter says otherwise.  A stale one
\* is served only within the window the origin granted, counted from the moment
\* the asset went out of service as the storage or the hit filter knows it,
\* however often the expiry is applied and however late it is first seen
\* (CacheMeta::expire_at, can_serve_stale, Storage::expire).
ServedInTime ==
    /\ last.as = "fresh" /\ last.forced = "no" => now <= Deadline
    /\ last.as = "updating" => now <= OutOfService + rule.swr
    /\ last.as = "error" => now <= OutOfService + rule.sie

\* An asset whose origin forbids stale use (must-revalidate, proxy-revalidate
\* or s-maxage in the Cache-Control that now applies to it, whether it came
\* with the body or with a later 304), or that the hit filter force-expired,
\* is never served stale.
NeverStaleAgainstOrigin ==
    last.as \in {"updating", "error"} =>
        /\ last.forced # "ForceExpired"
        /\ \A i \in DOMAIN rule.header.cc :
              rule.header.cc[i].name \notin {"must-revalidate", "proxy-revalidate", "s-maxage"}

\* An asset is used, fresh or stale, only when the header in force allows it.
UsedAsAllowed == ServedInTime /\ NeverStaleAgainstOrigin

\* "always treated as stale" (fresh_duration, on no-cache): such an asset is
\* used only after the origin confirmed it, or when the origin is failing.
NoCacheRevalidated ==
    last.as = "updating" => ~HasWithoutValue(FromHeaders(rule.header), "no-cache")

\* "The value is capped to DELTA_SECONDS_OVERFLOW_VALUE"
\* (parse_as_delta_seconds).
DeltaCapped ==
    asset # None =>
        /\ asset.swr <= DELTA_SECONDS_OVERFLOW_VALUE
        /\ asset.sie <= DELTA_SECONDS_OVERFLOW_VALUE
=============================================================================
