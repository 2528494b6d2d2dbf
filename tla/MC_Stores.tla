------------------------------ MODULE MC_Stores ------------------------------
(***************************************************************************)
(* Small instances of the components that keep what was cached: the LRU    *)
(* and its lists, and what decides how long a response is used and how     *)
(* much of it.  They do not interact: `part' says which of them runs in a  *)
(* behaviour, and the others stay in an initial state.                     *)
(***************************************************************************)
EXTENDS Integers, Sequences, FiniteSets, TLC

CONSTANT None

VARIABLES part,
          unit, weight, len, shardLens, evictedWeight, evictedLen, weightLimit, th,
          list, call,
          now, asset, last, rule, expired, gone,
          req, resp, filter, reader, out, pc

-----------------------------------------------------------------------------
(* The LRU: every pair of calls of two threads, and the calls that evict   *)
(* afterwards in longer programs.                                          *)
CallOf(op, key, w, evict) ==
    [op |-> op, key |-> key, other |-> key, weight |-> w, max |-> 9, expected |-> 0, top |-> 1,
     access |-> FALSE, evict |-> evict]

E(key, w) == [key |-> key, weight |-> w]

Growing == {CallOf("admit", 0, 3, TRUE), CallOf("admit", 1, 2, TRUE),
            CallOf("increment", 2, 2, TRUE)}

Grows == [calls : {<<<<a, CallOf("increment", 2, 2, TRUE)>>, <<b>>>> : a, b \in Growing},
          load : {<<>>}]

Every ==
    <<CallOf("admit", 0, 3, TRUE), CallOf("admit", 1, 2, TRUE), CallOf("increment", 2, 2, TRUE),
      CallOf("remove", 2, 0, FALSE), CallOf("insert_tail", 2, 2, FALSE),
      CallOf("remove_if", 3, 0, FALSE), CallOf("evict_shard", 0, 0, FALSE),
      CallOf("update_if", 2, 3, FALSE), CallOf("upsert_if", 2, 1, FALSE),
      CallOf("update_or_admit", 2, 3, FALSE), CallOf("select_lru", 0, 0, FALSE),
      CallOf("promote_top_n", 0, 0, FALSE), [CallOf("promote", 3, 1, FALSE) EXCEPT !.access = TRUE],
      CallOf("set_weight", 2, 3, FALSE), [CallOf("set_weight", 3, 1, FALSE) EXCEPT !.expected = 2],
      [CallOf("mutate_pair", 2, 1, FALSE) EXCEPT !.other = 3],
      [CallOf("mutate_pair", 3, 1, FALSE) EXCEPT !.other = 0]>>

Pairs == {<<<<Every[p[1]]>>, <<Every[p[2]]>>>> :
            p \in {q \in (DOMAIN Every) \X (DOMAIN Every) : q[1] <= q[2]}}

\* An entry of weight 0 at the tail, and a lower limit, with what may follow.
Zero == CallOf("insert_tail", 0, 0, FALSE)

Weightless ==
    {<<<<Zero, a>>, <<CallOf("evict_shard", 0, 0, FALSE)>>>> :
       a \in {CallOf("admit", 0, 2, TRUE), CallOf("increment", 0, 0, TRUE),
              CallOf("update_or_admit", 0, 2, FALSE),
              [CallOf("mutate_pair", 0, 2, FALSE) EXCEPT !.other = 3],
              [CallOf("mutate_pair", 3, 2, FALSE) EXCEPT !.other = 0]}}

Lowered == {<<<<CallOf("set_weight_limit", 0, 2, FALSE), CallOf("admit", 0, 1, TRUE)>>,
              <<CallOf("admit", 1, 2, TRUE)>>>>}

Programs == Grows \union [calls : Pairs \union Weightless, load : {<<E(2, 2), E(3, 2)>>}]
                  \union [calls : Lowered, load : {<<E(2, 1), E(3, 1)>>}]

Lru == INSTANCE Lru
         WITH Threads <- {1, 2}, N <- 2, WeightLimit <- 4, Watermark <- 2, NoWatermark <- 99,
              Wrap <- 32, Setups <- Programs

lruVars == <<unit, weight, len, shardLens, evictedWeight, evictedLen, weightLimit, th>>

LinkedList == INSTANCE LinkedList WITH NULL <- 99, Items <- {1, 2}, MaxSlots <- 3

listVars == <<list, call>>
-----------------------------------------------------------------------------
(* Freshness with small numbers: u32 counts to 7, the overflow value is 3. *)
Num(n) == [kind |-> "num", n |-> n, fields |-> {}]
Fraction(n) == [Num(n) EXCEPT !.kind = "float"]
Flag == [Num(0) EXCEPT !.kind = "none"]
Bad == [Num(0) EXCEPT !.kind = "bad"]
List(fields) == [kind |-> "list", n |-> 0, fields |-> fields]
D(name, value) == [name |-> name, value |-> value]

Header(cc, expires) ==
    [status |-> 200, cc |-> cc, expires |-> expires, float |-> TRUE,
     fields |-> {"set-cookie", "etag"}]

CacheControls ==
    {<<>>,
     <<D("max-age", Num(1)), D("stale-while-revalidate", Num(2))>>,
     <<D("s-maxage", Num(2)), D("max-age", Num(1)), D("stale-if-error", Num(1))>>,
     <<D("max-age", Fraction(1)), D("must-revalidate", Flag)>>,
     <<D("no-cache", Flag), D("stale-while-revalidate", Num(1))>>,
     <<D("private", List({"set-cookie"})), D("stale-if-error", Num(6)),
       D("stale-while-revalidate", Num(9)), D("max-age", Num(0))>>,
     <<D("s-maxage", Bad), D("max-age", Num(3))>>,
     <<D("no-store", Flag)>>,
     <<D("private", Flag), D("private", List({"etag"})), D("max-age", Num(5))>>}

Answers ==
    {Header(cc, <<>>) : cc \in CacheControls}
        \union {Header(<<>>, <<Num(2)>>), Header(<<D("s-maxage", Bad)>>, <<Bad>>),
                Header(<<>>, <<Num(1), Num(2)>>),
                [Header(<<>>, <<>>) EXCEPT !.status = 404, !.float = FALSE]}

Updates ==
    {Header(<<>>, <<>>), Header(<<D("max-age", Num(1))>>, <<>>),
     Header(<<D("must-revalidate", Flag)>>, <<Num(3)>>), Header(<<D("no-store", Flag)>>, <<>>)}

Ordinary == [ttl |-> (200 :> 2 @@ 404 :> None), swr |-> 1, sie |-> 2]

Freshness == INSTANCE Freshness
               WITH Defaults <- Ordinary, U32Max <- 7,
                    DELTA_SECONDS_OVERFLOW_VALUE <- 3, MaxTime <- 4

freshVars == <<now, asset, last, rule, expired, gone>>
-----------------------------------------------------------------------------
(* Range requests on bodies of up to five bytes: every header of one or    *)
(* two ranges from a set of overlapping, open, suffix, oversized and       *)
(* unsatisfiable ones, three ranges in ascending order, and a header at    *)
(* the limit, read by seeking and by streaming readers in pieces of any    *)
(* size.                                                                   *)
R(a, b) == [start |-> a, end |-> b]

Ranges == {R(0, 0), R(0, 1), R(1, 2), R(2, 3), R(3, -1), R(4, 9), R(6, 7), R(2, 1),
           R(-1, 1), R(-1, 9), R(-1, -1)}

Get(specs, n, seeks) ==
    [method |-> "GET", status |-> 200, ranged |-> TRUE, ifRange |-> "absent",
     specs |-> specs, length |-> n, seeks |-> seeks]

Headers == {<<>>} \union [1 .. 1 -> Ranges] \union [1 .. 2 -> Ranges]
           \union {<<R(0, 0), R(1, 2), R(4, -1)>>, <<R(0, 1), R(2, 3), R(-1, 1)>>,
                   <<R(0, 0), R(1, 1), R(2, 2), R(3, 3)>>}

\* The boundaries of the parser: a suffix of no bytes, numbers beyond usize in
\* every place, alone and beside an ordinary range, on a body that may be empty.
Edges == {R(-1, 0), R(16, 2), R(16, -1), R(0, 16), R(-1, 16), R(0, -1), R(-1, 2)}

EdgeHeaders == [1 .. 1 -> Edges] \union {<<R(0, 0), r>> : r \in Edges}
               \union {<<r, R(-1, 1)>> : r \in Edges}

AllRequests ==
    {Get(specs, n, seeks) : specs \in Headers, n \in {3, 5}, seeks \in BOOLEAN}
    \union {Get(specs, n, seeks) : specs \in EdgeHeaders, n \in {0, 3}, seeks \in BOOLEAN}
    \union {[Get(<<R(0, 1)>>, 3, TRUE) EXCEPT !.method = m, !.ifRange = i, !.status = s] :
               m \in {"GET", "HEAD", "POST"}, i \in {"absent", "matches", "differs"},
               s \in {200, 404}}

RangeFilter == INSTANCE RangeFilter
                 WITH Requests <- AllRequests, MaxRanges <- 4, UsizeMax <- 15

rangeVars == <<req, resp, filter, reader, out, pc>>
-----------------------------------------------------------------------------
ASSUME Lru!ConstantsOK /\ LinkedList!ConstantsOK /\ Freshness!ConstantsOK

SumInit ==
    /\ part \in {"lru", "list", "freshness", "range"}
    /\ LinkedList!Init /\ Freshness!Init
    /\ Lru!Init /\ (part # "lru" => /\ th[1].calls = <<Every[1]>> /\ th[2].calls = <<Every[1]>>)
    /\ RangeFilter!Init /\ (part # "range" => req = Get(<<>>, 3, FALSE))

SumNext ==
    \/ part = "lru" /\ Lru!Next
       /\ UNCHANGED <<part, listVars, freshVars, rangeVars>>
    \/ part = "list" /\ LinkedList!Next
       /\ UNCHANGED <<part, lruVars, freshVars, rangeVars>>
    \/ part = "freshness" /\ Freshness!Next
       /\ UNCHANGED <<part, lruVars, listVars, rangeVars>>
    \/ part = "range" /\ RangeFilter!Next
       /\ UNCHANGED <<part, lruVars, listVars, freshVars>>

SumSpec ==
    SumInit /\ [][SumNext]_<<part, lruVars, listVars, freshVars, rangeVars>>
-----------------------------------------------------------------------------
(* The components' properties: see their modules.                          *)
LruSound == Lru!LruSound
ListKept == LinkedList!ListKept
UsedAsAllowed == Freshness!UsedAsAllowed
RangesServed == RangeFilter!RangesServed
=============================================================================
