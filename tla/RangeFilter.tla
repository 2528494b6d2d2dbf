---------------------------- MODULE RangeFilter ----------------------------
(***************************************************************************)
(* Range requests answered from the cache: parse_range_header() and        *)
(* range_header_filter(), which turn a Range header and a cached 200 into  *)
(* a status and a Content-Length, RangeBodyFilter, which cuts the body     *)
(* while it streams in pieces of any size, and the seeking cache reader    *)
(* that advances through the parts together with the filter                *)
(* (pingora-proxy/src/proxy_cache.rs).                                     *)
(*                                                                         *)
(* The byte at position p of the cached body is the item <<"byte", p>>;    *)
(* the header of a part and the closing boundary are one item each, and a  *)
(* length counts items.                                                    *)
(***************************************************************************)
EXTENDS Integers, Sequences, SequencesExt, FiniteSets

CONSTANTS
    Requests,       \* the requests tried, with the cached object they meet
    MaxRanges,      \* DEFAULT_MAX_RANGES
    UsizeMax        \* the largest number a usize holds

VARIABLES
    req,            \* the request, its object and the reader of the object
    resp,           \* status and Content-Length sent, "none" before
    filter,         \* RangeBodyFilter
    reader,         \* the part of the body still to be read
    out,            \* what has been written to the client
    pc              \* "header", "body", "done" or "failed"

vars == <<req, resp, filter, reader, out, pc>>

Absent == -1        \* a number missing from a range, an index not yet set

Byte(p) == <<"byte", p>>
Part(r) == <<"part", r.start, r.end - 1>>
Footer == <<"footer">>

Whole(n) == [k \in 1 .. n |-> Byte(k - 1)]

----------------------------------------------------------------------------
(***************************************************************************)
(* The request header.                                                     *)
(***************************************************************************)

\* A number that does not fit in a usize is taken as if it were missing.
ParseNumber(n) == IF n > UsizeMax THEN Absent ELSE n

NoRange == [start |-> Absent, end |-> Absent]

\* One range of the header: the half-open range it selects, or NoRange.
ParseRange(s, length) ==
    LET first == ParseNumber(s.start)
        last  == ParseNumber(s.end)
        stop  == 1 + IF last = Absent \/ last > length - 1 THEN length - 1 ELSE last
    IN  CASE first # Absent /\ (first >= length \/ stop <= first) -> NoRange
          [] first # Absent /\ first < length /\ stop > first
               -> [start |-> first, end |-> stop]
          [] first = Absent /\ last = Absent -> NoRange
          [] first = Absent /\ last # Absent
               -> [start |-> IF length >= last THEN length - last ELSE 0, end |-> length]

Type(kind, ranges) == [kind |-> kind, ranges |-> ranges]

\* The ranges are accepted only in ascending order and apart from each other;
\* a header with MaxRanges ranges is not looked at.
ParseRangeHeader(specs, length) ==
    LET ranges == SelectSeq([i \in DOMAIN specs |-> ParseRange(specs[i], length)],
                            LAMBDA r : r # NoRange)
    IN  CASE specs = <<>> -> Type("Invalid", <<>>)
          [] Len(specs) >= MaxRanges -> Type("None", <<>>)
          [] specs # <<>> /\ Len(specs) < MaxRanges ->
               IF \E i \in 2 .. Len(ranges) : ranges[i].start < ranges[i - 1].end
               THEN Type("None", <<>>)
               ELSE IF ranges = <<>> THEN Type("Invalid", <<>>)
               ELSE IF Len(ranges) = 1 THEN Type("Single", ranges)
               ELSE Type("Multi", ranges)

RequestRangeType(q) ==
    IF q.method \notin {"GET", "HEAD"} \/ ~q.ranged \/ q.ifRange = "differs"
    THEN Type("None", <<>>)
    ELSE ParseRangeHeader(q.specs, q.length)

\* calculate_multipart_length(): every part has a header, the last a footer.
MultipartLength(ranges) ==
    FoldLeft(LAMBDA total, r : total + 1 + r.end - r.start, 1, ranges)

\* range_header_filter(): the range type together with the response header.
RangeHeaderFilter(q) ==
    LET type == IF q.status # 200 THEN Type("None", <<>>) ELSE RequestRangeType(q)
        first == type.ranges[1]
    IN  [type |-> type,
         resp |-> CASE type.kind = "None" -> [status |-> q.status, length |-> q.length]
                    [] type.kind = "Single" ->
                         [status |-> 206, length |-> first.end - first.start]
                    [] type.kind = "Multi" ->
                         [status |-> 206, length |-> MultipartLength(type.ranges)]
                    [] type.kind = "Invalid" -> [status |-> 416, length |-> 0]]

----------------------------------------------------------------------------
(***************************************************************************)
(* The body filter.                                                        *)
(***************************************************************************)

NewRange(type) ==
    [range |-> type, current |-> 0, idx |-> IF type.kind = "Multi" THEN 0 ELSE Absent,
     cacheIdx |-> Absent]

Dropped == <<"dropped">>

\* filter_range_data(): the piece of `data`, which begins at `current`, that
\* lies in the range.
FilterRangeData(r, current, data) ==
    IF current + Len(data) < r.start \/ current >= r.end
    THEN Dropped
    ELSE IF current >= r.start /\ current + Len(data) <= r.end
    THEN data
    ELSE SubSeq(data, 1 + IF r.start > current THEN r.start - current ELSE 0,
                IF Len(data) < r.end - current THEN Len(data) ELSE r.end - current)

IncludesRangeStart(r, current, n) == r.start >= current /\ r.start < current + n

\* A filter that asks for the byte after the range before it closes the part.
IncludesRangeEnd_Late(r, current, n) == r.end > current /\ r.end < current + n

IncludesRangeEnd(r, current, n) == r.end > current /\ r.end <= current + n

\* filter_multi_range_body(): go through the ranges not yet finished, adding
\* headers, bytes and the closing boundary, until one lies behind the data.
FilterMultiRangeBody(f, data) ==
    LET final == Last(f.range.ranges)
        rest  == SubSeq(f.range.ranges, f.idx + 1, Len(f.range.ranges))
        Each(acc, r) ==
            LET sliced == FilterRangeData(r, f.current, data)
                ends   == IncludesRangeEnd(r, f.current, Len(data))
            IN  IF acc.stop \/ sliced = Dropped THEN [acc EXCEPT !.stop = TRUE]
                ELSE [stop |-> FALSE,
                      idx  |-> IF ends THEN acc.idx + 1 ELSE acc.idx,
                      out  |-> acc.out
                               \o (IF IncludesRangeStart(r, f.current, Len(data))
                                   THEN <<Part(r)>> ELSE <<>>)
                               \o sliced
                               \o (IF ends /\ r = final THEN <<Footer>> ELSE <<>>)]
        done  == FoldLeft(Each, [stop |-> FALSE, idx |-> f.idx, out |-> <<>>], rest)
    IN  [filter |-> [f EXCEPT !.idx = done.idx, !.current = @ + Len(data)],
         out    |-> done.out]

\* filter_body() on a piece of the body.
FilterBody(f, data) ==
    IF f.range.kind = "Multi" THEN FilterMultiRangeBody(f, data)
    ELSE IF f.range.kind = "Single"
    THEN LET sliced == FilterRangeData(f.range.ranges[1], f.current, data)
         IN  [filter |-> [f EXCEPT !.current = @ + Len(data)],
              out    |-> IF sliced = Dropped THEN <<>> ELSE sliced]
    ELSE [filter |-> f, out |-> IF f.range.kind = "Invalid" THEN <<>> ELSE data]

\* Whether the reader of a multipart answer has parts left to seek to.
ShouldCacheSeekAgain(f) ==
    /\ f.range.kind = "Multi"
    /\ f.cacheIdx # Absent
    /\ f.cacheIdx # Len(f.range.ranges) - 1

----------------------------------------------------------------------------
(***************************************************************************)
(* The cached body and its reader.                                         *)
(***************************************************************************)

\* A reader at the start of the body; the object ends at q.length.
Unread(q) == [at |-> 0, stop |-> q.length]

\* seek() of the hit handler: it refuses a start past the end of the body.
Seeks(q, r) == r.start < q.length
SeekTo(q, r) == [at |-> r.start, stop |-> IF r.end < q.length THEN r.end ELSE q.length]

Failed(f) == [ok |-> FALSE, filter |-> f, reader |-> reader]

\* next_cache_multipart_range() and the seek to it: an error when the filter
\* is not at the part the reader goes to.
SeekMultipart(q, f) ==
    LET next == f.cacheIdx + 1
        r    == f.range.ranges[next + 1]
    IN  IF f.idx # next \/ next >= Len(f.range.ranges) THEN Failed(f)
        ELSE IF ~Seeks(q, r) THEN Failed(f)
        ELSE [ok |-> TRUE,
              filter |-> [f EXCEPT !.cacheIdx = next, !.current = r.start],
              reader |-> SeekTo(q, r)]

\* The first seek: a reader that finds the single range by itself makes the
\* filter unnecessary.
MaybeSeek(q, f) ==
    LET r == f.range.ranges[1]
    IN  IF f.range.kind = "Single" /\ q.seeks
        THEN IF Seeks(q, r)
             THEN [ok |-> TRUE, filter |-> NewRange(Type("None", <<>>)),
                   reader |-> SeekTo(q, r)]
             ELSE Failed(f)
        ELSE IF f.range.kind = "Multi" /\ q.seeks THEN SeekMultipart(q, f)
        ELSE [ok |-> TRUE, filter |-> f, reader |-> reader]

Init ==
    /\ req \in Requests
    /\ resp = [status |-> 0, length |-> 0]
    /\ filter = NewRange(Type("None", <<>>))
    /\ reader = Unread(req)
    /\ out = <<>>
    /\ pc = "header"

\* The header goes out; a 416 and the answer to HEAD have no body.
SendHeader ==
    /\ pc = "header"
    /\ LET h == RangeHeaderFilter(req)
           start == MaybeSeek(req, NewRange(h.type))
       IN  /\ resp' = h.resp
           /\ IF req.method = "HEAD" \/ h.type.kind = "Invalid"
              THEN /\ pc' = "done"
                   /\ UNCHANGED <<filter, reader>>
              ELSE /\ filter' = start.filter
                   /\ reader' = start.reader
                   /\ pc' = IF start.ok THEN "body" ELSE "failed"
    /\ UNCHANGED <<req, out>>

\* The reader returns the next k bytes and the filter cuts them.
ReadBody(k) ==
    /\ pc = "body"
    /\ reader.at + k <= reader.stop
    /\ LET data == SubSeq(Whole(req.length), reader.at + 1, reader.at + k)
           cut  == FilterBody(filter, data)
       IN  /\ filter' = cut.filter
           /\ out' = out \o cut.out
    /\ reader' = [reader EXCEPT !.at = @ + k]
    /\ UNCHANGED <<req, resp, pc>>

\* The reader is at its end: seek to the next part, or end the answer.
ReadEnds ==
    /\ pc = "body"
    /\ reader.at = reader.stop
    /\ IF ShouldCacheSeekAgain(filter)
       THEN LET again == SeekMultipart(req, filter)
            IN  /\ filter' = again.filter
                /\ reader' = again.reader
                /\ pc' = IF again.ok THEN "body" ELSE "failed"
       ELSE /\ pc' = "done"
            /\ UNCHANGED <<filter, reader>>
    /\ UNCHANGED <<req, resp, out>>

Ended ==
    /\ pc \in {"done", "failed"}
    /\ UNCHANGED vars

Next ==
    \/ SendHeader
    \/ \E k \in 1 .. req.length : ReadBody(k)
    \/ ReadEnds
    \/ Ended

Spec == Init /\ [][Next]_vars

----------------------------------------------------------------------------
(***************************************************************************)
(* What the client asked for, read off the header it sent.                 *)
(***************************************************************************)

Selected(s, length) ==
    {p \in 0 .. length - 1 :
        IF s.start = Absent THEN s.end # Absent /\ p >= length - s.end
        ELSE p >= s.start /\ (s.end = Absent \/ p <= s.end)}

Wanted == SelectSeq([i \in DOMAIN req.specs |-> Selected(req.specs[i], req.length)],
                    LAMBDA ps : ps # {})

BytesOf(ps) == [k \in 1 .. Cardinality(ps) |->
                   Byte(CHOOSE p \in ps : Cardinality({q \in ps : q < p}) = k - 1)]

PartOf(ps) == <<"part", CHOOSE p \in ps : \A q \in ps : p <= q,
                        CHOOSE p \in ps : \A q \in ps : p >= q>>

Rendered ==
    IF resp.status = 416 \/ req.method = "HEAD" THEN <<>>
    ELSE IF resp.status # 206 THEN Whole(req.length)
    ELSE IF Len(Wanted) = 1 THEN BytesOf(Wanted[1])
    ELSE FoldLeft(LAMBDA acc, ps : acc \o <<PartOf(ps)>> \o BytesOf(ps), <<>>, Wanted)
         \o <<Footer>>

\* The ranges whose meaning the parser keeps.  It does not keep that of a
\* suffix without bytes (`-0`, or any suffix of an empty body), which becomes an
\* empty range and not an unsatisfiable one, and that of a number beyond usize
\* in the place of a start or of a suffix length.
Readable(s, length) ==
    IF s.start = Absent
    THEN s.end # Absent => s.end # 0 /\ s.end <= UsizeMax /\ length > 0
    ELSE s.start > UsizeMax => s.end = Absent

AllReadable == \A i \in DOMAIN req.specs : Readable(req.specs[i], req.length)

\* However the body is cut into pieces and whether or not the reader seeks,
\* what reaches the client is at every moment the beginning of exactly the
\* parts it asked for, complete with headers and closing boundary when the
\* answer ends (RangeBodyFilter::filter_body(), proxy_cache_hit()).
ExactRanges ==
    /\ pc \in {"body", "done"} => IsPrefix(out, Rendered)
    /\ pc = "done" => out = Rendered
    /\ pc # "failed"

\* The status and Content-Length sent before the body describe what follows
\* them: the length is that of the parts, 206 is sent only for a GET or HEAD
\* whose precondition holds, and 416 only when no range selects a byte
\* (range_header_filter()).
HeaderDescribesBody ==
    pc # "header" =>
        /\ req.method # "HEAD" => resp.length = Len(Rendered)
        /\ resp.status = 206 => /\ req.method \in {"GET", "HEAD"}
                                /\ req.ifRange # "differs"
                                /\ Wanted # <<>>
        /\ resp.status = 416 => Wanted = <<>>

\* Whatever the header says, the client is never sent more than the
\* Content-Length it was given (calculate_multipart_length() against
\* filter_multi_range_body()).
NeverBeyondLength == pc # "header" => Len(out) <= resp.length

\* The answer to a range request, header and body.
RangesServed ==
    /\ AllReadable => ExactRanges /\ HeaderDescribesBody
    /\ NeverBeyondLength

\* The same without the condition does not hold: `bytes=-0` is answered by a 206
\* of length 0 and the seek to its start then fails (parse_range_header(),
\* CompleteHit::seek()), and a start beyond usize turns `a-b` into "the last b
\* bytes".
EveryHeaderServed == ExactRanges /\ HeaderDescribesBody
=============================================================================
