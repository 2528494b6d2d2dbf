----------------------------- MODULE BodyReader -----------------------------
(***************************************************************************)
(* The HTTP/1 body reader of pingora-core, protocols/http/v1/body.rs: the  *)
(* parser that turns the bytes read from a connection into body bytes and  *)
(* finds where the message ends.  It is a pure algorithm over a reader     *)
(* record, used by the specifications Http1Body and Http1Session:          *)
(*                                                                         *)
(*   Read(r, in)  is one call of read_body(): r is the reader before the   *)
(*                call and `in' the bytes its stream read returned, if the *)
(*                call reads the stream at all (Polls(r)).                 *)
(*                                                                         *)
(* A byte is a hexadecimal digit, CR, LF, ";" or any other byte ("z", "t", *)
(* ...): what the parser tells apart.  Offsets are 0-based, as in the      *)
(* code, so the bytes of buf[a..b] are SubSeq(buf, a + 1, b).              *)
(***************************************************************************)
EXTENDS Integers, Sequences, SequencesExt, TLC

CONSTANTS
    BodyBufSize,      \* BODY_BUFFER_SIZE, the size of one stream read
    HeadLimit,        \* PARTIAL_CHUNK_HEAD_LIMIT
    TrailerLimit      \* TRAILER_SIZE_LIMIT

\* A partial chunk head always leaves room in the buffer to read more.
ASSUME SizesAssumption ==
    /\ BodyBufSize \in Nat \ {0} /\ HeadLimit \in Nat /\ TrailerLimit \in Nat
    /\ HeadLimit < BodyBufSize

CR == "CR"
LF == "LF"
CRLF == <<CR, LF>>
Hex == "0" :> 0 @@ "1" :> 1 @@ "2" :> 2 @@ "3" :> 3

\* The bytes from a up to b, or to the end of the buffer if that comes first.
Slice(bytes, a, b) == SubSeq(bytes, a + 1, IF b < Len(bytes) THEN b ELSE Len(bytes))

\* The size line of a chunk, `{:X}\r\n', for sizes of one digit.
SizeLine(n, ext) ==
    <<CHOOSE d \in DOMAIN Hex : Hex[d] = n>> \o (IF ext THEN <<";", "z">> ELSE <<>>) \o CRLF

ChunkOf(bytes, ext) == SizeLine(Len(bytes), ext) \o bytes \o CRLF
LAST_CHUNK == <<"0">> \o CRLF \o CRLF

(***************************************************************************)
(* The reader: its ParseState (st and the numbers that go with it) and its *)
(* buffers.  start, end and expect are the three indices of Chunked; end   *)
(* is also the unread tail of ChunkedFinal, whose trailers and ended count *)
(* the trailer bytes and the bytes of CRLF CRLF seen.                      *)
(***************************************************************************)
NewReader(upstream) ==
    [st |-> "ToStart", read |-> 0, remaining |-> 0,
     start |-> 0, end |-> 0, expect |-> 0, trailers |-> 0, ended |-> 0,
     buf |-> <<>>, rewind |-> 0, over |-> <<>>, upstream |-> upstream]

BodyDone(r) == r.st \in {"Complete", "Done"}
BodyComplete(r) == r.st = "Complete"
NeedInit(r) == r.st = "ToStart"

\* prepare_buf() and prepare_owned_buf(): what was read past the header is
\* the first buffer of the body.
Rewound(r, bytes) == [r EXCEPT !.buf = bytes, !.rewind = Len(bytes)]

InitChunked(r, bytes) ==
    [Rewound(r, bytes) EXCEPT !.st = "Chunked", !.read = 0, !.start = 0,
                              !.end = 0, !.expect = 0]

InitContentLength(r, cl, bytes) ==
    IF cl = 0
    THEN [r EXCEPT !.st = "Complete", !.read = 0, !.over = bytes]
    ELSE [Rewound(r, bytes) EXCEPT !.st = "Partial", !.read = 0,
                                   !.remaining = cl]

InitCloseDelimited(r, bytes) ==
    [Rewound(r, bytes) EXCEPT !.st = "UntilClose", !.read = 0]

\* After a 101 the rest of the body is passed through: bytes already read
\* past the body become its first buffer, unless the first is still unread.
ConvertToCloseDelimited(r) ==
    IF r.st = "UntilClose" THEN r
    ELSE IF r.rewind = 0
    THEN InitCloseDelimited([r EXCEPT !.over = <<>>], r.over)
    ELSE [r EXCEPT !.st = "UntilClose", !.read = 0]

PushBodyOverread(r, bytes) == [r EXCEPT !.over = @ \o bytes]

\* Mutant: what lies past the end is dropped.
FinishBodyBuf_Dropped(r, endOfBody, total) ==
    [r EXCEPT !.buf = SubSeq(@, 1, endOfBody), !.over = <<>>]

\* finish_body_buf(): what lies past the end of the body is kept apart.
FinishBodyBuf(r, endOfBody, total) ==
    [r EXCEPT !.buf = SubSeq(@, 1, endOfBody),
              !.over = SubSeq(r.buf, endOfBody + 1, total)]

(***************************************************************************)
(* The outcome of one call: the reader after it, the body bytes it returns *)
(* and what it reports ("more", "end" for Ok(None), or an error).          *)
(***************************************************************************)
Got(r, bytes) == [rd |-> r, out |-> bytes, res |-> "more"]
End(r) == [rd |-> r, out |-> <<>>, res |-> "end"]
Fails(r, error) == [rd |-> [r EXCEPT !.st = "Done"], out |-> <<>>, res |-> error]
Panics(r) == [rd |-> r, out |-> <<>>, res |-> "panic"]

\* Whether the call reads the stream, and for how many bytes at most.
Polls(r) ==
    CASE r.st \in {"Partial", "UntilClose"} -> r.rewind = 0
      [] r.st = "Chunked" -> r.start = 0 /\ (r.end # 0 \/ r.rewind = 0)
      [] r.st = "ChunkedFinal" -> r.end = 0
      [] OTHER -> FALSE

ReadSize(r) ==
    CASE r.st = "Partial" /\ ~r.upstream ->
           IF r.remaining < BodyBufSize THEN r.remaining ELSE BodyBufSize
      [] r.st = "Chunked" /\ r.end # 0 -> BodyBufSize - r.expect
      [] OTHER -> BodyBufSize

\* A partial chunk head is moved to the front of the buffer, and that is
\* recorded, before the stream is awaited: a call dropped while it waits
\* leaves this reader.  Every other call that waits has emptied the buffer.
Waiting(r) ==
    IF r.st = "Chunked" /\ r.end # 0
    THEN [r EXCEPT !.buf = SubSeq(@, r.end - r.expect + 1, r.end),
                   !.end = r.expect]
    ELSE [r EXCEPT !.buf = <<>>]

\* The reader with the bytes of this call in its buffer: those left over by
\* the header, or those just read.
Filled(r, in) == IF Polls(r) THEN [r EXCEPT !.buf = @ \o in]
                             ELSE [r EXCEPT !.rewind = 0]

DoReadBody(r, n) ==
    IF n = 0 THEN Fails(r, "closed")
    ELSE IF n >= r.remaining
    THEN Got(FinishBodyBuf([r EXCEPT !.st = "Complete", !.read = @ + r.remaining],
                           r.remaining, n), SubSeq(r.buf, 1, r.remaining))
    ELSE Got([r EXCEPT !.read = @ + n, !.remaining = @ - n], r.buf)

\* A body with no framing of its own: the close is its end.
DoReadBodyUntilClosed(r, n) ==
    IF n = 0 THEN End([r EXCEPT !.st = "Complete"])
             ELSE Got([r EXCEPT !.read = @ + n], r.buf)

(***************************************************************************)
(* Chunked transfer coding.                                                *)
(***************************************************************************)
\* Whether bytes start with CR LF (or LF alone): wholly, partly or not.
ValidateCrlf(bytes, lfOnly) ==
    LET want == IF lfOnly THEN <<LF>> ELSE CRLF
        seen == Slice(bytes, 0, Len(want))
    IN  IF ~IsPrefix(seen, want) THEN "bad"
        ELSE IF seen = want THEN "whole" ELSE "partial"

\* httparse's parse_chunk_size(): digits, an extension perhaps, CR LF.
ParseChunkSize(bytes) ==
    LET other == SelectInSeq(bytes, LAMBDA b : b \notin DOMAIN Hex)
        digits == IF other = 0 THEN bytes ELSE SubSeq(bytes, 1, other - 1)
        cr == SelectInSeq(bytes, LAMBDA b : b = CR)
        is(status) == [status |-> status, used |-> cr + 1,
                       size |-> FoldLeft(LAMBDA v, b : 16 * v + Hex[b], 0, digits)]
    IN  IF other = 1 THEN is("error")
        ELSE IF other > 0 /\ bytes[other] \notin {CR, ";"} THEN is("error")
        ELSE IF cr \in {0, Len(bytes)} THEN is("partial")
        ELSE IF bytes[cr + 1] = LF THEN is("complete") ELSE is("error")

ChunkedAt(r, bytesRead, start, end, expect) ==
    [r EXCEPT !.read = @ + bytesRead, !.start = start, !.end = end,
              !.expect = expect]

\* The chunk of size 0: the message ends here if CR LF follows, or the
\* trailers do, whose bytes move to the front of the buffer.
LastChunk(r, bytes, used) ==
    IF Len(bytes) >= used + 2 /\ SubSeq(bytes, used + 1, used + 2) = CRLF
    THEN End(FinishBodyBuf([r EXCEPT !.st = "Complete"],
                           r.start + used + 2, r.end))
    ELSE Got([r EXCEPT !.st = "ChunkedFinal", !.trailers = 0, !.ended = 2,
                       !.end = r.end - (r.start + used),
                       !.buf = SubSeq(@, r.start + used + 1, r.end)], <<>>)

\* A chunk with data: the buffer ends within it or at its end, or goes on
\* with another chunk.
DataChunk(r, bytes, used, size) ==
    LET dataEnd == used + size
        chunkEnd == dataEnd + 2
        data == Slice(bytes, used, dataEnd)
        crlf == ValidateCrlf(Slice(bytes, dataEnd, chunkEnd), FALSE)
    IN  IF crlf = "bad" THEN Fails(r, "invalid")
        ELSE IF chunkEnd >= Len(bytes)
        THEN Got(ChunkedAt(r, Len(data), 0, 0, chunkEnd - Len(bytes)), data)
        ELSE IF crlf = "whole"
        THEN Got(ChunkedAt(r, size, r.start + chunkEnd, r.end, 0), data)
        ELSE Panics(r)

ParseChunkedBuf(r) ==
    LET bytes == SubSeq(r.buf, r.start + 1, r.end)
        p == ParseChunkSize(bytes)
    IN  CASE p.status = "error" -> Fails(r, "invalid")
          [] p.status = "partial" ->
               IF Len(bytes) > HeadLimit
               THEN Fails(r, "invalid")
               ELSE Got(ChunkedAt(r, 0, 0, r.end, Len(bytes)), <<>>)
          [] p.status = "complete" ->
               IF p.size = 0 THEN LastChunk(r, bytes, p.used)
                             ELSE DataChunk(r, bytes, p.used, p.size)

\* The rest of a chunk: `expect' more bytes of it, CR LF included.
PartialChunk(r, expect) ==
    LET payload == IF expect > 2 THEN expect - 2 ELSE 0
        data == SubSeq(r.buf, 1, payload)
        crlf == ValidateCrlf(Slice(r.buf, payload, expect), expect = 1)
    IN  IF expect >= r.end + 2
        THEN Got(ChunkedAt(r, r.end, 0, 0, expect - r.end), r.buf)
        ELSE IF crlf = "bad" THEN Fails(r, "invalid")
        ELSE IF expect <= r.end /\ crlf # "whole" THEN Panics(r)
        ELSE IF expect >= r.end
        THEN Got(ChunkedAt(r, payload, 0, 0, expect - r.end), data)
        ELSE Got(ChunkedAt(r, payload, expect, r.end, 0), data)

DoReadChunkedBody(r, n) ==
    LET head == r.start = 0 /\ r.end # 0            \* a partial chunk head
        expect == IF head THEN 0 ELSE r.expect
        new == IF r.start # 0 THEN r
               ELSE ChunkedAt(r, 0, 0, (IF head THEN r.expect ELSE 0) + n, 0)
    IN  IF r.start = 0 /\ n = 0 THEN Fails(r, "closed")
        ELSE IF expect > 0 THEN PartialChunk(new, expect)
        ELSE ParseChunkedBuf(new)

(***************************************************************************)
(* The trailers: discarded, until CR LF CR LF.  end is the length of the   *)
(* buffer, start the position of the loop in it.                           *)
(***************************************************************************)
ParseTrailersEnd(r, bytes) ==
    LET crlf == ValidateCrlf(Slice(bytes, 0, 4 - r.ended), r.ended % 2 = 1)
        step == IF crlf = "whole" /\ r.ended % 2 = 0 THEN 2 ELSE 1
    IN  IF r.ended % 2 = 0 /\ bytes[1] \notin {CR, LF}
        THEN [rd |-> [r EXCEPT !.trailers = @ + r.ended, !.ended = 0],
              step |-> 0, res |-> "more"]
        ELSE IF crlf = "bad" THEN [rd |-> r, step |-> 0, res |-> "invalid"]
        ELSE IF r.ended + step = 4
        THEN [rd |-> [r EXCEPT !.st = "Complete"], step |-> step, res |-> "end"]
        ELSE [rd |-> [r EXCEPT !.ended = @ + step], step |-> step, res |-> "more"]

RECURSIVE FindTrailersEnd(_, _, _)
FindTrailersEnd(r, start, n) ==
    LET bytes == SubSeq(r.buf, start + 1, n)
        next == SelectInSeq(bytes, LAMBDA b : b \in {CR, LF})
        skip == IF r.ended # 0 THEN 0
                ELSE IF next = 0 THEN Len(bytes) ELSE next - 1
        seen == [r EXCEPT !.trailers = @ + skip]
        p == ParseTrailersEnd(seen, SubSeq(bytes, skip + 1, Len(bytes)))
    IN  IF start >= n THEN Got(r, <<>>)
        ELSE IF seen.trailers > TrailerLimit THEN Fails(r, "invalid")
        ELSE IF skip = Len(bytes) THEN Got(seen, <<>>)
        ELSE CASE p.res = "invalid" -> Fails(r, "invalid")
               [] p.res = "end" ->
                    End(FinishBodyBuf(p.rd, start + skip + p.step, n))
               [] OTHER -> FindTrailersEnd(p.rd, start + skip + p.step, n)

DoReadChunkedBodyFinal(r, n) ==
    IF n = 0 THEN Fails(r, "closed")
             ELSE FindTrailersEnd([r EXCEPT !.end = 0], 0, n)

Read(r, in) ==
    LET f == Filled(IF Polls(r) THEN Waiting(r) ELSE r, in)
        n == CASE Polls(r) -> Len(in)
               [] ~Polls(r) /\ r.st = "ChunkedFinal" -> r.end
               [] OTHER -> r.rewind
    IN  CASE r.st \in {"Complete", "Done"} -> End(r)
          [] r.st = "Partial" -> DoReadBody(f, n)
          [] r.st = "Chunked" -> DoReadChunkedBody(f, n)
          [] r.st = "ChunkedFinal" -> DoReadChunkedBodyFinal(f, n)
          [] r.st = "UntilClose" -> DoReadBodyUntilClosed(f, n)
          [] OTHER -> Panics(r)

=============================================================================
