----------------------------- MODULE Http1Body -----------------------------
(***************************************************************************)
(* One HTTP/1 message body on its way over a connection.  At one end the   *)
(* BodyWriter of pingora-core (protocols/http/v1/body.rs), driven by the   *)
(* session through either of its interfaces; at the other a BodyReader     *)
(* (module BodyReader).  Between them a stream that buffers what is        *)
(* written until it is flushed and delivers it in pieces of any size.      *)
(*                                                                         *)
(* A scenario either drives the writer, or puts on the wire the bytes of a *)
(* peer that is not pingora: a well-formed chunked message with extensions *)
(* and trailers, the same with one framing byte damaged, or one cut short. *)
(* What follows the message on the wire is the next message's.             *)
(***************************************************************************)
EXTENDS BodyReader

CONSTANT Scenarios

VARIABLES
    sc,      \* the scenario
    w,       \* the BodyWriter, and the session's use of it
    held,    \* bytes written to the stream and not flushed
    wire,    \* bytes the reader's end of the connection may read
    open,    \* whether the writer's end is still open
    r,       \* the BodyReader
    got,     \* the body bytes the reader has returned
    res      \* what its last call reported

vars == <<sc, w, held, wire, open, r, got, res>>

(***************************************************************************)
(* Scenarios.  body is the sequence of application writes; next follows    *)
(* the message; damaged is the number of a CR or LF of the framing that    *)
(* arrives as another byte, cut the number of bytes after which the peer   *)
(* closes (0: neither).  rewind bytes arrived with the header.             *)
(***************************************************************************)
Framing == {"chunked", "length", "close"}

Scenario ==
    [peer : {"writer", "wire"}, framing : Framing, total : Nat,
     body : Seq(Seq(STRING)), api : {"tasks", "legacy"}, app : BOOLEAN,
     ext : BOOLEAN, trailers : Seq(Seq(STRING)), next : Seq(STRING),
     damaged : Nat, cut : Nat, rewind : Nat, upstream : BOOLEAN]

Bytes(parts) == FlattenSeq(parts)

Encoded(s) ==
    CASE s.framing = "chunked" ->
           Bytes([i \in DOMAIN s.body |-> ChunkOf(s.body[i], s.ext)])
             \o SizeLine(0, s.ext)
             \o Bytes([i \in DOMAIN s.trailers |-> s.trailers[i] \o CRLF])
             \o CRLF
      [] OTHER -> Bytes(s.body)

\* The positions of the framing's own CRs and LFs in an encoded message.
FramingBytes(s) ==
    LET data(i) == Len(Bytes([j \in 1 .. i - 1 |-> ChunkOf(s.body[j], s.ext)]))
                     + Len(SizeLine(0, s.ext))
        payload == UNION {data(i) + 1 .. data(i) + Len(s.body[i]) : i \in DOMAIN s.body}
    IN  {k \in DOMAIN Encoded(s) \ payload : Encoded(s)[k] \in {CR, LF}}

OnWire(s) ==
    LET whole == Encoded(s)
        sent == IF s.damaged = 0 THEN whole ELSE [whole EXCEPT ![s.damaged] = "z"]
    IN  IF s.cut = 0 THEN sent \o s.next ELSE SubSeq(sent, 1, s.cut)

\* The body the message carries.
Payload(s) ==
    IF s.framing = "length" THEN Slice(Bytes(s.body), 0, s.total) ELSE Bytes(s.body)

NewWriter(s) ==
    [mode |-> s.framing, total |-> s.total, written |-> 0,
     state |-> "Idle", size |-> 0, buf |-> <<>>,
     finish |-> "NotStarted", tasks |-> s.body, failed |-> FALSE]

InitReader(s, bytes) ==
    CASE s.framing = "chunked" -> InitChunked(NewReader(s.upstream), bytes)
      [] s.framing = "length" -> InitContentLength(NewReader(s.upstream), s.total, bytes)
      [] s.framing = "close" -> InitCloseDelimited(NewReader(s.upstream), bytes)

Init ==
    /\ sc \in Scenarios
    /\ w = NewWriter(sc)
    /\ held = <<>> /\ got = <<>> /\ res = "more"
    /\ IF sc.peer = "wire"
       THEN /\ open = FALSE
            /\ r = InitReader(sc, Slice(OnWire(sc), 0, sc.rewind))
            /\ wire = SubSeq(OnWire(sc), sc.rewind + 1, Len(OnWire(sc)))
       ELSE /\ open = TRUE
            /\ r = InitReader(sc, <<>>)
            /\ wire = <<>>

-----------------------------------------------------------------------------
(***************************************************************************)
(* The writer.  A body write is Idle -> Writing -> Flushing -> Done, one   *)
(* write at a time; through the task interface that state is kept in the   *)
(* writer, so that a poll dropped by select! is resumed by the next.       *)
(* Through the older interface it is the future's own, and is lost when a  *)
(* timeout drops it.                                                       *)
(***************************************************************************)
Writes == sc.peer = "writer" /\ open
Between == w.state \in {"Idle", "Done"}

WriterFinished ==
    \/ w.mode = "complete"
    \/ w.mode = "length" /\ w.written >= w.total

\* The next application write: send_body_task() and the first part of the
\* poll, or the start of write_body().  A chunk of no bytes is not written,
\* a body is cut at its length, and nothing is written past its end.
SendBody ==
    LET bytes == Head(w.tasks)
        left == Slice(bytes, 0, w.total - w.written)
        writing(size, buf) == [w EXCEPT !.tasks = Tail(@), !.state = "Writing",
                                        !.size = size, !.buf = buf]
        skipped == [w EXCEPT !.tasks = Tail(@), !.state = "Done", !.size = 0]
    IN  /\ Writes /\ Between /\ ~w.failed /\ w.tasks # <<>> /\ w.finish = "NotStarted"
        /\ w' = CASE WriterFinished \/ bytes = <<>> -> skipped
                  [] ~(WriterFinished \/ bytes = <<>>) /\ w.mode = "chunked" ->
                       writing(Len(bytes), ChunkOf(bytes, FALSE))
                  [] ~(WriterFinished \/ bytes = <<>>) /\ w.mode = "length" ->
                       writing(Len(left), left)
                  [] OTHER -> writing(Len(bytes), bytes)
        /\ UNCHANGED <<sc, held, wire, open, r, got, res>>

\* What the stream does with written bytes: its buffer keeps them, or is
\* full and goes to the wire.
Buffered(bytes) ==
    \/ held' = held \o bytes /\ wire' = wire
    \/ held' = <<>> /\ wire' = wire \o held \o bytes

\* The write makes progress by k bytes: all that is left, or the write is
\* pending with the rest of its buffer.
WriteSome(k) ==
    /\ Writes /\ w.state = "Writing" /\ k \in 1 .. Len(w.buf)
    /\ Buffered(SubSeq(w.buf, 1, k))
    /\ w' = IF k < Len(w.buf)
            THEN [w EXCEPT !.buf = SubSeq(@, k + 1, Len(@))]
            ELSE [w EXCEPT !.buf = <<>>, !.written = @ + w.size,
                           !.state = IF w.mode = "length" /\ w.written + w.size < w.total
                                     THEN "Done" ELSE "Flushing"]
    /\ UNCHANGED <<sc, open, r, got, res>>

Flushed == held' = <<>> /\ wire' = wire \o held

FlushBody ==
    /\ Writes /\ w.state = "Flushing"
    /\ Flushed
    /\ w' = [w EXCEPT !.state = "Done"]
    /\ UNCHANGED <<sc, open, r, got, res>>

\* The write timeout fires on a pending write.  The task is TimedOut for
\* good; the older interface has only lost its future.
WriteTimesOut ==
    /\ Writes /\ w.state \in {"Writing", "Flushing"}
    /\ w' = [w EXCEPT !.state = IF sc.api = "tasks" THEN "TimedOut" ELSE "Idle",
                      !.buf = <<>>, !.failed = TRUE]
    /\ UNCHANGED <<sc, held, wire, open, r, got, res>>

\* The peer is gone: the write fails and so would every later one.
WriteFails ==
    /\ Writes /\ w.state \in {"Writing", "Flushing"}
    /\ w' = [w EXCEPT !.failed = TRUE]
    /\ open' = FALSE /\ held' = <<>>
    /\ UNCHANGED <<sc, wire, r, got, res>>

\* After an error the proxy drops the session.  HttpServer::process_new_http
\* logs it and goes on to finish().
Abandon ==
    /\ Writes /\ w.failed /\ ~sc.app
    /\ open' = FALSE /\ held' = <<>>
    /\ UNCHANGED <<sc, w, wire, r, got, res>>

(***************************************************************************)
(* The end of the body: finish() and the finish task.                      *)
(***************************************************************************)
MayFinish ==
    /\ Writes /\ w.state \in {"Idle", "Done"}
    /\ IF w.failed THEN sc.app ELSE w.tasks = <<>>

\* The last chunk is written, the other framings have nothing to add.  The
\* older interface flushes the stream in any case.
Finish ==
    /\ MayFinish /\ w.finish = "NotStarted"
    /\ w.mode = "length" => w.written >= w.total
    /\ w' = IF w.mode = "chunked"
            THEN [w EXCEPT !.finish = "Writing", !.buf = LAST_CHUNK]
            ELSE [w EXCEPT !.finish = IF sc.api = "legacy" THEN "Flushing" ELSE "Done",
                           !.mode = "complete"]
    /\ UNCHANGED <<sc, held, wire, open, r, got, res>>

\* A body shorter than its length is an error, and the session is dropped.
PrematureEnd ==
    /\ MayFinish /\ w.finish = "NotStarted"
    /\ w.mode = "length" /\ w.written < w.total
    /\ w' = [w EXCEPT !.finish = "Done", !.failed = TRUE]
    /\ open' = FALSE /\ held' = <<>>
    /\ UNCHANGED <<sc, wire, r, got, res>>

WriteLastChunk(k) ==
    /\ Writes /\ w.finish = "Writing" /\ k \in 1 .. Len(w.buf)
    /\ Buffered(SubSeq(w.buf, 1, k))
    /\ w' = IF k < Len(w.buf)
            THEN [w EXCEPT !.buf = SubSeq(@, k + 1, Len(@))]
            ELSE [w EXCEPT !.buf = <<>>, !.finish = "Flushing"]
    /\ UNCHANGED <<sc, open, r, got, res>>

FlushLastChunk ==
    /\ Writes /\ w.finish = "Flushing"
    /\ Flushed
    /\ w' = [w EXCEPT !.finish = "Done", !.mode = "complete"]
    /\ UNCHANGED <<sc, open, r, got, res>>

\* The message is done.  The session keeps the connection for the next
\* response, or closes it, as a body delimited by the close requires.
NextMessage ==
    /\ Writes /\ w.finish = "Done" /\ held = <<>>
    /\ open' = FALSE
    /\ wire' = IF sc.framing = "close" THEN wire ELSE wire \o sc.next
    /\ UNCHANGED <<sc, w, held, r, got, res>>

-----------------------------------------------------------------------------
(***************************************************************************)
(* The reader: a call that gets k bytes from the stream, one that the peer *)
(* has closed, one that works from its buffer, and one dropped while it    *)
(* waits.                                                                  *)
(***************************************************************************)
Reads == res = "more"

Calls(in) ==
    LET c == Read(r, in)
    IN  /\ r' = c.rd
        /\ got' = got \o c.out
        /\ res' = c.res
        /\ UNCHANGED <<sc, w, held, open>>

ReadStream(k) ==
    /\ Reads /\ Polls(r) /\ k \in 1 .. Len(wire) /\ k <= ReadSize(r)
    /\ Calls(SubSeq(wire, 1, k))
    /\ wire' = SubSeq(wire, k + 1, Len(wire))

ReadClosed ==
    /\ Reads /\ Polls(r) /\ wire = <<>> /\ ~open
    /\ Calls(<<>>)
    /\ wire' = wire

ReadBuffered ==
    /\ Reads /\ ~Polls(r)
    /\ Calls(<<>>)
    /\ wire' = wire

ReadDropped ==
    /\ Reads /\ Polls(r)
    /\ r' = Waiting(r)
    /\ UNCHANGED <<sc, w, held, wire, open, got, res>>

-----------------------------------------------------------------------------
WriterStep ==
    \/ SendBody \/ FlushBody \/ Finish \/ PrematureEnd
    \/ FlushLastChunk \/ NextMessage
    \/ \E k \in 1 .. Len(w.buf) : WriteSome(k) \/ WriteLastChunk(k)

ReaderStep ==
    \/ ReadClosed \/ ReadBuffered
    \/ \E k \in 1 .. Len(wire) : ReadStream(k)

Ended == res # "more" /\ UNCHANGED vars

Next ==
    \/ WriterStep \/ WriteTimesOut \/ WriteFails \/ Abandon
    \/ ReaderStep \/ ReadDropped
    \/ Ended

Spec == Init /\ [][Next]_vars

-----------------------------------------------------------------------------
\* However the bytes are split into reads, whichever calls are dropped and
\* resumed, and wherever a write is interrupted, the reader returns the
\* message's own bytes in order, and when it reports the end it has returned
\* all of them and left exactly the next message's bytes behind it.
SplitIndependent ==
    /\ IsPrefix(got, Payload(sc)) \/ sc.damaged # 0
    /\ BodyComplete(r) /\ sc.framing # "close" =>
         /\ got = Payload(sc)
         /\ \/ r.over \o wire \o held = sc.next
            \/ sc.peer = "writer" /\ r.over \o wire \o held = <<>>

\* HttpServer::process_new_http() goes on to finish() a chunked body whose write
\* timed out: the last chunk follows whatever was written of an earlier one, and
\* SplitIndependent does not hold of what the reader makes of it.
FinishedAnyway == sc.framing = "chunked" /\ w.failed /\ w.finish # "NotStarted"

\* The verdict is right: a message whose framing is damaged, or that the peer
\* cuts short, is never taken for a complete one; one that arrives whole is
\* never refused, and its reader never waits for bytes that do not come.
VerdictRight ==
    LET broken == sc.damaged # 0 \/ sc.cut # 0
    IN  /\ BodyComplete(r) /\ sc.framing # "close" => ~broken
        /\ res \in {"closed", "invalid"} => broken \/ w.failed

\* When the writer reports the end of a body, all of it has left the
\* stream's buffer: a peer that waits for the end of the message gets it.
FinishedIsFlushed == w.finish = "Done" => held = <<>>

\* A message body arrives as it was sent, or is reported broken, unless it was
\* finished after a failed write.
BodyAsSent == (SplitIndependent \/ FinishedAnyway) /\ VerdictRight /\ FinishedIsFlushed

=============================================================================
