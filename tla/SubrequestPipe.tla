--------------------------- MODULE SubrequestPipe ---------------------------
(***************************************************************************)
(* A subrequest: an HTTP request served inside the proxy over two bounded  *)
(* channels, and the pipe that feeds it the main session's request body    *)
(* and returns its response (pingora-proxy/src/subrequest/pipe.rs and      *)
(* pingora-core/src/protocols/http/subrequest/).  Three parties step       *)
(* independently: the client of the main session, the select! loop of      *)
(* pipe_subrequest, and the task that runs the subrequest.  They share the *)
(* channel of request body tasks `down`, the channel of response tasks     *)
(* `up`, and the oneshots `wants` (subreq_wants_body) and `perr`           *)
(* (subreq_proxy_error).                                                   *)
(*                                                                         *)
(* One iteration of the select! loop is two steps: PipeTop evaluates       *)
(* try_reserve() and the branch conditions, which then stay as they are    *)
(* until one branch completes.  What the subrequest's proxy loop answers   *)
(* is a script of response tasks, chosen with the rest of the setup.       *)
(***************************************************************************)
EXTENDS Integers, Sequences, FiniteSets, SequencesExt

CONSTANTS
    Setups,                 \* the exchanges explored, see the MC module
    CHANNEL_BUFFER_SIZE,    \* slots of each channel
    MaxQueued               \* bound: response tasks queued but not written

VARIABLES
    x,          \* the setup of this behaviour
    client,     \* [sent, at, left]: chunks sent, chunks read, gone
    pipe,       \* the locals of pipe_subrequest
    down,       \* [q, tx, rx]: the channel to the subrequest and its ends
    up,         \* [q, tx, rx]: the channel from the subrequest
    wants,      \* "armed", "sent" or "dropped"
    perr,       \* "armed", "sent" or "dropped"
    sub,        \* the subrequest's HttpSession and what drives it
    sent,       \* every task that entered `up`
    got         \* every request body chunk the subrequest read

vars == <<x, client, pipe, down, up, wants, perr, sub, sent, got>>

-----------------------------------------------------------------------------
(* Tasks.  `n` is a body length, or a header's content-length (-1: none).  *)

Header(h, n, end) == [k |-> "header", h |-> h, n |-> n, end |-> end]
Body(n, end)      == [k |-> "body", h |-> "", n |-> n, end |-> end]
Upgraded(n, end)  == [k |-> "upgraded", h |-> "", n |-> n, end |-> end]
Trailer           == [k |-> "trailer", h |-> "", n |-> 0, end |-> TRUE]
Done              == [k |-> "done", h |-> "", n |-> 0, end |-> TRUE]
Failed            == [k |-> "failed", h |-> "", n |-> 0, end |-> FALSE]

None == -1      \* no bytes: the end of a body

Total(lengths) == FoldSeq(+, 0, lengths)

-----------------------------------------------------------------------------
(* The subrequest session's body reader and writer.                        *)

Reader(st, read, left) == [st |-> st, read |-> read, left |-> left]

\* HttpSession::init_body_reader.  The body headers are gone when the pipe had
\* no body to send (clear_request_body_headers); a request that has neither a
\* content-length nor a transfer-encoding has no body.
InitBodyReader(s) ==
    IF s.reader.st # "start" THEN s.reader
    ELSE IF s.upgraded \/ (x.chunked /\ ~pipe.noBody) THEN Reader("close", 0, 0)
    ELSE IF pipe.noBody \/ x.cl \in {None, 0} THEN Reader("complete", 0, 0)
    ELSE Reader("partial", 0, x.cl)

BodyDone(r) == r.st \in {"complete", "done"}

\* BodyReader::do_read_body: what one received task makes of the state.  A
\* closed channel reads as [n |-> None, end |-> TRUE].
DoReadBody(r, m) ==
    IF m.n = None THEN [r |-> Reader("done", r.read, 0), n |-> None, ok |-> FALSE]
    ELSE IF m.end /\ m.n < r.left
      THEN [r |-> Reader("done", r.read + m.n, 0), n |-> None, ok |-> FALSE]
    ELSE IF m.n >= r.left
      THEN [r |-> Reader("complete", r.read + r.left, 0), n |-> r.left, ok |-> TRUE]
    ELSE [r |-> Reader("partial", r.read + m.n, r.left - m.n), n |-> m.n, ok |-> TRUE]

\* BodyReader::do_read_body_until_closed
DoReadBodyUntilClosed(r, m) ==
    IF m.n = None THEN [r |-> Reader("complete", r.read, 0), n |-> None, ok |-> TRUE]
    ELSE [r |-> Reader(IF m.end THEN "complete" ELSE "close", r.read + m.n, 0),
          n |-> m.n, ok |-> TRUE]

ReadBody(r, m) == IF r.st = "partial" THEN DoReadBody(r, m) ELSE DoReadBodyUntilClosed(r, m)

Mode(st, total, written) == [st |-> st, total |-> total, written |-> written]

WriterFinished(m) == m.st = "complete" \/ (m.st = "length" /\ m.written >= m.total)

\* body_mode_for_header and apply_body_mode; an informational header leaves the
\* writer alone, a response without a body has length 0.
BodyModeFor(h, mode) ==
    CASE h.h = "info"   -> mode
      [] h.h = "switch" -> Mode("close", 0, 0)
      [] h.n = None     -> Mode("close", 0, 0)
      [] OTHER          -> Mode("length", h.n, 0)

HeaderSent(s) == s.resp = "final" \/ s.upgraded

\* What sending a response header changes: the writer's mode, the header kept,
\* and after an accepted upgrade the reader, which reads on until close.
AfterHeader(s, h) ==
    LET switched == h.h = "switch"
        s1 == [s EXCEPT !.mode = BodyModeFor(h, s.mode),
                        !.resp = IF h.h = "info" THEN "info" ELSE "final",
                        !.upgraded = switched]
    IN  IF ~switched THEN s1
        ELSE [s1 EXCEPT !.reader = IF @.st = "start" THEN InitBodyReader(s1)
                                   ELSE IF @.st = "close" THEN @ ELSE Reader("close", 0, 0)]

\* maybe_force_close_body_reader
ForceCloseReader(s) ==
    IF s.upgraded /\ ~BodyDone(s.reader)
      THEN [s EXCEPT !.reader = Reader("complete", 0, 0)] ELSE s

-----------------------------------------------------------------------------
(* Writing the response.  Each operator gives the session after one write, *)
(* the task that needs a slot of `up` (if any) and whether it failed.      *)

Wrote(s, out) == [s |-> s, out |-> out, ok |-> TRUE]
Fails(s)      == [s |-> s, out |-> <<>>, ok |-> FALSE]

\* write_response_header
WriteResponseHeader(s, h) ==
    IF HeaderSent(s) THEN Wrote(s, <<>>)
    ELSE Wrote(AfterHeader(s, h), <<[h EXCEPT !.end = FALSE]>>)

\* BodyWriter::write_body: the blocking path sends the bytes as they are and
\* counts up to the content length.
WriteBody(s, t) ==
    IF WriterFinished(s.mode) THEN Wrote(s, <<>>)
    ELSE LET n == IF s.mode.st = "length" /\ s.mode.total - s.mode.written < t.n
                    THEN s.mode.total - s.mode.written ELSE t.n
         IN  Wrote([s EXCEPT !.mode.written = @ + n], <<Body(t.n, FALSE)>>)

\* BodyWriter::finish and HttpSession::finish
FinishBody(s) ==
    IF s.mode.st \in {"complete", "select"} THEN Wrote(ForceCloseReader(s), <<>>)
    ELSE IF s.mode.st = "length" /\ s.mode.written < s.mode.total
      THEN Fails([s EXCEPT !.mode.st = "complete"])
    ELSE Wrote(ForceCloseReader([s EXCEPT !.mode.st = "complete"]), <<Done>>)

\* response_duplex: the writes one task stands for
ResponseDuplex(t) ==
    CASE t.k = "header"               -> <<t>> \o (IF t.end THEN <<Done>> ELSE <<>>)
      [] t.k \in {"body", "upgraded"} -> (IF t.n > 0 THEN <<t>> ELSE <<>>)
                                         \o (IF t.end THEN <<Done>> ELSE <<>>)
      [] t.k = "trailer"              -> <<t, Done>>
      [] OTHER                        -> <<Done>>

WriteOne(s, t) ==
    CASE t.k = "header"  -> WriteResponseHeader(s, t)
      [] t.k = "trailer" -> Wrote(s, <<t>>)
      [] t.k = "done"    -> FinishBody(s)
      [] OTHER           -> WriteBody(s, t)

\* finish_proxy_task and dispatch_finish: finish_in_progress is set before the
\* slot is awaited, so a cancelled finish is taken up again.
FinishProxyTask(s) ==
    IF s.mode.st \in {"complete", "select"}
      THEN Wrote([ForceCloseReader(s) EXCEPT !.finishing = FALSE, !.ends = "finished"], <<>>)
    ELSE IF s.mode.st = "length" /\ s.mode.written < s.mode.total
      THEN Fails([s EXCEPT !.mode.st = "complete", !.finishing = FALSE, !.ends = "open"])
    ELSE IF ~s.finishing THEN Wrote([s EXCEPT !.finishing = TRUE], <<>>)
    ELSE Wrote([ForceCloseReader([s EXCEPT !.mode.st = "complete"])
                   EXCEPT !.finishing = FALSE, !.ends = "finished"], <<Done>>)

\* A version for a task that left the queue before its slot was there: the
\* cancelled wait loses it.
DispatchBody_PopsFirst(s, t) ==
    IF Len(up.q) = CHANNEL_BUFFER_SIZE THEN Wrote(s, <<>>)
    ELSE Wrote([s EXCEPT !.mode.written = @ + t.n], <<Body(t.n, FALSE)>>)

\* dispatch_body_inline: the proxy-task path cuts the bytes to the content length
DispatchBody(s, t) ==
    LET room == s.mode.total - s.mode.written
        n    == IF s.mode.st = "length" /\ room < t.n THEN room ELSE t.n
    IN  Wrote([s EXCEPT !.mode.written = @ + n], <<Body(n, FALSE)>>)

\* One round of write_proxy_tasks, up to the next reserve().  The task at the
\* front leaves the queue in the step that also sends it.
WriteProxyTask(s) ==
    LET t    == Head(s.queue)
        rest == [s EXCEPT !.queue = Tail(@),
                          !.ends = IF t.end THEN "required" ELSE @]
    IN  IF s.ends = "finished" THEN Wrote([s EXCEPT !.queue = <<>>], <<>>)
        ELSE IF s.finishing \/ s.queue = <<>> THEN FinishProxyTask(s)
        ELSE CASE t.k = "done"    -> Wrote(rest, <<>>)
               [] t.k = "failed"  -> Fails([rest EXCEPT !.ends = "open"])
               [] t.k = "header"  -> WriteResponseHeader(rest, t)
               [] t.k = "trailer" -> Wrote(rest, <<t>>)
               [] OTHER -> IF t.n = 0 \/ WriterFinished(s.mode) THEN Wrote(rest, <<>>)
                           ELSE DispatchBody(rest, t)

\* has_pending_proxy_tasks, and the writer's end that write_proxy_tasks also
\* turns into a Done
HasPendingProxyTasks(s) ==
    s.finishing \/ s.ends = "required" \/ s.queue # <<>>
      \/ (s.ends # "finished" /\ WriterFinished(s.mode))

-----------------------------------------------------------------------------
(* The client of the main session.  A chunk of length None ends the body.  *)

MainUpgraded == \E i \in 1..Len(pipe.delivered) : pipe.delivered[i].h = "switch"

\* What the main session's response_duplex_vec reports: the end was written, or
\* the body is complete by its framing.
ResponseWritten(tasks) ==
    \/ \E i \in 1..Len(tasks) : tasks[i].k \in {"trailer", "done"}
    \/ \E i \in 1..Len(tasks) :
         /\ tasks[i].k = "header" /\ tasks[i].h = "final" /\ tasks[i].n # None
         /\ FoldSeq(LAMBDA t, n : IF t.k = "body" THEN n + t.n ELSE n, 0, tasks) >= tasks[i].n

\* is_body_done of the main session; the end of an upgraded response also ends
\* the reading of the client.
MainBodyDone ==
    \/ client.at = Len(x.chunks)
    \/ MainUpgraded /\ ResponseWritten(pipe.delivered)

\* The client sends the next chunk of its body, or after it a byte of its next
\* request.
ClientSends ==
    /\ ~client.left
    /\ client.sent < Len(x.chunks) + (IF x.early THEN 1 ELSE 0)
    /\ client' = [client EXCEPT !.sent = @ + 1]
    /\ UNCHANGED <<x, pipe, down, up, wants, perr, sub, sent, got>>

\* The client goes away: the connection closes or the stream is reset.
ClientLeaves ==
    /\ x.leaves /\ ~client.left
    /\ client' = [client EXCEPT !.left = TRUE]
    /\ UNCHANGED <<x, pipe, down, up, wants, perr, sub, sent, got>>

-----------------------------------------------------------------------------
(* The pipe.                                                               *)

\* SavedBody::save_body_bytes and set_body_complete as do_send_body_to_pipe
\* calls them.
SavedIsComplete(c) == c.complete /\ ~c.truncated

SaveBodyBytes(c, n) ==
    IF SavedIsComplete(c) \/ n = None THEN c
    ELSE IF c.length + n > x.limit THEN [c EXCEPT !.truncated = TRUE]
    ELSE [c EXCEPT !.length = @ + n, !.body = Append(@, n)]

Capture(n, end) ==
    IF x.input = "preset" THEN pipe.saved
    ELSE [SaveBodyBytes(pipe.saved, n) EXCEPT !.complete = @ \/ end]

\* do_send_body_to_pipe: one chunk into the channel; the caller holds the permit,
\* and the loop starts over.  An empty chunk within the body is not sent.
DoSendBodyToPipe(n, end) ==
    \/ /\ n = 0 /\ ~end
       /\ pipe' = [pipe EXCEPT !.pc = "top", !.preset = IF x.input = "preset" THEN @ + 1 ELSE @]
       /\ UNCHANGED down
    \/ /\ n # 0 \/ end
       /\ down' = [down EXCEPT !.q = Append(@, [n |-> n, end |-> end \/ n = None])]
       /\ pipe' = [pipe EXCEPT !.pc = "top", !.saved = Capture(n, end \/ n = None),
                               !.down = IF end \/ n = None THEN "done" ELSE @,
                               !.retained = FALSE,
                               !.preset = IF x.input = "preset" THEN @ + 1 ELSE @,
                               !.resp = @ \/ (n = None /\ x.upgrade /\ x.input = "save")]

\* The pipe returns; its sender is dropped, the response receiver is handed to
\* the caller in the state it returns.
PipeReturns(result) ==
    /\ pipe' = [pipe EXCEPT !.pc = "ended", !.result = result]
    /\ down' = [down EXCEPT !.tx = FALSE]

\* send_body_to_pipe: a module's request_body_filter comes first, and may fail.
SendBodyToPipe(n, end) ==
    DoSendBodyToPipe(n, end) \/ (x.filterFails /\ PipeReturns("down"))

\* Leaving the loop: an error published in the same poll that closed the output
\* channel is taken up before success is reported.
Conclude == PipeReturns(IF perr = "sent" THEN "sub" ELSE "ok")

Watching(forward) ==
    pipe.may /\ ~forward /\ ~pipe.resp /\ (x.h2 \/ MainBodyDone)

\* The head of the loop: the permit and the branch conditions of this iteration.
PipeTop ==
    /\ pipe.pc = "top"
    /\ LET permit  == IF ~down.rx THEN "closed"
                      ELSE IF Len(down.q) < CHANNEL_BUFFER_SIZE THEN "ok" ELSE "full"
           forward == pipe.wants /\ x.input # "preset" /\ permit = "ok"
           watch   == Watching(forward)
           some    == \/ ~pipe.resp \/ ~(pipe.wants \/ pipe.wantsErr) \/ ~pipe.perrErr
                      \/ pipe.down = "reading" /\ permit # "ok"
                      \/ forward \/ watch
                      \/ pipe.wants /\ pipe.down = "reading"
       IN  IF (pipe.down = "done" /\ pipe.resp) \/ ~some
             THEN Conclude
             ELSE /\ pipe' = [pipe EXCEPT !.pc = "select", !.permit = permit,
                                          !.forward = forward, !.watch = watch]
                  /\ UNCHANGED down
    /\ UNCHANGED <<x, client, up, wants, perr, sub, sent, got>>

\* Response tasks, as many as are there, written to the main session.  The write
\* fails when the client is gone, and the task_filter may fail.
PipeReceives ==
    /\ pipe.pc = "select" /\ ~pipe.resp /\ up.q # <<>>
    /\ LET delivered == pipe.delivered \o up.q
           forced    == \E i \in 1..Len(delivered) : delivered[i].h = "switch"
       IN  \/ /\ pipe' = [pipe EXCEPT !.pc = "top", !.delivered = delivered,
                            !.resp = ResponseWritten(delivered),
                            !.down = IF /\ x.input # "preset" /\ ~pipe.retained
                                        /\ \/ client.at = Len(x.chunks)
                                           \/ forced /\ ResponseWritten(delivered)
                                       THEN "done" ELSE @]
              /\ up' = [up EXCEPT !.q = <<>>] /\ UNCHANGED down
           \/ client.left /\ PipeReturns("down") /\ up' = [up EXCEPT !.q = <<>>]
           \/ x.filterFails /\ PipeReturns("down") /\ up' = [up EXCEPT !.q = Tail(@)]
    /\ UNCHANGED <<x, client, wants, perr, sub, sent, got>>

\* The output channel closed.
PipeClosed ==
    /\ pipe.pc = "select" /\ ~pipe.resp /\ up.q = <<>> /\ ~up.tx
    /\ pipe' = [pipe EXCEPT !.pc = "top", !.resp = TRUE, !.broke = TRUE]
    /\ UNCHANGED <<x, client, down, up, wants, perr, sub, sent, got>>

\* The subrequest asks for the body, or will never ask.
PipeWants ==
    /\ pipe.pc = "select" /\ ~pipe.wants /\ ~pipe.wantsErr /\ wants # "armed"
    /\ pipe' = [pipe EXCEPT !.pc = "top", !.wants = wants = "sent",
                            !.wantsErr = wants = "dropped"]
    /\ UNCHANGED <<x, client, down, up, wants, perr, sub, sent, got>>

\* The subrequest failed, or ended without an error.
PipeProxyError ==
    /\ pipe.pc = "select" /\ ~pipe.perrErr /\ perr # "armed"
    /\ IF perr = "sent" THEN PipeReturns("sub")
       ELSE pipe' = [pipe EXCEPT !.pc = "top", !.perrErr = TRUE] /\ UNCHANGED down
    /\ UNCHANGED <<x, client, up, wants, perr, sub, sent, got>>

\* Without a permit: wait for capacity, or find that the subrequest is gone.
PipeReserves ==
    /\ pipe.pc = "select" /\ pipe.down = "reading" /\ pipe.permit # "ok"
    /\ ~down.rx \/ Len(down.q) < CHANNEL_BUFFER_SIZE
    /\ pipe' = [pipe EXCEPT !.pc = "top", !.down = IF down.rx THEN @ ELSE "done"]
    /\ UNCHANGED <<x, client, down, up, wants, perr, sub, sent, got>>

\* The body that early buffering kept.
PipeRetained ==
    /\ pipe.pc = "select" /\ pipe.forward /\ pipe.retained /\ pipe.down = "reading"
    /\ SendBodyToPipe(Total(x.chunks), TRUE)
    /\ UNCHANGED <<x, client, up, wants, perr, sub, sent, got>>

\* The next chunk of a preset body; after the last one, its end.
PipePreset ==
    /\ pipe.pc = "select" /\ pipe.wants /\ x.input = "preset"
    /\ pipe.down = "reading" /\ pipe.permit = "ok"
    /\ DoSendBodyToPipe(IF pipe.preset < Len(x.preset) THEN x.preset[pipe.preset + 1]
                        ELSE None, pipe.preset = Len(x.preset))
    /\ UNCHANGED <<x, client, up, wants, perr, sub, sent, got>>

ReadsClient == pipe.pc = "select" /\ ((pipe.forward /\ ~pipe.retained) \/ pipe.watch)

\* read_body_or_idle is an idle wait when it watches, when the pipe is done with
\* the body, and when the body is complete.
IdleRead == pipe.watch \/ pipe.down = "done" \/ MainBodyDone

\* A chunk of the main session's body, forwarded.
PipeForwards ==
    /\ ReadsClient /\ ~IdleRead /\ client.at < client.sent
    /\ SendBodyToPipe(x.chunks[client.at + 1], client.at + 1 = Len(x.chunks))
    /\ client' = [client EXCEPT !.at = @ + 1]
    /\ UNCHANGED <<x, up, wants, perr, sub, sent, got>>

\* A read that fails: the client left before the end of its body, left while the
\* read was idle, or sent bytes of its next request.
PipeReadFails ==
    /\ ReadsClient
    /\ \/ client.left /\ (client.at = client.sent \/ (x.h2 /\ IdleRead))
       \/ IdleRead /\ ~x.h2 /\ client.at < client.sent
    /\ PipeReturns("down")
    /\ UNCHANGED <<x, client, up, wants, perr, sub, sent, got>>

\* The caller keeps the receiver and drains it, or drops it.
CallerDrains ==
    /\ pipe.pc = "ended" /\ x.drains /\ up.q # <<>>
    /\ up' = [up EXCEPT !.q = <<>>]
    /\ UNCHANGED <<x, client, pipe, down, wants, perr, sub, sent, got>>

CallerDrops ==
    /\ pipe.pc = "ended" /\ ~x.drains /\ up.rx
    /\ up' = [up EXCEPT !.rx = FALSE, !.q = <<>>]
    /\ UNCHANGED <<x, client, pipe, down, wants, perr, sub, sent, got>>

-----------------------------------------------------------------------------
(* The subrequest.                                                         *)

\* fail_to_proxy answers with an error response if no final header is out; the
\* error is published after it.
ErrorResponse(s) ==
    [s EXCEPT !.pc = "failing",
              !.todo = IF HeaderSent(s) THEN <<>> ELSE <<Header("final", 0, FALSE), Done>>]

\* One write of the session, which leads to `done': it waits for a slot if it has
\* a task to send, and fails if nobody receives.
Commits(r, done) ==
    \/ /\ ~r.ok
       /\ sub' = ErrorResponse(r.s)
       /\ UNCHANGED <<up, sent>>
    \/ /\ r.ok /\ r.out # <<>> /\ ~up.rx
       /\ sub' = IF sub.pc = "run" THEN ErrorResponse(sub) ELSE [sub EXCEPT !.todo = <<>>]
       /\ UNCHANGED <<up, sent>>
    \/ /\ r.ok
       /\ r.out = <<>> \/ (up.rx /\ Len(up.q) < CHANNEL_BUFFER_SIZE)
       /\ sub' = done
       /\ up' = [up EXCEPT !.q = @ \o r.out]
       /\ sent' = sent \o r.out

\* The next task of the response arrives in the subrequest's proxy loop: queued,
\* or written at once with the blocking calls.
SubUpstream ==
    /\ sub.pc = "run" /\ sub.todo = <<>> /\ sub.at < Len(x.script)
    /\ LET t == x.script[sub.at + 1]
           s == [sub EXCEPT !.at = @ + 1]
       IN  IF x.tasks
             THEN /\ Len(sub.queue) < MaxQueued
                  /\ sub' = [s EXCEPT !.queue = Append(@, t)]
             ELSE sub' = IF t.k = "failed" THEN ErrorResponse(s)
                         ELSE [s EXCEPT !.todo = ResponseDuplex(t)]
    /\ UNCHANGED <<x, client, pipe, down, up, wants, perr, sent, got>>

SubWrites ==
    /\ sub.todo # <<>>
    /\ LET r == WriteOne(sub, Head(sub.todo)) IN Commits(r, [r.s EXCEPT !.todo = Tail(@)])
    /\ UNCHANGED <<x, client, pipe, down, wants, perr, got>>

SubWritesTask ==
    /\ sub.pc = "run" /\ x.tasks /\ HasPendingProxyTasks(sub)
    /\ LET r == WriteProxyTask(sub) IN Commits(r, r.s)
    /\ UNCHANGED <<x, client, pipe, down, wants, perr, got>>

Polls == sub.pc = "run" /\ sub.todo = <<>> /\ x.reads

\* The first poll of a body read says that the body is wanted.
SubWants ==
    /\ Polls /\ wants = "armed" /\ ~BodyDone(InitBodyReader(sub))
    /\ wants' = "sent"
    /\ sub' = [sub EXCEPT !.reader = InitBodyReader(sub)]
    /\ UNCHANGED <<x, client, pipe, down, up, perr, sent, got>>

\* A request body task, or the end of the channel.
SubReads ==
    /\ Polls /\ wants # "armed" /\ ~BodyDone(InitBodyReader(sub))
    /\ down.q # <<>> \/ ~down.tx
    /\ LET m == IF down.q = <<>> THEN [n |-> None, end |-> TRUE] ELSE Head(down.q)
           r == ReadBody(InitBodyReader(sub), m)
           s == [sub EXCEPT !.reader = r.r]
       IN  /\ sub' = IF r.ok THEN s ELSE ErrorResponse(s)
           /\ got' = IF r.n = None THEN got ELSE Append(got, r.n)
    /\ down' = [down EXCEPT !.q = IF @ = <<>> THEN @ ELSE Tail(@)]
    /\ UNCHANGED <<x, client, pipe, up, wants, perr, sent>>

\* idle(): empty and end tasks are skipped, any other is unexpected.  The wait
\* ends when the client drops the request sender or, if it watches the response
\* receiver, when that is dropped.
SubIdles ==
    /\ Polls /\ BodyDone(InitBodyReader(sub))
    /\ \/ /\ down.q # <<>>
          /\ sub' = IF Head(down.q).n \in {None, 0} THEN sub ELSE ErrorResponse(sub)
          /\ down' = [down EXCEPT !.q = Tail(@)]
       \/ /\ IF x.idleRx THEN ~up.rx ELSE down.q = <<>> /\ ~down.tx
          /\ sub' = [ErrorResponse(sub) EXCEPT !.gone = TRUE]
          /\ UNCHANGED down
    /\ UNCHANGED <<x, client, pipe, up, wants, perr, sent, got>>

\* A read or write timeout of the subrequest session while it waits.
SubTimesOut ==
    /\ x.timeout /\ sub.pc = "run"
    /\ \/ sub.todo # <<>> /\ Len(up.q) = CHANNEL_BUFFER_SIZE
       \/ Polls /\ wants # "armed" /\ down.q = <<>> /\ ~BodyDone(sub.reader)
    /\ sub' = ErrorResponse(sub)
    /\ UNCHANGED <<x, client, pipe, down, up, wants, perr, sent, got>>

\* The response is over: finish() sends what end is still missing.
SubFinishes ==
    /\ sub.pc = "run" /\ sub.todo = <<>> /\ sub.at = Len(x.script)
    /\ x.script # <<>> /\ Last(x.script).end
    /\ ~(x.tasks /\ HasPendingProxyTasks(sub))
    /\ sub' = [sub EXCEPT !.pc = "closing", !.todo = <<Done>>]
    /\ UNCHANGED <<x, client, pipe, down, up, wants, perr, sent, got>>

\* on_proxy_failure
SubPublishes ==
    /\ sub.pc = "failing" /\ sub.todo = <<>>
    /\ perr' = "sent"
    /\ sub' = [sub EXCEPT !.pc = "closing", !.failed = TRUE]
    /\ UNCHANGED <<x, client, pipe, down, up, wants, sent, got>>

\* A version that drops the oneshots before the channel ends.
SubDrops_ErrorFirst ==
    /\ \/ /\ sub.pc = "closing" /\ sub.todo = <<>>
          /\ wants' = IF wants = "armed" THEN "dropped" ELSE wants
          /\ perr' = IF perr = "armed" THEN "dropped" ELSE perr
          /\ sub' = [sub EXCEPT !.pc = "dropping"]
          /\ UNCHANGED <<up, down>>
       \/ /\ sub.pc = "dropping"
          /\ up' = [up EXCEPT !.tx = FALSE]
          /\ down' = [down EXCEPT !.rx = FALSE, !.q = <<>>]
          /\ sub' = [sub EXCEPT !.pc = "ended"]
          /\ UNCHANGED <<wants, perr>>
    /\ UNCHANGED <<x, client, pipe, sent, got>>

\* The session is dropped: the channel ends first, as they are its first fields,
\* then the oneshots.
SubDrops ==
    /\ \/ /\ sub.pc = "closing" /\ sub.todo = <<>>
          /\ up' = [up EXCEPT !.tx = FALSE]
          /\ down' = [down EXCEPT !.rx = FALSE, !.q = <<>>]
          /\ sub' = [sub EXCEPT !.pc = "dropping"]
          /\ UNCHANGED <<wants, perr>>
       \/ /\ sub.pc = "dropping"
          /\ wants' = IF wants = "armed" THEN "dropped" ELSE wants
          /\ perr' = IF perr = "armed" THEN "dropped" ELSE perr
          /\ sub' = [sub EXCEPT !.pc = "ended"]
          /\ UNCHANGED <<up, down>>
    /\ UNCHANGED <<x, client, pipe, sent, got>>

-----------------------------------------------------------------------------
Init ==
    /\ x \in Setups
    /\ LET noBody == CASE x.input = "preset" -> x.preset = <<>>
                       [] x.input = "retained" -> FALSE
                       [] OTHER -> x.chunks = <<>>
           read   == IF x.input = "retained" THEN Len(x.chunks) ELSE 0
       IN  /\ client = [sent |-> read, at |-> read, left |-> FALSE]
           /\ pipe = [pc |-> "top", down |-> IF noBody THEN "done" ELSE "reading",
                      noBody |-> noBody, resp |-> FALSE, wants |-> FALSE,
                      wantsErr |-> FALSE, perrErr |-> FALSE, may |-> x.watch,
                      retained |-> x.input = "retained", preset |-> 0,
                      permit |-> "ok", forward |-> FALSE, watch |-> FALSE,
                      delivered |-> <<>>, broke |-> FALSE, result |-> "none",
                      saved |-> [body |-> <<>>, length |-> 0, complete |-> FALSE,
                                 truncated |-> FALSE]]
    /\ down = [q |-> <<>>, tx |-> TRUE, rx |-> TRUE]
    /\ up = [q |-> <<>>, tx |-> TRUE, rx |-> TRUE]
    /\ wants = "armed" /\ perr = "armed"
    /\ sub = [pc |-> "run", at |-> 0, todo |-> <<>>, queue |-> <<>>, ends |-> "open",
              finishing |-> FALSE, resp |-> "none", upgraded |-> FALSE,
              mode |-> Mode("select", 0, 0), reader |-> Reader("start", 0, 0),
              failed |-> FALSE, gone |-> FALSE]
    /\ sent = <<>> /\ got = <<>>

PipeStep ==
    \/ PipeTop \/ PipeReceives \/ PipeClosed \/ PipeWants \/ PipeProxyError
    \/ PipeReserves \/ PipeRetained \/ PipePreset \/ PipeForwards \/ PipeReadFails

\* A proxy loop whose request and response are both over ends.
SubStep ==
    \/ SubUpstream \/ SubWrites \/ SubWritesTask \/ SubWants \/ SubReads \/ SubIdles
    \/ SubPublishes \/ SubDrops
    \/ BodyDone(InitBodyReader(sub)) /\ SubFinishes

Next ==
    \/ ClientSends \/ ClientLeaves \/ CallerDrains \/ CallerDrops
    \/ PipeTop \/ PipeReceives \/ PipeClosed \/ PipeWants \/ PipeProxyError
    \/ PipeReserves \/ PipeRetained \/ PipePreset \/ PipeForwards \/ PipeReadFails
    \/ SubUpstream \/ SubWrites \/ SubWritesTask \/ SubWants \/ SubReads \/ SubIdles
    \/ SubTimesOut \/ SubFinishes \/ SubPublishes \/ SubDrops

Spec == Init /\ [][Next]_vars

\* Both tasks are scheduled; nothing is assumed of the client.
FairSpec == Spec /\ WF_vars(PipeStep) /\ WF_vars(SubStep)

-----------------------------------------------------------------------------
(* Properties.                                                             *)

\* What the response tasks of a script look like on the channel: headers lose
\* their end, bodies are cut to the content length, one Done ends it.
WireBody(script) == SelectSeq(script, LAMBDA t : t.k \in {"body", "upgraded"} /\ t.n > 0)

\* A task queued for cancel-safe writing is sent exactly once and in order,
\* whatever reads or wake-ups interrupt the writes (write_proxy_tasks): a
\* subrequest that finished without an error has put its headers, its body and
\* one final Done on the channel.
ResponseWhole ==
    (sub.pc \in {"dropping", "ended"} /\ ~sub.failed /\ up.rx) =>
        /\ [i \in 1..Len(WireBody(x.script)) |-> WireBody(x.script)[i].n] =
             LET b == WireBody(sent) IN [i \in 1..Len(b) |-> b[i].n]
        /\ Last(sent) = Done
        /\ Cardinality({i \in 1..Len(sent) : sent[i] = Done}) = 1

\* pipe_subrequest does not report success for a response that broke off: when
\* the output channel closed before the response was over, an error that the
\* subrequest published is returned.
BreakReported ==
    (pipe.result = "ok" /\ pipe.broke) => ~sub.failed

\* The chunks of the request body that hold bytes, as the pipe is given them.
NonEmpty(chunks) == SelectSeq(chunks, LAMBDA n : n > 0)

Source ==
    CASE x.input = "preset"   -> NonEmpty(x.preset)
      [] x.input = "retained" -> <<Total(x.chunks)>>
      [] OTHER                -> NonEmpty(x.chunks)

\* The subrequest reads the request body in order and without gaps.  One that
\* came to the end of the body has read all of it, unless the pipe has failed: an
\* upload cut short is never taken for a whole one without an error.  This is
\* said of requests that declare how their body ends.
RequestWhole ==
    /\ IsPrefix(NonEmpty(got), Source)
    /\ /\ InitBodyReader(sub).st = "complete" /\ ~sub.upgraded
       /\ x.cl # None \/ x.chunked
       /\ pipe.result \in {"none", "ok"}
       => NonEmpty(got) = Source

\* A saved body that reports itself complete is the whole body of the client,
\* chunk by chunk as it was sent to the subrequest.
SavedWhole == SavedIsComplete(pipe.saved) => NonEmpty(pipe.saved.body) = Source

\* What goes through the pipe in either direction is whole or reported.
PipedWhole == ResponseWhole /\ BreakReported /\ RequestWhole /\ SavedWhole

\* Every upload reaches the subrequest.  TLC refutes this: an HTTP/2 request body
\* of unknown length has no header that announces it, so the HTTP/1 session of
\* the subrequest takes the request to have no body and never asks for it.
EveryUploadPiped ==
    (/\ sub.pc = "ended" /\ ~sub.failed /\ ~sub.upgraded
     /\ InitBodyReader(sub).st = "complete" /\ pipe.result \in {"none", "ok"}) =>
        NonEmpty(got) = Source

\* The pipe returns once the subrequest is gone, even if the client neither sends
\* the rest of its body nor leaves.
PipeReturnsAtEnd == (sub.pc = "ended") ~> (pipe.pc = "ended")

\* With handles_downstream_abandonment a client that leaves ends the pipe though
\* the subrequest never answers: at once for HTTP/2, after the request body for
\* HTTP/1.
AbandonmentNoticed ==
    (x.watch /\ client.left /\ (x.h2 \/ MainBodyDone)) ~> (pipe.pc = "ended")
=============================================================================
