---------------------------- MODULE Http1Session ----------------------------
(***************************************************************************)
(* One downstream HTTP/1 connection and the requests it carries:           *)
(* HttpSession of pingora-core/src/protocols/http/v1/server.rs, the loop   *)
(* of apps/mod.rs that makes a new session of each reused connection, and  *)
(* the two applications that serve it, the proxy (pingora-proxy/src/lib.rs)*)
(* and HttpServer (apps/http_app.rs).  Request bodies are read by module   *)
(* BodyReader; what a read takes past the end of a request travels through *)
(* the reader's overread bytes and the persistent settings to the parser   *)
(* of the next session.                                                    *)
(*                                                                         *)
(* Request number i has the two-byte head <<"H", "i">>.  Response bodies   *)
(* are those of Http1Body; here a response is its head and its end.        *)
(***************************************************************************)
EXTENDS BodyReader

CONSTANT Connections

VARIABLES
    conn,      \* the connection: its requests and its settings
    wire,      \* the client's bytes the server has not read
    s,         \* the HttpSession of the current request
    seen,      \* the requests read so far: number, body bytes, body complete
    said,      \* the Connection header of each final response
    shutdown   \* whether the service is shutting down

vars == <<conn, wire, s, seen, said, shutdown>>

NoLimit == -1

Request ==
    [framing : {"none", "length", "chunked", "both"}, body : Seq(STRING),
     close : BOOLEAN, upgrade : BOOLEAN, damaged : BOOLEAN]

(***************************************************************************)
(* A connection.  eager: the client does not wait for the responses; fin:  *)
(* it closes its side when it has sent everything.  The others are the     *)
(* server's: the application, whether pipelining is on, the options        *)
(* close_on_response_before_downstream_finish and abort_on_close, the      *)
(* keepalive_request_limit, and whether responses end with the connection. *)
(***************************************************************************)
Connection ==
    [reqs : Seq(Request), tunnel : Seq(STRING), eager : BOOLEAN, fin : BOOLEAN,
     app : {"proxy", "server"}, pipelining : BOOLEAN, closeEarly : BOOLEAN,
     abortOnClose : BOOLEAN, limit : {NoLimit} \cup Nat, untilClose : BOOLEAN]

RequestId == <<"1", "2", "3">>

Encoded(q) ==
    CASE q.framing \in {"none", "length"} -> q.body
      [] q.framing \in {"chunked", "both"} /\ q.damaged ->
           SizeLine(Len(q.body), FALSE) \o q.body \o <<"z">>
      [] OTHER -> ChunkOf(q.body, FALSE) \o LAST_CHUNK

Segment(c, i) ==
    IF i > Len(c.reqs) THEN c.tunnel
    ELSE <<"H", RequestId[i]>> \o Encoded(c.reqs[i])

Stream(c) == FlattenSeq([i \in 1 .. Len(c.reqs) + 1 |-> Segment(c, i)])

\* How many bytes of the wire the client has sent: all of them, or up to the
\* end of the first request that has no response yet.
Sent ==
    LET due == IF s.upgraded THEN Len(conn.reqs) + 1
               ELSE Len(said) + (IF s.resp = "header" THEN 0 ELSE 1)
        later == FlattenSeq([i \in 1 .. Len(conn.reqs) + 1 |->
                               IF i > due THEN Segment(conn, i) ELSE <<>>])
    IN  IF conn.eager THEN Len(wire) ELSE Len(wire) - Len(later)

Closed == conn.fin /\ wire = <<>>

(***************************************************************************)
(* The session.  keepalive is the KeepaliveStatus; reuses is               *)
(* keepalive_reuses_remaining; prefix the pipelined prefix; stashed is     *)
(* pipelined_idle_bytes_stashed.                                           *)
(***************************************************************************)
NewSession(keepalive, reuses, prefix) ==
    [at |-> "head", buf |-> <<>>, prefix |-> prefix, preread |-> <<>>,
     rd |-> NewReader(FALSE), keepalive |-> keepalive, reuses |-> reuses,
     stashed |-> FALSE, half |-> FALSE, resp |-> "none", upgraded |-> FALSE]

Init ==
    /\ conn \in Connections
    /\ wire = Stream(conn)
    /\ shutdown \in BOOLEAN
    /\ s = NewSession(IF shutdown THEN "Off" ELSE "Timeout", conn.limit, <<>>)
    /\ seen = <<>> /\ said = <<>>

Req == conn.reqs[seen[Len(seen)].req]
Gone == s' = [s EXCEPT !.at = "gone"]
WillKeepalive(x) == x.keepalive # "Off" /\ x.reuses # 0

-----------------------------------------------------------------------------
(***************************************************************************)
(* read_request(): parse what is there, the pipelined prefix first and     *)
(* without touching the stream, and read more while the head is partial.   *)
(***************************************************************************)
\* The request is read: respect_keepalive(), the rule for a request framed
\* twice, and what the application then does to keepalive.
RespectKeepalive(q) ==
    LET asked == IF q.close \/ q.framing = "both" THEN "Off" ELSE "Infinite"
    IN  IF shutdown THEN "Off"
        ELSE IF conn.app = "server"
        THEN IF q.close THEN "Off" ELSE "Timeout"
        ELSE asked

\* A head that does not parse: a 400 that announces the close, or nothing,
\* and the connection is closed.
BadRequest ==
    /\ Gone
    /\ UNCHANGED <<seen, said>>

ParseRequest(bytes) ==
    IF bytes[1] # "H" THEN BadRequest
    ELSE IF Len(bytes) = 1
    THEN /\ s' = [s EXCEPT !.buf = bytes, !.prefix = <<>>]
         /\ UNCHANGED <<seen, said>>
    ELSE IF bytes[2] \notin {RequestId[i] : i \in DOMAIN conn.reqs} THEN BadRequest
    ELSE LET i == CHOOSE i \in DOMAIN conn.reqs : RequestId[i] = bytes[2]
         IN  /\ s' = [s EXCEPT !.at = "serve", !.buf = <<>>, !.prefix = <<>>,
                               !.preread = SubSeq(bytes, 3, Len(bytes)),
                               !.rd = NewReader(FALSE), !.stashed = FALSE,
                               !.resp = "none",
                               !.keepalive = RespectKeepalive(conn.reqs[i])]
             /\ seen' = Append(seen, [req |-> i, body |-> <<>>, whole |-> FALSE])
             /\ said' = said

ParsePrefix ==
    /\ s.at = "head" /\ s.prefix # <<>>
    /\ ParseRequest(s.prefix)
    /\ UNCHANGED <<conn, wire, shutdown>>

ReadRequest(k) ==
    /\ s.at = "head" /\ s.prefix = <<>> /\ k \in 1 .. Sent
    /\ ParseRequest(s.buf \o SubSeq(wire, 1, k))
    /\ wire' = SubSeq(wire, k + 1, Len(wire))
    /\ UNCHANGED <<conn, shutdown>>

\* The client closes, between requests or within a head; the keepalive or
\* read timeout passes; the service shuts down and stops the wait.
ReadRequestEnds ==
    /\ s.at = "head" /\ s.prefix = <<>>
    /\ Closed \/ s.keepalive # "Infinite" \/ (shutdown /\ conn.app = "proxy")
    /\ Gone
    /\ UNCHANGED <<conn, wire, seen, said, shutdown>>

-----------------------------------------------------------------------------
(***************************************************************************)
(* The request body: read_body_or_idle() while the request is proxied, the *)
(* application's own reads, and the drain of what is left.                 *)
(***************************************************************************)
\* init_body_reader(): on first use, from what the head's last read left.
InitBodyReader(x) ==
    IF ~NeedInit(x.rd) THEN x
    ELSE LET from == [x EXCEPT !.preread = <<>>]
         IN  CASE x.upgraded ->
                    [from EXCEPT !.rd = InitCloseDelimited(@, x.preread)]
               [] ~x.upgraded /\ Req.framing \in {"chunked", "both"} ->
                    [from EXCEPT !.rd = InitChunked(@, x.preread)]
               [] OTHER ->
                    [from EXCEPT !.rd = InitContentLength(@,
                       IF Req.framing = "none" THEN 0 ELSE Len(Req.body), x.preread)]

Ready == InitBodyReader(s)

\* One call of read_body() with these bytes from the stream.  An error ends
\* a proxied request and a drain; HttpServer's application may go on.
ReadsBody(in) ==
    \E c \in {Read(Ready.rd, in)} :
        /\ seen' = [seen EXCEPT ![Len(seen)] =
                      [@ EXCEPT !.body = @ \o c.out]]
        /\ s' = [Ready EXCEPT !.rd = c.rd,
                              !.at = IF c.res \in {"more", "end"}
                                        \/ (conn.app = "server" /\ @ = "serve")
                                     THEN @ ELSE "gone"]
        /\ UNCHANGED <<conn, said, shutdown>>

Reading == s.at \in {"serve", "drain"} /\ ~BodyDone(Ready.rd)

ReadBody(k) ==
    /\ Reading /\ Polls(Ready.rd) /\ k \in 1 .. Sent /\ k <= ReadSize(Ready.rd)
    /\ ReadsBody(SubSeq(wire, 1, k))
    /\ wire' = SubSeq(wire, k + 1, Len(wire))

ReadBodyBuffered ==
    /\ Reading /\ ~Polls(Ready.rd)
    /\ ReadsBody(<<>>)
    /\ wire' = wire

ReadBodyClosed ==
    /\ Reading /\ Polls(Ready.rd) /\ Closed
    /\ ReadsBody(<<>>)
    /\ wire' = wire

\* The body is done and the response is not: one byte is read to notice a
\* client that closes or goes on.  A byte is the start of the next request
\* if pipelining is on, and an error if not.
Idles ==
    /\ s.at = "serve" /\ conn.app = "proxy" /\ s.resp # "done"
    /\ BodyDone(Ready.rd)
    /\ ~s.half /\ ~(conn.pipelining /\ s.stashed)

IdleByte ==
    /\ Idles /\ Sent > 0
    /\ IF conn.pipelining
       THEN s' = [Ready EXCEPT !.rd = PushBodyOverread(@, <<wire[1]>>),
                               !.stashed = TRUE]
       ELSE Gone
    /\ wire' = Tail(wire)
    /\ UNCHANGED <<conn, seen, said, shutdown>>

IdleClosed ==
    /\ Idles /\ Closed
    /\ s' = [Ready EXCEPT !.half = TRUE, !.keepalive = "Off",
                          !.at = IF conn.abortOnClose THEN "gone" ELSE @]
    /\ UNCHANGED <<conn, wire, seen, said, shutdown>>

-----------------------------------------------------------------------------
(***************************************************************************)
(* The response.                                                           *)
(***************************************************************************)
\* prepare_response_header(): a response before the end of the request may
\* close the connection; the client is told; a 101 turns the rest of the
\* connection into the body; a close-delimited response is the last.
WriteResponseHeader ==
    LET x == Ready
        early == conn.closeEarly /\ ~BodyDone(x.rd)
        kept == [x EXCEPT !.keepalive = IF early THEN "Off" ELSE @]
        last == Req.upgrade \/ conn.untilClose
    IN  /\ s.at = "serve" /\ s.resp = "none"
        /\ said' = Append(said, IF Req.upgrade THEN "upgrade"
                                ELSE IF WillKeepalive(kept) THEN "keep-alive" ELSE "close")
        /\ s' = [kept EXCEPT !.resp = "header",
                             !.keepalive = IF last THEN "Off" ELSE @,
                             !.upgraded = Req.upgrade,
                             !.rd = IF Req.upgrade THEN ConvertToCloseDelimited(@) ELSE @]
        /\ UNCHANGED <<conn, wire, seen, shutdown>>

\* finish_body(): the end of a tunnel's response ends its request too.
FinishBody ==
    /\ s.at = "serve" /\ s.resp = "header"
    /\ s' = [s EXCEPT !.resp = "done",
                      !.rd = IF s.upgraded /\ ~BodyDone(@)
                             THEN InitContentLength(@, 0, @.over) ELSE @]
    /\ UNCHANGED <<conn, wire, seen, said, shutdown>>

\* The request fails: an upstream or downstream error, or the application
\* drops it.  The connection is not reused.
ServeFails ==
    /\ s.at = "serve"
    /\ Gone
    /\ UNCHANGED <<conn, wire, seen, said, shutdown>>

(***************************************************************************)
(* reuse(): after the response, close, or drain the request and hand the   *)
(* connection and the bytes read past the request to the next session.     *)
(***************************************************************************)
\* Mutant: the connection is kept whatever keepalive says.
Finish_IgnoresKeepalive ==
    /\ s.at = "serve" /\ s.resp = "done"
    /\ s' = [Ready EXCEPT !.at = "drain"]
    /\ UNCHANGED <<conn, wire, seen, said, shutdown>>

Finish ==
    /\ s.at = "serve" /\ s.resp = "done"
    /\ s' = [Ready EXCEPT !.at = IF WillKeepalive(s) THEN "drain" ELSE "gone"]
    /\ UNCHANGED <<conn, wire, seen, said, shutdown>>

DrainTimesOut ==
    /\ s.at = "drain" /\ ~BodyDone(s.rd)
    /\ Gone
    /\ UNCHANGED <<conn, wire, seen, said, shutdown>>

\* apply_to_session(): the settings taken before the drain, one reuse less.
Reuse ==
    /\ s.at = "drain" /\ BodyDone(s.rd)
    /\ IF s.rd.over # <<>> /\ ~conn.pipelining THEN Gone
       ELSE s' = NewSession(s.keepalive, IF s.reuses > 0 THEN s.reuses - 1 ELSE s.reuses,
                            s.rd.over)
    /\ seen' = [seen EXCEPT ![Len(seen)].whole = BodyComplete(s.rd)]
    /\ UNCHANGED <<conn, wire, said, shutdown>>

\* The service starts to shut down: http_cleanup().
Shutdown ==
    /\ ~shutdown /\ s.at # "gone"
    /\ shutdown' = TRUE
    /\ UNCHANGED <<conn, wire, s, seen, said>>

-----------------------------------------------------------------------------
Waits ==
    \/ s.at = "head" /\ s.prefix = <<>>
    \/ Reading /\ Polls(Ready.rd) /\ ~s.upgraded

Ended == s.at = "gone" \/ (Waits /\ Sent = 0)

Next ==
    \/ ParsePrefix \/ ReadRequestEnds
    \/ ReadBodyBuffered \/ ReadBodyClosed \/ IdleByte \/ IdleClosed
    \/ WriteResponseHeader \/ FinishBody \/ ServeFails
    \/ Finish \/ DrainTimesOut \/ Reuse \/ Shutdown
    \/ \E k \in 1 .. Len(wire) : ReadRequest(k) \/ ReadBody(k)
    \/ (Ended /\ UNCHANGED vars)

Spec == Init /\ [][Next]_vars

-----------------------------------------------------------------------------
\* The requests of a connection are read in the order in which they were
\* sent, each with its own body and with nothing of another's: no byte is
\* lost, repeated or taken for a request on the way through the overread
\* bytes, the pipelined prefix and the preread body.  A connection is reused
\* only past the whole body of the request before.
RequestsInOrder ==
    \A i \in DOMAIN seen :
        LET body == conn.reqs[i].body
        IN  /\ seen[i].req = i
            /\ IsPrefix(seen[i].body,
                        IF conn.reqs[i].upgrade THEN body \o conn.tunnel ELSE body)
            /\ i < Len(seen) => seen[i].body = body

\* A response that announces the end of the connection is its last: no
\* request is served after it.
CloseIsFinal == \A i \in DOMAIN said : i < Len(seen) => said[i] = "keep-alive"

\* A connection serves at most one request more than its reuse limit.
ServedWithinLimit == conn.limit # NoLimit => Len(seen) <= conn.limit + 1

\* The server waits on the stream, for a request or for the rest of its
\* body, only while the client still has something to send or every request
\* has its response: it never waits for a request it holds in a buffer.
NeverWaitsForBufferedRequest == Waits /\ Sent = 0 => Len(said) = Len(conn.reqs)

\* What a connection promises its client: every request it sent is served in turn,
\* once, until the connection is announced to end.
ServedInTurn ==
    RequestsInOrder /\ CloseIsFinal /\ ServedWithinLimit /\ NeverWaitsForBufferedRequest

\* apps/mod.rs: a connection is returned for reuse only in `a reusable state
\* i.e., no error or incomplete read or write headers or bodies'.
ReusedInReusableState == \A i \in DOMAIN seen : i < Len(seen) => seen[i].whole

\* server.rs: a request with both Transfer-Encoding and Content-Length
\* `requires us to disable keepalive'.
FramedTwiceIsLast ==
    \A i \in DOMAIN seen : i < Len(seen) => conn.reqs[seen[i].req].framing # "both"

\* apps/mod.rs: keepalive_request_limit is the `Maximum number of requests
\* that this connection will handle'.
KeepaliveRequestLimit == conn.limit # NoLimit => Len(seen) <= conn.limit

=============================================================================
