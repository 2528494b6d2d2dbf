---------------------------- MODULE ProxyRequest ----------------------------
(* process_request() and proxy_to_upstream(): the phases of a request without *)
(* caching, its attempts and the retry policy, and the connections that the   *)
(* HTTP connector keeps and hands out again. What happens within an attempt   *)
(* is in ProxyDuplex, ProxyH2 and ProxyCustom; the pools themselves are in     *)
(* ConnectionPool and H2Connector. Here an attempt is where it can fail, with *)
(* the retry its error carries, and a pool is a flag of a connection.          *)
EXTENDS Integers, Sequences

CONSTANTS
    Requests,    \* requests to one peer
    Conns,       \* connections that can be made to it
    MaxStreams,  \* max_h2_streams
    Setups,      \* see Setup
    None

Protocols == {"h1", "h2", "custom"}

(* The peer's ALPN, what the origin negotiates, whether it asks for HTTP/1.1  *)
(* on HTTP/2 streams, max_retries, and of the requests: idempotent methods,    *)
(* bodies larger than the retry buffer, and those buffered before the filters. *)
Setup == [alpn : {"h1", "h2h1", "h2", "custom"}, speaks : SUBSET Protocols,
          downgrades : BOOLEAN, retries : Nat, idempotent : SUBSET Requests, big : SUBSET Requests,
          buffered : SUBSET Requests]

\* What the constants are taken to be.
ConstantsOK ==
    /\ MaxStreams \in Nat \ {0}
    /\ Setups \subseteq Setup
    /\ None \notin Requests \cup Conns

VARIABLES
    setup,
    req,      \* the requests
    conn,     \* the connections
    preferH1  \* PreferredHttpVersion has the peer

vars == <<setup, req, conn, preferH1>>

NoError == [retry |-> "none", source |-> "none", downgrade |-> FALSE]
Error(source, retry) == [retry |-> retry, source |-> source, downgrade |-> FALSE]

(* wrote: the attempts that wrote to the client, sent: those that wrote the   *)
(* request upstream, torn: one of these began with the body's start no longer *)
(* at hand; answers: whose answers the client was given.                       *)
NewRequest == [pc |-> "start", retries |-> 0, conn |-> None, reused |-> FALSE,
               error |-> NoError, keep |-> FALSE, truncated |-> FALSE, client |-> "none",
               wrote |-> {}, sent |-> {}, torn |-> FALSE, answers |-> {}, reuse |-> FALSE]

(* waiting: the requests written to a connection that it has yet to answer;   *)
(* for HTTP/2, its streams.                                                    *)
FreeConn == [proto |-> "none", open |-> FALSE, pooled |-> FALSE, waiting |-> <<>>]

Init ==
    /\ setup \in Setups
    /\ req = [r \in Requests |-> NewRequest]
    /\ conn = [c \in Conns |-> FreeConn]
    /\ preferH1 = FALSE

At(r, pc) == req[r].pc = pc
Goto(r, pc) == req' = [req EXCEPT ![r].pc = pc]
Of(r) == conn[req[r].conn]

(* logging() runs, then the client's connection is kept for the next request  *)
(* or not; finish() and the ends of handle_error() and of request_filter().   *)
Finish(q, keep) == [q EXCEPT !.pc = "end", !.reuse = keep]

(* fail_to_proxy(): an error response, unless the client is gone or has the   *)
(* header of a response already: write_response_header() ignores another one. *)
FailToProxy(q, e) ==
    IF e.source = "gone" \/ q.client # "none" THEN q ELSE [q EXCEPT !.client = "error"]

-----------------------------------------------------------------------------
(* The phases before the upstream.                                             *)

(* early_request_filter(), buffer_request_body_early(), the modules'          *)
(* request_header_filter() and request_filter() let the request pass, as does *)
(* proxy_upstream_filter().                                                    *)
FiltersPass(r) == At(r, "start") /\ Goto(r, "loop") /\ UNCHANGED <<setup, conn, preferH1>>

(* One of them fails, a body above the limit or a client too slow to send it  *)
(* included: handle_error(). fail_to_proxy() may let the connection be kept.   *)
FilterFails(r) ==
    /\ At(r, "start")
    /\ \E source \in {"gone", "in"}, keep \in BOOLEAN :
           LET e == Error(source, "no")
               q == FailToProxy([req[r] EXCEPT !.error = e], e)
           IN req' = [req EXCEPT ![r] = Finish(q, keep /\ q.client = "error")]
    /\ UNCHANGED <<setup, conn, preferH1>>

(* request_filter() wrote the response, or proxy_upstream_filter() declined   *)
(* and the response is its own or BAD_GATEWAY.                                 *)
Responds(r) ==
    /\ At(r, "start")
    /\ req' = [req EXCEPT ![r] = Finish([@ EXCEPT !.client = "error"], TRUE)]
    /\ UNCHANGED <<setup, conn, preferH1>>

-----------------------------------------------------------------------------
(* get_http_session().                                                         *)

(* The next attempt: upstream_peer(), then the pools in the order of the      *)
(* peer's ALPN.                                                                *)
StartAttempt(r) ==
    /\ At(r, "loop") /\ req[r].retries < setup.retries
    /\ req' = [req EXCEPT ![r].retries = @ + 1, ![r].error = NoError, ![r].keep = FALSE,
                          ![r].pc = CASE setup.alpn = "h1" -> "h1 pool"
                                      [] setup.alpn = "custom" -> "custom pool"
                                      [] OTHER -> "h2 pool"]
    /\ UNCHANGED <<setup, conn, preferH1>>

(* max_retries = 0: the loop of process_request() makes no attempt.            *)
NoAttempt(r) ==
    /\ At(r, "loop") /\ setup.retries = 0
    /\ req' = [req EXCEPT ![r] = Finish(@, FALSE)]
    /\ UNCHANGED <<setup, conn, preferH1>>

(* upstream_peer() fails. *)
NoPeer(r) ==
    /\ At(r, "loop") /\ req[r].retries < setup.retries
    /\ req' = [req EXCEPT ![r].retries = @ + 1, ![r].keep = FALSE, ![r].pc = "decide",
                          ![r].error = Error("in", "no")]
    /\ UNCHANGED <<setup, conn, preferH1>>

Connected(r, c, reused) == req' = [req EXCEPT ![r].pc = "connected", ![r].conn = c,
                                              ![r].reused = reused]

InUse(c) == \E r \in Requests : req[r].conn = c
Usable(c, proto) == conn[c].proto = proto /\ conn[c].pooled

(* reused_http_session() of HTTP/2: a stream of a pooled connection, which    *)
(* stays in the pool while it has room.                                        *)
ReuseH2(r, c) ==
    /\ At(r, "h2 pool") /\ Usable(c, "h2") /\ conn[c].open
    /\ conn' = [conn EXCEPT ![c].pooled = Len(conn[c].waiting) + 1 < MaxStreams,
                            ![c].waiting = Append(@, r)]
    /\ Connected(r, c, TRUE)
    /\ UNCHANGED <<setup, preferH1>>

H2Only == setup.alpn = "h2" /\ ~preferH1

(* No connection for another stream, or the one taken turns out closed.       *)
NoH2(r) ==
    /\ At(r, "h2 pool")
    /\ ~\E c \in Conns : Usable(c, "h2") /\ conn[c].open
    /\ conn' = [c \in Conns |-> IF ~Usable(c, "h2") THEN conn[c]
                                ELSE IF InUse(c) THEN [conn[c] EXCEPT !.pooled = FALSE]
                                ELSE FreeConn]
    /\ Goto(r, IF H2Only THEN "connect" ELSE "h1 pool")
    /\ UNCHANGED <<setup, preferH1>>

(* reused_stream(): test_reusable_stream() saw neither an end nor data.        *)
ReuseH1(r, c) ==
    /\ At(r, "h1 pool") /\ Usable(c, "h1") /\ conn[c].open
    /\ conn' = [conn EXCEPT ![c].pooled = FALSE]
    /\ Connected(r, c, TRUE)
    /\ UNCHANGED <<setup, preferH1>>

(* Nothing pooled, or only a connection that the origin closed.                *)
NoH1(r) ==
    /\ At(r, "h1 pool")
    /\ \/ ~(\E c \in Conns : Usable(c, "h1")) /\ UNCHANGED conn
       \/ \E c \in Conns : Usable(c, "h1") /\ ~conn[c].open
                             /\ conn' = [conn EXCEPT ![c] = FreeConn]
    /\ Goto(r, "connect")
    /\ UNCHANGED <<setup, preferH1>>

(* The custom connector's own pool.                                            *)
ReuseCustom(r, c) ==
    /\ At(r, "custom pool") /\ Usable(c, "custom") /\ conn[c].open
    /\ conn' = [conn EXCEPT ![c].pooled = FALSE]
    /\ Connected(r, c, TRUE)
    /\ UNCHANGED <<setup, preferH1>>

NoCustom(r) ==
    /\ At(r, "custom pool")
    /\ ~\E c \in Conns : Usable(c, "custom") /\ conn[c].open
    /\ Goto(r, "h1 pool")
    /\ UNCHANGED <<setup, conn, preferH1>>

(* The protocol of a new connection: a preferred HTTP/1 is all that is        *)
(* offered, and an origin that negotiates nothing is taken for HTTP/1.         *)
Negotiated ==
    CASE setup.alpn = "h1" -> "h1"
      [] setup.alpn = "custom" -> IF "custom" \in setup.speaks THEN "custom" ELSE "h1"
      [] OTHER -> IF preferH1 \/ "h2" \notin setup.speaks THEN "h1" ELSE "h2"

(* new_stream() and, for HTTP/2, the handshake and the first stream.           *)
Connect(r, c) ==
    /\ At(r, "connect") /\ conn[c].proto = "none"
    /\ conn' = [conn EXCEPT ![c] = [proto |-> Negotiated, open |-> TRUE,
                    pooled |-> Negotiated = "h2" /\ 1 < MaxStreams,
                    waiting |-> IF Negotiated = "h2" THEN <<r>> ELSE <<>>]]
    /\ Connected(r, c, FALSE)
    /\ UNCHANGED <<setup, preferH1>>

(* The error of a failed connection is retried if fail_to_connect() says so.  *)
ConnectFails(r) ==
    /\ At(r, "connect")
    /\ \E retry \in {"yes", "no"} :
           req' = [req EXCEPT ![r].error = Error("up", retry), ![r].pc = "decide"]
    /\ UNCHANGED <<setup, conn, preferH1>>

-----------------------------------------------------------------------------
(* The attempt.                                                                *)

Fails(r, e) == req' = [req EXCEPT ![r].error = e, ![r].pc = "release"]

(* connected_to_upstream(), upstream_request_filter() or a check of the       *)
(* request fails: nothing was written.                                         *)
RequestRefused(r) ==
    /\ At(r, "connected")
    /\ Fails(r, Error("in", "no"))
    /\ UNCHANGED <<setup, conn, preferH1>>

(* write_request_header(), and with it what the retry buffer holds of the body.*)
WriteRequest(r) ==
    /\ At(r, "connected")
    /\ req' = [req EXCEPT ![r].pc = "sent", ![r].sent = @ \cup {req[r].retries},
                          ![r].torn = @ \/ req[r].truncated]
    /\ conn' = IF Of(r).proto = "h2" THEN conn
               ELSE [conn EXCEPT ![req[r].conn].waiting = Append(@, r)]
    /\ UNCHANGED <<setup, preferH1>>

(* The rest of the body is read as the attempt goes on, and kept for a retry  *)
(* while it fits the retry buffer (write_to_buffer()). An attempt that fails   *)
(* early may leave this to a later one.                                        *)
BodyOutgrowsBuffer(r) ==
    /\ req[r].pc \in {"sent", "body"} /\ r \in setup.big \ setup.buffered /\ ~req[r].truncated
    /\ req' = [req EXCEPT ![r].truncated = TRUE]
    /\ UNCHANGED <<setup, conn, preferH1>>

(* The connection is gone: the write fails, which no retry follows unless the *)
(* origin announced the end of an HTTP/2 connection (handle_err()).           *)
WriteFails(r) ==
    /\ At(r, "connected") /\ ~Of(r).open
    /\ \E retry \in (IF Of(r).proto = "h2" THEN {"no", "yes"} ELSE {"no"}) :
           Fails(r, Error("up", retry))
    /\ UNCHANGED <<setup, conn, preferH1>>

(* A response header arrives and is written to the client: on HTTP/1 and      *)
(* custom connections of the oldest request not answered yet.                  *)
HeaderArrives(r) ==
    LET of == IF Of(r).proto = "h2" THEN r ELSE Head(Of(r).waiting) IN
    /\ At(r, "sent") /\ Of(r).open
    /\ ~(setup.downgrades /\ Of(r).proto = "h2")
    /\ req' = [req EXCEPT ![r].pc = "body", ![r].client = "partial",
                          ![r].answers = @ \cup {of}, ![r].wrote = @ \cup {req[r].retries}]
    /\ conn' = IF Of(r).proto = "h2" THEN conn
               ELSE [conn EXCEPT ![req[r].conn].waiting = Tail(@)]
    /\ UNCHANGED <<setup, preferH1>>

(* read_response() of HTTP/1 at an end or an I/O error, and of HTTP/2 at an   *)
(* I/O error: retried if the connection was reused.                            *)
ReadHeaderClosed(r) ==
    /\ At(r, "sent") /\ ~Of(r).open /\ Of(r).proto # "custom"
    /\ Fails(r, Error("up", "reused only"))
    /\ UNCHANGED <<setup, conn, preferH1>>

(* A timeout, a header that does not parse, any error of a custom session.    *)
ReadHeaderFails(r) ==
    /\ At(r, "sent")
    /\ Fails(r, Error("up", "no"))
    /\ UNCHANGED <<setup, conn, preferH1>>

(* handle_read_header_error(): REFUSED_STREAM, or GOAWAY(NO_ERROR) for        *)
(* streams above its last one.                                                 *)
StreamRefused(r) ==
    /\ At(r, "sent") /\ Of(r).proto = "h2"
    /\ Fails(r, Error("up", "yes"))
    /\ UNCHANGED <<setup, conn, preferH1>>

(* handle_read_header_error(): HTTP_1_1_REQUIRED, an H2Downgrade.              *)
Downgrade(r) ==
    /\ At(r, "sent") /\ Of(r).proto = "h2" /\ setup.downgrades
    /\ Fails(r, [Error("up", "yes") EXCEPT !.downgrade = TRUE])
    /\ UNCHANGED <<setup, conn, preferH1>>

(* The response ends; both sides say whether their connection may be kept.     *)
BodyEnds(r) ==
    /\ At(r, "body") /\ Of(r).open
    /\ \E keep, reuse \in BOOLEAN :
           req' = [req EXCEPT ![r].pc = "release", ![r].client = "whole", ![r].keep = keep,
                              ![r].reuse = reuse]
    /\ UNCHANGED <<setup, conn, preferH1>>

\* Mutant: a failed body is retried like a failed connect.
BodyFails_Retried(r) ==
    /\ At(r, "body")
    /\ Fails(r, Error("up", "reused only"))
    /\ UNCHANGED <<setup, conn, preferH1>>

(* The body ends early, times out or is not valid.                             *)
BodyFails(r) ==
    /\ At(r, "body")
    /\ Fails(r, Error("up", "no"))
    /\ UNCHANGED <<setup, conn, preferH1>>

(* The client's side of the attempt fails.                                     *)
DownstreamFails(r) ==
    /\ req[r].pc \in {"sent", "body"}
    /\ Fails(r, Error("gone", "no"))
    /\ UNCHANGED <<setup, conn, preferH1>>

-----------------------------------------------------------------------------
(* After the attempt.                                                          *)

\* Mutant: whether the retry buffer still holds the body is not asked.
ErrorWhileProxy_Outgrown(r, e) ==
    IF r \notin setup.idempotent THEN [e EXCEPT !.retry = "no"]
    ELSE IF e.retry = "reused only" THEN [e EXCEPT !.retry = IF req[r].reused THEN "yes" ELSE "no"]
    ELSE e

(* error_while_proxy(), the default policy.                                    *)
ErrorWhileProxy(r, e) ==
    IF r \notin setup.idempotent \/ req[r].truncated THEN [e EXCEPT !.retry = "no"]
    ELSE IF e.retry = "reused only" THEN [e EXCEPT !.retry = IF req[r].reused THEN "yes" ELSE "no"]
    ELSE e

Decides(r, e) ==
    req' = [req EXCEPT ![r].pc = "decide", ![r].conn = None, ![r].keep = FALSE,
                       ![r].error = IF e = NoError THEN e ELSE ErrorWhileProxy(r, e)]

(* HTTP/1: given back only if both halves of the attempt say so; reuse() and  *)
(* release_stream() drop one that is closed or was not read to its end.        *)
ReleaseH1(r) ==
    LET c == req[r].conn IN
    /\ At(r, "release") /\ Of(r).proto = "h1"
    /\ conn' = [conn EXCEPT ![c] = IF req[r].keep /\ @.open THEN [@ EXCEPT !.pooled = TRUE]
                                   ELSE FreeConn]
    /\ Decides(r, req[r].error)
    /\ UNCHANGED <<setup, preferH1>>

Closed(streams, r) == SelectSeq(streams, LAMBDA x : x # r)

(* HTTP/2: the stream is given back whatever happened to it. An origin that   *)
(* asked for HTTP/1 is remembered, if the peer allows it. (Which connections   *)
(* are marked for shutdown is in H2Connector.)                                 *)
ReleaseH2(r) ==
    LET c == req[r].conn
        e == req[r].error
    IN /\ At(r, "release") /\ Of(r).proto = "h2"
       /\ conn' = [conn EXCEPT ![c] =
                     LET rest == Closed(@.waiting, r)
                     IN IF @.open THEN [@ EXCEPT !.waiting = rest, !.pooled = TRUE]
                        ELSE IF rest = <<>> /\ ~\E q \in Requests \ {r} : req[q].conn = c
                          THEN FreeConn
                        ELSE [@ EXCEPT !.waiting = rest, !.pooled = FALSE]]
       /\ preferH1' = (preferH1 \/ (e.downgrade /\ setup.alpn # "h2"))
       /\ Decides(r, IF e.downgrade /\ setup.alpn = "h2" THEN [e EXCEPT !.retry = "no"] ELSE e)
       /\ UNCHANGED setup

(* Custom: the connector decides by the session's state.                       *)
ReleaseCustom(r) ==
    LET c == req[r].conn IN
    /\ At(r, "release") /\ Of(r).proto = "custom"
    /\ conn' = [conn EXCEPT ![c] = IF @.open /\ r \notin {@.waiting[i] : i \in DOMAIN @.waiting}
                                        /\ req[r].keep
                                   THEN [@ EXCEPT !.pooled = TRUE] ELSE FreeConn]
    /\ Decides(r, req[r].error)
    /\ UNCHANGED <<setup, preferH1>>

(* The loop of process_request(): another attempt, or the end of the request. *)
Retry(r) ==
    /\ At(r, "decide") /\ req[r].error.retry = "yes" /\ req[r].retries < setup.retries
    /\ Goto(r, "loop")
    /\ UNCHANGED <<setup, conn, preferH1>>

Succeeds(r) ==
    /\ At(r, "decide") /\ req[r].error = NoError
    /\ req' = [req EXCEPT ![r] = Finish(@, @.reuse)]
    /\ UNCHANGED <<setup, conn, preferH1>>

FailsToProxy(r) ==
    /\ At(r, "decide") /\ req[r].error # NoError
    /\ (req[r].error.retry = "yes" => req[r].retries = setup.retries)
    /\ req' = [req EXCEPT ![r] = Finish(FailToProxy(@, @.error), FALSE)]
    /\ UNCHANGED <<setup, conn, preferH1>>

-----------------------------------------------------------------------------
(* The origin closes a connection, at any time. One that is pooled and idle   *)
(* leaves the pool when its watcher sees it.                                   *)
OriginCloses(c) ==
    /\ conn[c].open
    /\ conn' = [conn EXCEPT ![c].open = FALSE]
    /\ UNCHANGED <<setup, req, preferH1>>

PoolNotices(c) ==
    /\ conn[c].pooled /\ ~conn[c].open /\ ~InUse(c)
    /\ conn' = [conn EXCEPT ![c] = FreeConn]
    /\ UNCHANGED <<setup, req, preferH1>>

GetSession(r) ==
    \/ StartAttempt(r) \/ NoAttempt(r) \/ NoPeer(r) \/ NoH2(r) \/ NoH1(r) \/ NoCustom(r)
    \/ ConnectFails(r)
    \/ \E c \in Conns : ReuseH2(r, c) \/ ReuseH1(r, c) \/ ReuseCustom(r, c) \/ Connect(r, c)

Attempt(r) ==
    \/ RequestRefused(r) \/ WriteRequest(r) \/ WriteFails(r) \/ BodyOutgrowsBuffer(r)
    \/ HeaderArrives(r)
    \/ ReadHeaderClosed(r) \/ ReadHeaderFails(r) \/ StreamRefused(r) \/ Downgrade(r)
    \/ BodyEnds(r) \/ BodyFails(r) \/ DownstreamFails(r)

AfterAttempt(r) ==
    \/ ReleaseH1(r) \/ ReleaseH2(r) \/ ReleaseCustom(r)
    \/ Retry(r) \/ Succeeds(r) \/ FailsToProxy(r)

Ended == \A r \in Requests : At(r, "end")

Next ==
    \/ \E r \in Requests :
           \/ FiltersPass(r) \/ FilterFails(r) \/ Responds(r)
           \/ GetSession(r) \/ Attempt(r) \/ AfterAttempt(r)
    \/ \E c \in Conns : OriginCloses(c) \/ PoolNotices(c)
    \/ Ended /\ UNCHANGED vars

Spec == Init /\ [][Next]_vars

-----------------------------------------------------------------------------
(* State is of the declared kinds.                                             *)
TypeOK ==
    /\ setup \in Setups /\ preferH1 \in BOOLEAN
    /\ \A r \in Requests :
           /\ req[r].conn \in Conns \cup {None}
           /\ req[r].client \in {"none", "partial", "whole", "error"}
           /\ req[r].error.retry \in {"none", "no", "yes", "reused only"}

AtMostOne(attempts) == \A m, n \in attempts : m = n

(* error_while_proxy(): a request whose method is not idempotent is written   *)
(* upstream at most once, and none is written again once its body outgrew the *)
(* retry buffer, in whichever attempt that was: every attempt can send the     *)
(* body from its start. However connections are reused, and whatever the       *)
(* origin refuses.                                                              *)
ResentOnlyIfSafe ==
    \A r \in Requests :
        /\ r \notin setup.idempotent => AtMostOne(req[r].sent)
        /\ ~req[r].torn

(* What a client gets of a response comes from one attempt: none follows one  *)
(* whose response header reached the client. A connection kept for the next    *)
(* request has carried a whole response.                                        *)
OneResponse ==
    \A r \in Requests :
        /\ AtMostOne(req[r].wrote)
        /\ req[r].client = "whole" => req[r].wrote # {}
        /\ At(r, "end") /\ req[r].reuse => req[r].client \in {"whole", "error"}

(* The response a client gets is the one to its own request: no connection is *)
(* handed out with an answer to an earlier request still to come.              *)
OwnResponse == \A r \in Requests : req[r].answers \subseteq {r}

(* Both at once: whatever is retried and reused, a client gets one response,  *)
(* and it is its own.                                                           *)
ResponsesApart == OneResponse /\ OwnResponse

(* proxy_to_upstream(): once an origin asked for HTTP/1, "all following        *)
(* requests will use h1".                                                       *)
DowngradedUsesH1 ==
    [][\A r \in Requests :
          preferH1 /\ req[r].conn = None /\ req'[r].conn # None
             => conn'[req'[r].conn].proto = "h1"]_vars

(* Every request ends with a response or an error of some kind for the client,*)
(* or with the client gone.                                                     *)
EveryClientAnswered ==
    \A r \in Requests : At(r, "end") /\ req[r].client = "none" => req[r].error.source = "gone"
=============================================================================
