---------------------------- MODULE ProxyDuplex ----------------------------
(* One upstream attempt of an exchange: two futures of one try_join!, joined  *)
(* by bounded pipes of HttpTasks, with the cache serving or recording the     *)
(* response (ServeFromCache) and a client that may leave at any time. This    *)
(* module has the loop of the downstream half, which the three protocols      *)
(* share, and the HTTP/1 upstream half (proxy_1to1: proxy_handle_downstream   *)
(* and proxy_handle_upstream of proxy_h1.rs); ProxyH2 and ProxyCustom have    *)
(* the halves of proxy_h2.rs and proxy_custom.rs.                             *)
(*                                                                            *)
(* A task is named by what the loops tell apart: a header (Info for a 1xx,    *)
(* HeaderEnd without a body, NotModified for a 304 to a revalidation, 101 for *)
(* an upgrade), a chunk (Body, Last with the end flag, Up in an upgraded      *)
(* tunnel), an end without data (End, UpEnd, Trailer, Done) or Failed.        *)
EXTENDS Naturals, Sequences, SequencesExt

CONSTANTS
    Exchanges,   \* the exchanges considered, records described by Exchange
    Capacity     \* TASK_BUFFER_SIZE, the room of each pipe

VARIABLES
    ex,          \* the exchange
    up,          \* proxy_handle_upstream
    down,        \* proxy_handle_downstream
    client,      \* the downstream session
    origin,      \* the upstream session
    cache,       \* what the exchange needs of session.cache
    custom,      \* what only an attempt at a custom upstream has (ProxyCustom)
    toUp,        \* rx_downstream: request tasks for the upstream half
    toDown       \* rx_upstream: response tasks for the downstream half

vars == <<ex, up, down, client, origin, cache, custom, toUp, toDown>>

(* proto: the upstream's protocol; request, tunnel: chunks the client sends   *)
(* before and after an upgrade; body: where the request body is, still with   *)
(* the client, consumed by a filter that releases it, kept by the retry       *)
(* buffer (its first chunk) or lost past that buffer; response: chunks of the *)
(* origin's (or the cached) body; upgrade: the origin answers 101; cache:     *)
(* off, miss or stale; optin: the application handles abandonment; watcher:   *)
(* its writer offers a cancellation watcher; api: the cancel-safe proxy task  *)
(* API; short: the response written downstream has no body; chunked: framing  *)
(* of the request toward the origin; hold: filters hold the response header   *)
(* and withhold the body until its end; retried: an attempt made after the    *)
(* downstream was abandoned; framed: the response's Content-Length ends it    *)
(* downstream; echo: the origin takes a chunk of the request only after the   *)
(* response to the one before it was read; messages: directions in which a    *)
(* custom session has a message to forward.                                   *)
Exchange == [proto : {"h1", "h2", "custom"}, framed : BOOLEAN, echo : BOOLEAN,
             body : {"client", "consumed", "kept", "lost"}, request : Nat, tunnel : Nat,
             response : Nat, upgrade : BOOLEAN, cache : {"off", "miss", "stale"},
             optin : BOOLEAN, watcher : BOOLEAN, api : BOOLEAN, short : BOOLEAN,
             chunked : BOOLEAN, hold : BOOLEAN, retried : BOOLEAN,
             messages : SUBSET {"up", "down"}]

ASSUME ExchangesAssumption == Exchanges \subseteq Exchange
ASSUME CapacityAssumption == Capacity \in Nat \ {0}

None == "None"

Tasks == {"Info", "Header", "HeaderEnd", "NotModified", "101", "Body", "Last", "End",
          "Up", "UpEnd", "Trailer", "Done", "Failed"}

(* HttpTask::is_end *)
IsEnd(t) == t \in {"HeaderEnd", "NotModified", "Last", "End", "UpEnd", "Trailer", "Done",
                  "Failed"}
IsHeader(t) == t \in {"Header", "HeaderEnd", "NotModified", "101"}   \* a final one
HasData(t) == t \in {"Body", "Last", "Up"}

(* The HTTP/1 producer stops at the first end, the others with Done or Failed.*)
EndsTaskStream(t) == IF ex.proto = "h1" THEN IsEnd(t) ELSE t \in {"Done", "Failed"}

Chunks(s) == Len(SelectSeq(s, HasData))

-----------------------------------------------------------------------------
(* ServeFromCache, DownstreamStateMachine and ResponseStateMachine           *)

IsOn(s) == s # "Off"
IsMiss(s) == s \in {"CacheHeaderMiss", "CacheBodyMiss", "DoneMiss"}
ShouldDiscardUpstream(s) == IsOn(s) /\ ~IsMiss(s)

Serving == {"Off", "CacheHeader", "CacheBody", "Done",
            "CacheHeaderMiss", "CacheBodyMiss", "DoneMiss"}

ShouldWriteResponse == ~cache.abandoned /\ ~IsOn(down.serve)

CanStillFillCache ==
    \/ down.serve = "Off" /\ cache.enabled
    \/ IsMiss(down.serve) /\ cache.admission = "active"

(* No fill is served back and caching is off: the rest has nowhere to go. *)
AbandonedBeforeAdmission(c, serve) == c.abandoned /\ ~IsMiss(serve) /\ ~c.enabled

CanPoll(d) == d.state # "Errored"
IsDone(d) == d.state # "Reading"
MaybeFinished(d, set) ==
    IF set /\ d.state # "Errored" THEN [d EXCEPT !.state = "ReadingFinished"] ELSE d

ResponseWorkDone ==
    IF cache.abandoned
    THEN down.produced /\ cache.admission # "active"
    ELSE down.delivered /\ down.cached

(* upload_response_complete: the producer's Done, or a response the client has *)
(* whole and no cache fill needs the rest of.                                  *)
UploadResponseComplete ==
    \/ custom.complete
    \/ ~cache.abandoned /\ cache.admission # "active" /\ client.complete /\ down.pending = <<>>

AwaitsUploadResponse == custom.error /\ ~custom.halfClosed /\ ~UploadResponseComplete

ShouldPollUpstream == IF cache.abandoned THEN ~down.produced ELSE ~down.delivered

-----------------------------------------------------------------------------
(* upstream_body_source: the chunks of the request body not read yet. *)
Unread(x) == CASE x.body = "client" -> x.request
               [] x.body = "kept" -> x.request - 1
               [] OTHER -> 0

ForProxyAttempt(x) ==
    IF x.retried THEN "Errored"
    ELSE IF Unread(x) = 0 THEN "ReadingFinished" ELSE "Reading"

(* open: filter channels the loop serves; cancelled, fwd: the message          *)
(* forwarders; error, failed, reads: upload_error, upload_failed and           *)
(* reads_since_upload_failure; complete: upstream_response_complete.           *)
NoUploadFailure(x) ==
    [open |-> x.messages, cancelled |-> {}, failedBy |-> None,
     fwd |-> [d \in {"up", "down"} |-> IF d \in x.messages THEN "wait" ELSE "ok"],
     left |-> [d \in {"up", "down"} |-> IF d \in x.messages THEN 1 ELSE 0],
     error |-> FALSE, failed |-> FALSE, reads |-> 0, halfClosed |-> FALSE, complete |-> FALSE]

Init ==
    /\ ex \in Exchanges
    /\ up = [pc |-> "loop", request_done |-> FALSE, response_done |-> FALSE,
             reuse |-> TRUE, upgraded |-> FALSE, task |-> None, next |-> "head"]
    /\ down = [pc |-> "start", state |-> ForProxyAttempt(ex), delivered |-> FALSE,
               produced |-> FALSE, cached |-> TRUE, serve |-> "Off", next |-> None,
               tasks |-> <<>>, batch |-> <<>>, pending |-> <<>>, withheld |-> <<>>,
               watch |-> "Unwatched", remaining |-> 0, reuse |-> FALSE, release |-> 0]
    /\ client = [left |-> Unread(ex), done |-> Unread(ex) = 0, gone |-> ex.retried,
                 upgraded |-> FALSE, header |-> FALSE, got |-> 0, complete |-> FALSE,
                 early |-> FALSE]
    /\ origin = [left |-> ex.response, header |-> FALSE, ended |-> FALSE,
                 got |-> 0, finished |-> ex.proto # "h1" /\ ex.request = 0]
    /\ cache = [enabled |-> ex.cache # "off", admission |-> "none", written |-> 0,
                read |-> 0, abandoned |-> ex.retried, cancelled |-> FALSE]
    /\ custom = NoUploadFailure(ex)
    /\ toUp = <<>>
    /\ toDown = <<>>

-----------------------------------------------------------------------------
(* The upstream half. Once it returned, both its pipe ends are dropped; the   *)
(* same holds of the downstream half. An error of the downstream half cancels *)
(* the upstream half.                                                         *)

UpEnded == up.pc = "ok"
DownEnded == down.pc = "ok"
UpRuns(pc) == up.pc = pc /\ down.pc # "err"

(* The loop's condition is read again after every event. *)
LoopOn(u) ==
    IF u.request_done /\ u.response_done
    THEN [u EXCEPT !.pc = "ok"] ELSE [u EXCEPT !.pc = "loop"]

(* What follows tx.send(t), and what a closed pipe makes of it: an expected   *)
(* closure after the whole response lets the request side finish.             *)
AfterSend(t, u) ==
    IF t = "Failed" THEN [u EXCEPT !.pc = "ok", !.reuse = FALSE] ELSE LoopOn(u)

\* Mutant: a closed pipe leaves the connection reusable.
PipeClosed_KeepsReuse(t, u) ==
    IF t = "Failed" \/ (~u.upgraded /\ ~u.response_done)
    THEN [u EXCEPT !.pc = "ok"]
    ELSE LoopOn(u)

PipeClosed(t, u) ==
    IF t = "Failed" \/ (~u.upgraded /\ ~u.response_done)
    THEN [u EXCEPT !.pc = "ok", !.reuse = FALSE]
    ELSE LoopOn(u)

Send(t, u) ==
    \/ /\ DownEnded
       /\ up' = PipeClosed(t, u)
       /\ UNCHANGED toDown
    \/ /\ ~DownEnded
       /\ Len(toDown) < Capacity
       /\ toDown' = Append(toDown, t)
       /\ up' = AfterSend(t, u)
    \/ /\ ~DownEnded
       /\ Len(toDown) = Capacity
       /\ up' = [u EXCEPT !.pc = "send", !.task = t]
       /\ UNCHANGED toDown

(* What read_response_task can yield next. *)
NextResponseTasks ==
    IF ~origin.header
    THEN IF ex.upgrade THEN {"101"}
         ELSE IF ex.response = 0 THEN {"HeaderEnd"}
         ELSE IF ex.cache = "stale" THEN {"Header", "NotModified"} ELSE {"Header"}
    ELSE IF up.upgraded THEN IF origin.left > 0 THEN {"Up"} ELSE {"UpEnd"}
    ELSE IF origin.left = 0 THEN {"End"}
    ELSE IF origin.left = 1 THEN {"Body", "Last"} ELSE {"Body"}

ReadResponseTask ==
    /\ ex.proto = "h1"
    /\ UpRuns("loop")
    /\ ~up.response_done
    /\ \E t \in NextResponseTasks :
          /\ origin' = [origin EXCEPT !.header = TRUE, !.ended = IsEnd(t),
                                      !.left = IF HasData(t) THEN @ - 1 ELSE @]
          /\ Send(t, [up EXCEPT !.response_done = IsEnd(t),
                                !.upgraded = @ \/ t = "101",
                                !.request_done = @ /\ ~(t = "101" /\ up.reuse)])
    /\ UNCHANGED <<ex, custom, down, client, cache, toUp>>

ReadResponseFails ==
    /\ ex.proto = "h1"
    /\ UpRuns("loop")
    /\ ~up.response_done
    /\ Send("Failed", up)
    /\ UNCHANGED <<ex, custom, down, client, origin, cache, toUp>>

SendResumes ==
    /\ ex.proto = "h1"
    /\ UpRuns("send")
    /\ DownEnded \/ Len(toDown) < Capacity
    /\ Send(up.task, up)
    /\ UNCHANGED <<ex, custom, down, client, origin, cache, toUp>>

(* rx.recv() yields None once the downstream half returned. *)
RecvBody ==
    /\ ex.proto = "h1"
    /\ UpRuns("loop")
    /\ ~up.request_done
    /\ \/ /\ toUp # <<>>
          /\ up' = [up EXCEPT !.pc = "write", !.task = Head(toUp)]
          /\ toUp' = Tail(toUp)
       \/ /\ toUp = <<>> /\ DownEnded
          /\ up' = [up EXCEPT !.pc = "write", !.task = None]
          /\ UNCHANGED toUp
    /\ UNCHANGED <<ex, custom, down, client, origin, cache, toDown>>

\* Mutant: every body end counts as the end of the tunnel.
PreUpgradeBodyEnd_Never(t) == FALSE

(* The end of a request body queued before the 101 ends the HTTP/1.1 request  *)
(* and not the tunnel.                                                        *)
PreUpgradeBodyEnd(t) == up.upgraded /\ t \in {"End", "Last"}

BodySent(t, done) ==
    LoopOn([up EXCEPT !.request_done = done /\ ~PreUpgradeBodyEnd(t),
                      !.response_done = @ \/ (done /\ ~PreUpgradeBodyEnd(t) /\ up.upgraded)])

(* send_body_to1 writes the data and, at the end, finishes the body by its    *)
(* framing: a Content-Length not reached yet is an error.                     *)
SendBodyTo1 ==
    LET t == up.task
        got == origin.got + Chunks(<<t>>)
        done == t = None \/ IsEnd(t)
        tunnel == up.upgraded /\ t \in {"Up", "UpEnd", None}
    IN  /\ UpRuns("write")
        /\ done => ex.chunked \/ tunnel \/ got >= ex.request
        /\ origin' = [origin EXCEPT !.got = got, !.finished = @ \/ done]
        /\ up' = BodySent(t, done)
        /\ UNCHANGED <<ex, custom, down, client, cache, toUp, toDown>>

(* The write or the framing fails: the response is still read. *)
SendBodyFails ==
    /\ UpRuns("write")
    /\ up' = LoopOn([up EXCEPT !.request_done = TRUE, !.reuse = FALSE])
    /\ UNCHANGED <<ex, custom, down, client, origin, cache, toUp, toDown>>

UpStep == ReadResponseTask \/ ReadResponseFails \/ SendResumes \/ RecvBody
             \/ SendBodyTo1 \/ SendBodyFails

-----------------------------------------------------------------------------
(* The downstream half.                                                       *)

(* try_reserve() fails on a full pipe and on one whose reader is gone. *)
Permit == ~UpEnded /\ Len(toUp) < Capacity

Running ==
    /\ down.pc = "loop"
    /\ ~IsDone(down) \/ ~ResponseWorkDone \/ AwaitsUploadResponse \/ custom.open # {}

(* An error returned by the half drops the cache writer with the request. *)
Fail(c) == /\ down' = [down EXCEPT !.pc = "err", !.tasks = <<>>, !.batch = <<>>]
           /\ cache' = [c EXCEPT !.admission = IF @ = "active" THEN "dropped" ELSE @]

(* Before the loop: the body the retry buffer kept, and the end of a body that *)
(* is empty or that a filter consumed and releases.                            *)
StartDownstream ==
    /\ ex.proto = "h1"
    /\ down.pc = "start"
    /\ toUp' = CASE ex.request = 0 -> <<"End">>
                 [] ex.body = "consumed" \/ (ex.body = "kept" /\ client.done) -> <<"Last">>
                 [] ex.body = "kept" -> <<"Body">>
                 [] OTHER -> <<>>
    /\ down' = [down EXCEPT !.pc = "loop"]
    /\ UNCHANGED <<ex, custom, up, client, origin, cache, toDown>>

(* Only the HTTP/1 loop needs a permit for what it reads; after a failed       *)
(* upload to a custom upstream a bounded amount is still read (custom.reads).  *)
ReadsAfterUploadFailure ==
    custom.reads < Capacity /\ ~down.produced /\ ~UploadResponseComplete

ReadGuard ==
    /\ CanPoll(down)
    /\ ex.proto = "h1" => Permit
    /\ custom.failed => ReadsAfterUploadFailure
ReserveGuard == ex.proto = "h1" /\ down.state = "Reading" /\ ~Permit
ReleaseGuard == down.release > 0
BufferedGuard == down.next # None
RecvGuard == (ShouldPollUpstream \/ AwaitsUploadResponse) /\ down.next = None
ServeGuard == ~down.cached /\ CanPoll(down) /\ IsOn(down.serve) /\ down.pending = <<>>
GateGuard == CanPoll(down) /\ down.pending # <<>> /\ down.next = None

(* read_body_or_idle while there is a body to read, then send_body_to_pipe.   *)
(* None from an upgraded client closes the tunnel.                            *)
NextBodyTasks ==
    IF client.upgraded THEN IF client.left > 0 THEN {"Up"} ELSE {"UpEnd"}
    ELSE IF client.left = 0 THEN {"End"}
    ELSE IF client.left = 1 THEN {"Body", "Last"} ELSE {"Body"}

ReadBody ==
    /\ ex.proto = "h1"
    /\ Running /\ ReadGuard
    /\ ~IsDone(down) /\ ~client.gone
    /\ \E t \in NextBodyTasks :
          /\ toUp' = Append(toUp, t)
          /\ client' = [client EXCEPT !.left = IF HasData(t) THEN @ - 1 ELSE @,
                                      !.done = IsEnd(t)]
          /\ down' = MaybeFinished([down EXCEPT !.delivered = @ \/ t = "UpEnd"], IsEnd(t))
    /\ UNCHANGED <<ex, custom, up, origin, cache, toDown>>

(* A downstream failure during a fill: marked errored and, for a request that *)
(* opted in, abandoned, which stops waiting for the cached delivery.          *)
(* The next iteration starts by stopping the custom messages to it.           *)
StopToDownstream(c) == [c EXCEPT !.open = @ \ {"down"}, !.cancelled = @ \cup {"down"}]

AbandonForCacheFill(d) ==
    LET abandons == ex.optin /\ CanStillFillCache /\ ~client.complete
    IN  /\ down' = [d EXCEPT !.state = "Errored", !.cached = @ \/ abandons]
        /\ cache' = [cache EXCEPT !.abandoned = @ \/ abandons]
        /\ custom' = IF abandons THEN StopToDownstream(custom) ELSE custom

WaitForCacheFill == (~IsOn(down.serve) /\ cache.enabled) \/ IsMiss(down.serve)

(* The client left, or the proxy rejects what a connected client sent (a read *)
(* timeout, a malformed body, bytes after the end).                           *)
ReadError(left) ==
    /\ Running /\ ReadGuard
    /\ client' = [client EXCEPT !.gone = @ \/ left, !.done = @ \/ left]
    /\ IF WaitForCacheFill \/ client.early
       THEN IF left THEN AbandonForCacheFill(down)
            ELSE down' = [down EXCEPT !.state = "Errored"] /\ UNCHANGED <<cache, custom>>
       ELSE Fail(cache) /\ UNCHANGED custom
    /\ UNCHANGED <<ex, up, origin, toUp, toDown>>

\* Mutant: the closed pipe is not noticed.
WaitForPermit_Ignored ==
    /\ Running /\ ReserveGuard
    /\ UpEnded
    /\ UNCHANGED vars

(* tx.reserve() on a closed pipe: the upstream finished its job. *)
WaitForPermit ==
    /\ Running /\ ReserveGuard
    /\ UpEnded
    /\ down' = MaybeFinished(down, TRUE)
    /\ UNCHANGED <<ex, custom, up, client, origin, cache, toUp, toDown>>

(* received_upstream_task: Done completes the response, and a failure is       *)
(* reported as the upload error there is.                                      *)
Received(s) == [custom EXCEPT !.complete = @ \/ (ex.proto = "custom" /\ "Done" \in Range(s)),
                              !.error = @ /\ "Failed" \notin Range(s)]

(* process_upstream_tasks: discard one task, or batch all that is queued. *)
Process(d, t, rest) ==
    IF ShouldDiscardUpstream(d.serve)
    THEN /\ down' = [d EXCEPT !.produced = @ \/ EndsTaskStream(t)]
         /\ toDown' = rest
         /\ custom' = Received(<<t>>)
    ELSE /\ down' = [d EXCEPT !.pc = "filter", !.tasks = <<t>> \o rest,
                        !.produced = @ \/ \E e \in Range(<<t>> \o rest) : EndsTaskStream(e)]
         /\ toDown' = <<>>
         /\ custom' = Received(<<t>> \o rest)

TakeBuffered ==
    /\ Running /\ BufferedGuard
    /\ Process([down EXCEPT !.next = None], down.next, toDown)
    /\ UNCHANGED <<ex, up, client, origin, cache, toUp>>

(* CacheFillCancellationState::start_watching, at the top of each iteration. *)
StartWatching ==
    CASE down.watch = "Unwatched" /\ cache.abandoned /\ cache.admission = "active" ->
            IF ex.watcher THEN "Watching" ELSE "Unsupported"
      [] down.watch \in {"Watching", "Draining"} /\ cache.admission # "active" -> "Settled"
      [] OTHER -> down.watch

(* recv_upstream: a cancellation seen before the wait bounds what is still    *)
(* handed over by the length of the queue at that moment.                     *)
Watched ==
    IF StartWatching = "Watching" /\ cache.cancelled
    THEN [down EXCEPT !.watch = "Draining", !.remaining = Len(toDown)]
    ELSE [down EXCEPT !.watch = StartWatching]

RecvUpstream ==
    /\ Running /\ RecvGuard
    /\ toDown # <<>>
    /\ Watched.watch = "Draining" => Watched.remaining > 0
    /\ Process(IF Watched.watch = "Draining" THEN [Watched EXCEPT !.remaining = @ - 1] ELSE Watched,
               Head(toDown), Tail(toDown))
    /\ UNCHANGED <<ex, up, client, origin, cache, toUp>>

FillCancelled ==
    /\ Running /\ RecvGuard
    /\ Watched.watch = "Draining"
    /\ Watched.remaining = 0 \/ toDown = <<>>
    /\ Fail(cache)
    /\ UNCHANGED <<ex, custom, up, client, origin, toUp, toDown>>

UpstreamClosed ==
    /\ Running /\ RecvGuard
    /\ toDown = <<>> /\ UpEnded /\ Watched.watch # "Draining"
    /\ IF cache.abandoned \/ (custom.error /\ ~UploadResponseComplete)
       THEN Fail(cache)
       ELSE down' = [down EXCEPT !.delivered = TRUE] /\ UNCHANGED cache
    /\ UNCHANGED <<ex, custom, up, client, origin, toUp, toDown>>

-----------------------------------------------------------------------------
(* The filters of one task of a batch.                                        *)

Filtering == down.pc = "filter" /\ down.tasks # <<>>

(* revalidate_or_stale: a 304, or a failure before the header that may be     *)
(* answered with the stale object. The rest of the batch is dropped.          *)
RevalidateOrStale ==
    /\ Filtering
    /\ ex.cache = "stale" /\ cache.enabled /\ cache.admission = "none"
    /\ \/ Head(down.tasks) = "NotModified"
       \/ Head(down.tasks) = "Failed" /\ ~client.header
    /\ down' = [down EXCEPT !.pc = "loop", !.tasks = <<>>, !.batch = <<>>,
                            !.serve = "CacheHeader", !.cached = FALSE]
    /\ cache' = [cache EXCEPT !.written = ex.response]
    /\ UNCHANGED <<ex, custom, up, client, origin, toUp, toDown>>

(* The outcomes of cache_http_task on task t: the cache afterwards and whether*)
(* the miss is served back (enable_miss).                                     *)
Commit(c, t) == IF IsEnd(t) THEN [c EXCEPT !.admission = "committed"] ELSE c
Disabled == [cache EXCEPT !.enabled = FALSE,
                          !.admission = IF @ = "active" THEN "dropped" ELSE @]

\* Mutant: a failed response ends the cached body like a complete one.
CacheHttpTask_FailedEnds(t) ==
    IF ~cache.enabled \/ t = "Info" \/ (~IsHeader(t) /\ cache.admission # "active") THEN {cache}
    ELSE IF IsHeader(t)
    THEN {Disabled, Commit([cache EXCEPT !.admission = "active"], t)}
    ELSE {Disabled, Commit([cache EXCEPT !.written = @ + Chunks(<<t>>)], t)}

CacheHttpTask(t) ==
    IF ~cache.enabled \/ t \in {"Failed", "Info"} \/ (~IsHeader(t) /\ cache.admission # "active")
    THEN {cache}
    ELSE IF IsHeader(t)
    THEN {Disabled, Commit([cache EXCEPT !.admission = "active"], t)}
    ELSE {Disabled, Commit([cache EXCEPT !.written = @ + Chunks(<<t>>)], t)}

(* A failed write ends the request when the body is served from the write or  *)
(* nobody else gets the response.                                             *)
CacheWriteFailureIsFatal(c, t) ==
    /\ cache.enabled /\ ~c.enabled /\ ~IsHeader(t)
    /\ down.serve = "CacheBodyMiss" \/ cache.abandoned

FilterTask ==
    LET t == Head(down.tasks)
    IN  /\ Filtering
        /\ ~(t = "NotModified" /\ cache.enabled /\ cache.admission = "none")
        /\ \E c \in CacheHttpTask(t) :
              LET admits == c.admission # "none" /\ cache.admission = "none" /\ c.enabled
                  serve == IF admits THEN "CacheHeaderMiss" ELSE down.serve
                  writes == ~cache.abandoned /\ ~IsOn(serve)
              IN  IF \/ CacheWriteFailureIsFatal(c, t)
                     \/ ~writes /\ t = "Failed"
                     \/ AbandonedBeforeAdmission(c, serve)
                  THEN Fail(c)
                  ELSE /\ down' = [down EXCEPT !.tasks = Tail(@), !.serve = serve,
                                               !.cached = @ /\ serve # "CacheHeaderMiss",
                                               !.batch = Append(@, t)]
                       /\ cache' = c
        /\ UNCHANGED <<ex, custom, up, client, origin, toUp, toDown>>

(* An application filter fails. *)
FilterFails ==
    /\ Filtering
    /\ Fail(cache)
    /\ UNCHANGED <<ex, custom, up, client, origin, toUp, toDown>>

(* finish_downstream_response_early, called by a response body filter while   *)
(* the header is held back: the client gets a synthetic response and nothing  *)
(* of the origin's.                                                           *)
FinishEarly ==
    /\ Filtering
    /\ Head(down.tasks) = "Body" /\ ex.cache = "off" /\ ex.proto # "custom"
    /\ ~client.early /\ ~client.header /\ ~client.upgraded
    /\ client' = [client EXCEPT !.early = TRUE, !.header = TRUE, !.complete = ~client.gone]
    /\ UNCHANGED <<ex, custom, up, down, origin, cache, toUp, toDown>>

(* handle_held_response_header: nothing is written until the batch holds the  *)
(* end; the header then goes out first. A failure releases the header alone.  *)
Holding == ex.hold /\ ~client.header
Data(t) == ~IsHeader(t)
Released ==
    LET rest == SelectSeq(down.batch, Data)
        header == IF "HeaderEnd" \in Range(down.batch) THEN <<"HeaderEnd">> ELSE <<"Header">>
    IN  IF "Failed" \in Range(down.batch) THEN header \o <<"Failed">>
        ELSE IF \E t \in Range(down.batch) : IsEnd(t) THEN header \o down.withheld \o rest
        ELSE <<>>

FiltersDone ==
    /\ down.pc = "filter" /\ down.tasks = <<>>
    /\ IF ~ShouldWriteResponse
       THEN down' = [down EXCEPT !.pc = "loop", !.batch = <<>>] /\ UNCHANGED cache
       ELSE IF client.early /\ "Failed" \in Range(down.batch)
       THEN Fail(cache)
       ELSE /\ down' =
                 IF client.early
                 THEN [down EXCEPT !.pc = "loop", !.batch = <<>>,
                           !.delivered = @ \/ \E t \in Range(down.batch) : IsEnd(t)]
                 ELSE IF Holding
                 THEN [down EXCEPT !.pc = IF Released = <<>> THEN "loop" ELSE "write",
                                   !.withheld = @ \o SelectSeq(down.batch, HasData),
                                   !.batch = Released]
                 ELSE [down EXCEPT !.pc = "write"]
            /\ UNCHANGED cache
    /\ UNCHANGED <<ex, custom, up, client, origin, toUp, toDown>>

-----------------------------------------------------------------------------
(* Writing downstream: response_duplex_vec and the proxy task API.            *)

(* The session after tasks s were written: the 101 turns the rest of the      *)
(* request into the tunnel, the end of a tunnel closes the client's side.     *)
Written(s) ==
    LET ends == \E t \in Range(s) : IsEnd(t) /\ t # "Failed"
        upgrades == "101" \in Range(s)
        upgraded == client.upgraded \/ upgrades
        got == IF ex.short THEN client.got ELSE client.got + Chunks(s)
        header == client.header \/ \E t \in Range(s) : IsHeader(t)
        framed == header /\ (ex.short \/ (ex.framed /\ got >= ex.response))
    IN  [client EXCEPT !.header = header,
                       !.got = got,
                       !.complete = @ \/ ends \/ (framed /\ ~upgraded),
                       !.upgraded = upgraded,
                       !.left = IF upgrades THEN @ + ex.tunnel ELSE @,
                       !.done = IF upgraded /\ ends THEN TRUE
                                ELSE IF upgrades THEN FALSE ELSE @]

Reset(d, upgrades) ==
    IF upgrades /\ d.state # "Errored" THEN [d EXCEPT !.state = "Reading"] ELSE d

WriteResponse ==
    /\ down.pc = "write" /\ ~client.gone
    /\ client' = Written(down.batch)
    /\ IF "Failed" \in Range(down.batch)
       THEN Fail(cache)
       ELSE /\ down' = MaybeFinished(
                          Reset([down EXCEPT !.pc = "loop", !.batch = <<>>,
                                             !.delivered = @ \/ client'.complete],
                                client'.upgraded /\ ~client.upgraded),
                          ex.proto # "h2" /\ client'.done)
            /\ UNCHANGED cache
    /\ UNCHANGED <<ex, custom, up, origin, toUp, toDown>>

WriteResponseFails ==
    /\ down.pc = "write"
    /\ client' = [client EXCEPT !.gone = TRUE]
    /\ Fail(cache)
    /\ UNCHANGED <<ex, custom, up, origin, toUp, toDown>>

(* next_http_task of ServeFromCache: the task and the state after it. A       *)
(* conditional request may be answered with the header alone.                 *)
NextCacheTask ==
    CASE down.serve = "CacheHeader" -> {<<"Header", "CacheBody">>, <<"Header", "Done">>}
      [] down.serve = "CacheHeaderMiss" ->
            {<<"Header", "CacheBodyMiss">>, <<"Header", "DoneMiss">>}
      [] down.serve \in {"CacheBody", "CacheBodyMiss"} /\ cache.read < cache.written ->
            {<<"Body", down.serve>>}
      [] down.serve = "CacheBody" /\ cache.read = cache.written -> {<<"Done", "Done">>}
      [] down.serve = "CacheBodyMiss" /\ cache.read = cache.written
            /\ cache.admission = "committed" -> {<<"Done", "DoneMiss">>}
      [] down.serve \in {"Done", "DoneMiss"} -> {<<"Done", down.serve>>}
      [] OTHER -> {}

ServeFromCache ==
    /\ Running /\ ServeGuard
    /\ cache.enabled
    /\ \E n \in NextCacheTask :
          /\ down' = IF ex.api
                     THEN [down EXCEPT !.serve = n[2], !.pending = Append(@, n[1])]
                     ELSE [down EXCEPT !.serve = n[2], !.pc = "serve", !.batch = <<n[1]>>]
          /\ cache' = [cache EXCEPT !.read = @ + Chunks(<<n[1]>>)]
    /\ UNCHANGED <<ex, custom, up, client, origin, toUp, toDown>>

(* The cache was disabled under the reader, or its storage read fails. *)
ServeFails ==
    /\ Running /\ ServeGuard
    /\ ~cache.enabled \/ down.serve \in {"CacheBody", "CacheBodyMiss"}
    /\ Fail(cache)
    /\ UNCHANGED <<ex, custom, up, client, origin, toUp, toDown>>

(* Both write paths: at once, or pending tasks in the gate branch. *)
WritesCached == down.pc = "serve" \/ (Running /\ GateGuard)

WriteCached ==
    /\ WritesCached /\ ~client.gone
    /\ client' = Written(down.batch \o down.pending)
    /\ down' = [down EXCEPT !.pc = "loop", !.batch = <<>>, !.pending = <<>>,
                            !.cached = @ \/ client'.complete]
    /\ UNCHANGED <<ex, custom, up, origin, cache, toUp, toDown>>

WriteCachedFails ==
    /\ WritesCached
    /\ client' = [client EXCEPT !.gone = TRUE]
    /\ IF IsMiss(down.serve)
       THEN AbandonForCacheFill([down EXCEPT !.pc = "loop", !.batch = <<>>, !.cached = TRUE])
       ELSE Fail(cache) /\ UNCHANGED custom
    /\ UNCHANGED <<ex, up, origin, toUp, toDown>>

(* The gate also takes an upstream task while the client is stalled. *)
GateRecv ==
    /\ Running /\ GateGuard
    /\ ~down.delivered /\ IsOn(down.serve)
    /\ \/ /\ toDown # <<>>
          /\ down' = [down EXCEPT !.next = Head(toDown)]
          /\ toDown' = Tail(toDown)
       \/ /\ toDown = <<>> /\ UpEnded
          /\ down' = [down EXCEPT !.delivered = TRUE]
          /\ UNCHANGED toDown
    /\ UNCHANGED <<ex, custom, up, client, origin, cache, toUp>>

(* The loop's condition fails, or every branch of the select is disabled. *)
LoopExits ==
    /\ down.pc = "loop"
    /\ \/ ~Running
       \/ ~(ReadGuard \/ ReserveGuard \/ ReleaseGuard \/ BufferedGuard \/ RecvGuard
              \/ ServeGuard \/ GateGuard \/ custom.open # {})

(* finish_body may fail; it ends a body the tasks left open. *)
FinishDownstream ==
    /\ \E ok \in BOOLEAN :
          LET reuse == CanPoll(down) /\ ~client.early
          IN  /\ client.gone /\ reuse => ~ok
              /\ down' = [down EXCEPT !.pc = "ok", !.reuse = reuse /\ ok]
              /\ client' = [client EXCEPT !.complete = @ \/ (reuse /\ ok)]
    /\ cache' = [cache EXCEPT !.admission = IF @ = "active" THEN "dropped" ELSE @]
    /\ UNCHANGED <<ex, up, origin, toUp, toDown>>

Return == ex.proto # "custom" /\ LoopExits /\ FinishDownstream /\ UNCHANGED custom

(* The application cancels a fill nobody waits for. *)
CancelFill ==
    /\ down.pc \notin {"ok", "err"}
    /\ cache.abandoned /\ ~cache.cancelled
    /\ cache' = [cache EXCEPT !.cancelled = TRUE]
    /\ UNCHANGED <<ex, custom, up, down, client, origin, toUp, toDown>>

-----------------------------------------------------------------------------
Ended == down.pc = "err" \/ (DownEnded /\ UpEnded)

(* The branches of the select loop that the three kinds of upstream share. *)
LoopStep ==
    \/ TakeBuffered \/ RecvUpstream \/ FillCancelled \/ UpstreamClosed \/ RevalidateOrStale
    \/ FilterTask \/ FilterFails \/ FinishEarly \/ FiltersDone \/ WriteResponse
    \/ WriteResponseFails \/ ServeFromCache \/ ServeFails \/ WriteCached \/ WriteCachedFails
    \/ GateRecv \/ Return

DownStep == StartDownstream \/ ReadBody \/ WaitForPermit

-----------------------------------------------------------------------------
(* Every field of the two halves and the sessions holds a value of its kind.  *)
TypeOK ==
    /\ ex \in Exchanges
    /\ up.pc \in {"loop", "send", "write", "ok"} /\ up.task \in Tasks \cup {None}
    /\ down.pc \in {"start", "loop", "upload", "filter", "write", "serve", "ok", "err"}
    /\ down.state \in {"Reading", "ReadingFinished", "Errored"}
    /\ down.serve \in Serving
    /\ cache.admission \in {"none", "active", "committed", "dropped"}
    /\ Len(toUp) <= Capacity /\ Len(toDown) <= Capacity
    /\ Len(down.pending) <= 1

(* A downstream connection is kept only after a response that the client can  *)
(* take for complete, and such a response is the whole one (or, from the      *)
(* cache, its header alone): neither a pipe that closed early nor an error of *)
(* either half shortens it unnoticed. An attempt whose upload the upstream    *)
(* refused returns without an error only if a complete response, to the       *)
(* client or the cache, or the end of an upgraded client's half answers it.   *)
CompleteIsWhole ==
    /\ DownEnded /\ down.reuse => client.complete
    /\ client.complete /\ ~client.early /\ ~ex.short /\ ~ex.upgrade =>
          \/ client.got = ex.response
          \/ client.got = 0 /\ down.serve \in {"Done", "DoneMiss"}
    /\ DownEnded /\ custom.failed =>
          \/ custom.halfClosed \/ client.complete
          \/ cache.abandoned /\ cache.admission = "committed"

(* proxy_handle_upstream returns a connection for reuse only between two      *)
(* messages: the response was read to its end and the request ended by its    *)
(* framing, whichever half finished first.                                    *)
ReuseAtMessageEnd ==
    ex.proto = "h1" /\ UpEnded /\ up.reuse /\ ~ex.upgrade => origin.finished /\ origin.ended

(* What the cache commits is the whole response, also when the client left    *)
(* and the fill went on without it.                                           *)
CommittedWhole == cache.admission = "committed" => cache.written = ex.response

(* The origin takes a request for ended only when it got all of its body:     *)
(* neither a client that leaves mid-upload nor a body an earlier attempt lost *)
(* is forwarded as complete. The HTTP/1 attempt does not keep this.           *)
RequestWhole == origin.finished /\ ~ex.upgrade => origin.got = ex.request

(* The same for HTTP/2 and custom upstreams, which a dropped pipe does not     *)
(* make end a request: the body a filter consumed is released to its last     *)
(* chunk, and one that an earlier attempt lost is never ended.                *)
StreamedRequestWhole == ex.proto # "h1" => RequestWhole

(* The end of the request body that precedes the 101 never ends the tunnel:   *)
(* the upstream half returns only once the client closed its side, the origin *)
(* did, or writing to the origin failed.                                      *)
TunnelStaysOpen ==
    UpEnded /\ up.upgraded /\ up.reuse =>
        origin.ended \/ (client.upgraded /\ client.done) \/ DownEnded
=============================================================================
