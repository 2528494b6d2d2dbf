----------------------------- MODULE H2Session -----------------------------
(***************************************************************************)
(* One HTTP/2 connection between the two HTTP/2 endpoints of the           *)
(* repository: Http2Session, the upstream side a proxy writes its request  *)
(* to (protocols/http/v2/client.rs), and the accept loop with its          *)
(* HttpSessions, the downstream side (protocols/http/v2/server.rs).  The   *)
(* frame codec between them is the h2 crate: streams keep their order,     *)
(* data waits for window capacity, and a dropped endpoint resets its       *)
(* unfinished streams.                                                     *)
(*                                                                         *)
(* A request is a header and `upload` chunks.  A response is the sequence  *)
(* of task vectors the application hands to response_duplex_vec; the       *)
(* connection, its streams, the shutdown signal, the idle timeout and the  *)
(* ping task all interleave.                                               *)
(***************************************************************************)
EXTENDS Integers, Sequences, FiniteSets, SequencesExt

CONSTANTS
    Streams,                        \* stream ids, in the order they are opened: 1..n
    Setups,                         \* what the clients ask and the application answers
    MAX_MALFORMED_STREAMS_PER_CONN, \* rejections one connection may cause
    Window                          \* chunks a sender may have in flight on a stream

VARIABLES
    setup,      \* the setup of this behaviour, fixed by Init
    wire,       \* "up", "mute" (the peer is gone without a word) or "down"
    goaway,     \* 0: none, 1: GOAWAY(MAX) is out, 2: the final GOAWAY is out
    accept,     \* the accept loop
    active,     \* ActiveSessions: the count and the permit its Notify may hold
    st,         \* the streams: what the client, the codec and the server hold of each
    ping        \* the client's connection driver and its ping task

vars == <<setup, wire, goaway, accept, active, st, ping>>

\* Plans the application follows: vectors of response tasks.
Headers   == {"header", "headerEnd", "info"}
Bodies    == {"body", "bodyEnd"}
Ends(task) == task \in {"headerEnd", "bodyEnd", "emptyEnd", "trailer", "noTrailer", "done"}

\* A body task carries two chunks, one more than the window of the small instance.
ChunksOf(task) == IF task \in Bodies THEN 2 ELSE 0

ChunkTotal(tasks) == FoldSeq(LAMBDA task, total : total + ChunksOf(task), 0, tasks)

NewStream ==
    [client   |-> "new",    \* new, sent (no response yet), body, done, failed, left
     request  |-> "none",   \* none, wire (in the codec's queue), accepted or rejected
     sent     |-> 0,        \* request chunks written
     sentEnd  |-> FALSE,    \* Http2Session::ended
     read     |-> 0,        \* HttpSession::body_read
     server   |-> "none",   \* none, serving or dropped
     written  |-> FALSE,    \* HttpSession::response_written
     ended    |-> FALSE,    \* HttpSession::ended: END_STREAM is sent
     out      |-> 0,        \* response chunks handed to the codec
     got      |-> 0,        \* response chunks the client read
     plan     |-> <<>>,     \* task vectors still to hand over
     vec      |-> <<>>,     \* tasks of the vector being written
     end      |-> FALSE,    \* end_stream of response_duplex_vec
     left     |-> 0,        \* chunks of the current body still to send
     reset    |-> "no"]     \* RST_STREAM: no, server, client or noError

Init ==
    /\ setup \in Setups
    /\ wire = "up"
    /\ goaway = 0
    /\ accept = [running |-> TRUE, signal |-> FALSE, shutdown |-> FALSE, malformed |-> 0,
                 idle |-> "start", how |-> "none"]
    /\ active = [count |-> 0, permit |-> FALSE]
    /\ st = [s \in Streams |-> [NewStream EXCEPT !.plan = setup.plan[s]]]
    /\ ping = [task |-> IF setup.ping THEN "sleep" ELSE "off",
               closed |-> FALSE]

----------------------------------------------------------------------------
(* The client: Http2Session.                                               *)

Waiting(s) == st[s].client \in {"sent", "body"}
Reset(s)   == st[s].reset /= "no"

\* Dropping the session releases its place on the connection; the codec resets a stream
\* that is not finished in both directions.
DropClient(s, how) ==
    [st[s] EXCEPT !.client = how,
                  !.reset = IF @ = "no" /\ st[s].request = "wire" THEN "client"
                            ELSE IF @ = "no" /\ st[s].server = "serving" THEN "client"
                            ELSE @]

\* An error ends the request (its type and whether it may be retried are left out).
ClientFails(s) == st' = [st EXCEPT ![s] = DropClient(s, "failed")]

\* write_request_header.  A stream opened after GOAWAY(MAX) is still below the last id the
\* server names later: the client opens it, or refuses once it saw the GOAWAY.  After the
\* final GOAWAY no stream is opened.
WriteRequestHeader(s) ==
    /\ st[s].client = "new"
    /\ \A t \in Streams : t < s => st[t].client /= "new"
    /\ \/ /\ ping.closed \/ wire = "down" \/ goaway > 0
          /\ ClientFails(s)
       \/ /\ ~ping.closed /\ wire /= "down" /\ goaway < 2
          /\ st' = [st EXCEPT ![s].client = "sent", ![s].request = "wire",
                              ![s].sentEnd = setup.upload[s] = 0]
    /\ UNCHANGED <<setup, wire, goaway, accept, active, ping>>

\* write_request_body: write_body reserves capacity, then sends; the last chunk carries
\* END_STREAM when the caller says so.
WriteRequestBody(s) ==
    /\ Waiting(s) /\ ~st[s].sentEnd /\ ~Reset(s)
    /\ st[s].sent < setup.upload[s]
    /\ st[s].sent - st[s].read < Window
    /\ wire /= "down"
    /\ \E end \in BOOLEAN :
         /\ end => st[s].sent + 1 = setup.upload[s]
         /\ st' = [st EXCEPT ![s].sent = @ + 1, ![s].sentEnd = end]
    /\ UNCHANGED <<setup, wire, goaway, accept, active, ping>>

\* finish_request_body: an empty frame with END_STREAM.
FinishRequestBody(s) ==
    /\ Waiting(s) /\ ~st[s].sentEnd /\ ~Reset(s)
    /\ st[s].sent = setup.upload[s]
    /\ wire /= "down"
    /\ st' = [st EXCEPT ![s].sentEnd = TRUE]
    /\ UNCHANGED <<setup, wire, goaway, accept, active, ping>>

\* read_response_header.
ReadResponseHeader(s) ==
    /\ st[s].client = "sent"
    /\ st[s].written
    /\ wire = "up"
    /\ st' = [st EXCEPT ![s].client = "body"]
    /\ UNCHANGED <<setup, wire, goaway, accept, active, ping>>

\* read_response_body: a chunk, and its capacity is released.
ReadResponseBody(s) ==
    /\ st[s].client = "body"
    /\ st[s].got < st[s].out
    /\ wire = "up"
    /\ st' = [st EXCEPT ![s].got = @ + 1]
    /\ UNCHANGED <<setup, wire, goaway, accept, active, ping>>

\* A variant that takes is_end_stream for the end without polling for the error behind it.
ReadResponseEnds_NoCheck(s) ==
    /\ st[s].client = "body"
    /\ st[s].got = st[s].out
    /\ st[s].ended \/ Reset(s)
    /\ wire = "up"
    /\ st' = [st EXCEPT ![s].client = "done"]
    /\ UNCHANGED <<setup, wire, goaway, accept, active, ping>>

\* check_response_end_or_error and read_trailers: no data is left and the stream ended.
\* A reset without an error may already have overtaken the end: the codec then reports
\* either the end or the reset.
ReadResponseEnds(s) ==
    /\ st[s].client = "body"
    /\ st[s].got = st[s].out
    /\ st[s].ended
    /\ wire = "up"
    /\ st[s].reset \in {"no", "noError"}
    /\ st' = [st EXCEPT ![s].client = "done"]
    /\ UNCHANGED <<setup, wire, goaway, accept, active, ping>>

\* A read fails on a stream the server reset or on a connection that is gone.
ReadFails(s) ==
    /\ Waiting(s)
    /\ \/ Reset(s) /\ wire = "up"
       \/ wire = "down" \/ ping.closed
    /\ ClientFails(s)
    /\ UNCHANGED <<setup, wire, goaway, accept, active, ping>>

\* The caller gives up: shutdown() resets the stream, as does dropping the session.
ClientLeaves(s) ==
    /\ Waiting(s)
    /\ setup.leaves
    /\ st' = [st EXCEPT ![s] = DropClient(s, "left")]
    /\ UNCHANGED <<setup, wire, goaway, accept, active, ping>>

----------------------------------------------------------------------------
(* The client's connection driver: drive_connection and do_ping_pong.      *)

\* After an interval the ping task sends a ping, unless the driver is done.
SendPing ==
    /\ ping.task = "sleep"
    /\ ping' = [ping EXCEPT !.task = IF ping.closed THEN "done" ELSE "sent"]
    /\ UNCHANGED <<setup, wire, goaway, accept, active, st>>

\* The pong arrives and the task sleeps for another interval.
Pong ==
    /\ ping.task = "sent"
    /\ wire = "up"
    /\ ping' = [ping EXCEPT !.task = "sleep"]
    /\ UNCHANGED <<setup, wire, goaway, accept, active, st>>

\* PING_TIMEOUT passes, be the peer gone or only slow, or the ping fails: the task tells
\* the driver and ends; the driver drops the connection and reports it closed.
PingTimesOut ==
    /\ ping.task = "sent"
    /\ ping' = [task |-> "done", closed |-> TRUE]
    /\ wire' = IF wire = "up" THEN "down" ELSE wire
    /\ UNCHANGED <<setup, goaway, accept, active, st>>

\* The connection ends by itself: the driver returns and reports it closed.
DriveEnds ==
    /\ wire = "down" /\ ~ping.closed
    /\ ping' = [ping EXCEPT !.closed = TRUE]
    /\ UNCHANGED <<setup, wire, goaway, accept, active, st>>

\* The peer disappears without closing the connection.
PeerVanishes ==
    /\ setup.vanishes /\ wire = "up"
    /\ wire' = "mute"
    /\ UNCHANGED <<setup, goaway, accept, active, st, ping>>

----------------------------------------------------------------------------
(* The server: the accept loop.                                            *)

\* Requests the codec has ready, oldest first.
Ready == {s \in Streams : st[s].request = "wire" /\ ~Reset(s)}
Next_(ready) == CHOOSE s \in ready : \A t \in ready : s <= t

Return(how) ==
    /\ accept' = [accept EXCEPT !.running = FALSE, !.how = how, !.idle = "off"]
    /\ wire' = IF wire = "mute" THEN "mute" ELSE "down"

\* biased: a shutdown signal is observed before anything else.
Select == accept.running /\ (accept.signal => accept.shutdown)

ShutdownSignal ==
    /\ setup.shutdown /\ ~accept.signal
    /\ accept' = [accept EXCEPT !.signal = TRUE]
    /\ UNCHANGED <<setup, wire, goaway, active, st, ping>>

\* graceful_shutdown: GOAWAY with the highest stream id; the loop goes on accepting.
GracefulShutdown ==
    /\ accept.running /\ accept.signal /\ ~accept.shutdown
    /\ goaway' = 1
    /\ accept' = [accept EXCEPT !.shutdown = TRUE, !.idle = "off"]
    /\ UNCHANGED <<setup, wire, active, st, ping>>

\* The codec sends the real GOAWAY once the client answered the ping behind the first one,
\* when every request sent before has arrived.
FinalGoaway ==
    /\ accept.running /\ goaway = 1 /\ wire = "up"
    /\ goaway' = 2
    /\ UNCHANGED <<setup, wire, accept, active, st, ping>>

\* start_session and on_session: the stream is counted and its task spawned.
StartSession(s) ==
    /\ active' = [active EXCEPT !.count = @ + 1]
    /\ accept' = [accept EXCEPT !.idle = IF accept.shutdown THEN "off" ELSE "start"]
    /\ st' = [st EXCEPT ![s].request = "accepted", ![s].server = "serving"]
    /\ UNCHANGED wire

\* account_malformed_stream: the stream is answered or reset, and one rejection too many
\* ends the connection.  Dropping the body of an unfinished request resets it too.
Reject(s) ==
    LET answered == IF setup.kind[s] = "authority"
                    THEN [st[s] EXCEPT !.request = "rejected", !.written = TRUE, !.ended = TRUE,
                                       !.plan = <<>>,
                                       !.reset = IF st[s].sentEnd THEN "no" ELSE "noError"]
                    ELSE [st[s] EXCEPT !.request = "rejected", !.reset = "server"]
    IN /\ st' = [st EXCEPT ![s] = answered]
       /\ UNCHANGED active
       /\ IF accept.malformed + 1 >= MAX_MALFORMED_STREAMS_PER_CONN
          THEN /\ accept' = [accept EXCEPT !.running = FALSE, !.how = "malformed", !.idle = "off",
                                           !.malformed = @ + 1]
               /\ wire' = "down"
          ELSE /\ accept' = [accept EXCEPT !.malformed = @ + 1,
                                           !.idle = IF accept.shutdown THEN "off" ELSE "start"]
               /\ UNCHANGED wire

\* from_h2_conn_with_malformed_budget surfaces the next request: it is rejected for a
\* forbidden byte in its target, for its Content-Length or for its authority, or served.
Accept(s) ==
    /\ Select /\ wire = "up"
    /\ s \in Ready /\ s = Next_(Ready)
    /\ IF setup.kind[s] = "ok" THEN StartSession(s) ELSE Reject(s)
    /\ UNCHANGED <<setup, goaway, ping>>

\* The client, or its connection, is gone: accept fails, or ends after the last stream.
AcceptEnds ==
    /\ Select
    /\ \/ wire /= "up" /\ Return("error")
       \/ /\ wire = "up" /\ goaway = 2 /\ Ready = {}
          /\ \A s \in Streams : st[s].server /= "serving"
          /\ Return("closed")
    /\ UNCHANGED <<setup, goaway, active, st, ping>>

\* A wait that takes a stored permit for idleness.
WaitUntilIdle_TrustsPermit ==
    /\ Select /\ setup.idle /\ ~accept.shutdown
    /\ accept.idle \in {"start", "waiting"}
    /\ \/ /\ accept.idle = "start" /\ active.count = 0
          /\ accept' = [accept EXCEPT !.idle = "sleeping"]
          /\ UNCHANGED active
       \/ /\ accept.idle = "start" /\ active.count > 0
          /\ accept' = [accept EXCEPT !.idle = "waiting"]
          /\ UNCHANGED active
       \/ /\ accept.idle = "waiting" /\ active.permit
          /\ accept' = [accept EXCEPT !.idle = "sleeping"]
          /\ active' = [active EXCEPT !.permit = FALSE]
    /\ UNCHANGED <<setup, wire, goaway, st, ping>>

\* wait_until_idle: no session in flight starts the sleep; otherwise a stored permit makes
\* it look again, and without one it waits for the guard that drops last.
WaitUntilIdle ==
    /\ Select /\ setup.idle /\ ~accept.shutdown
    /\ accept.idle \in {"start", "waiting"}
    /\ \/ /\ accept.idle = "start" /\ active.count = 0
          /\ accept' = [accept EXCEPT !.idle = "sleeping"]
          /\ UNCHANGED active
       \/ /\ accept.idle = "start" /\ active.count > 0
          /\ accept' = [accept EXCEPT !.idle = "waiting"]
          /\ UNCHANGED active
       \/ /\ accept.idle = "waiting" /\ active.permit
          /\ accept' = [accept EXCEPT !.idle = "start"]
          /\ active' = [active EXCEPT !.permit = FALSE]
    /\ UNCHANGED <<setup, wire, goaway, st, ping>>

\* The idle timeout passes with no request ready: the connection is dropped.
IdleExpires ==
    /\ Select /\ setup.idle /\ accept.idle = "sleeping"
    /\ Ready = {} \/ wire /= "up"
    /\ Return("idle")
    /\ UNCHANGED <<setup, goaway, active, st, ping>>

----------------------------------------------------------------------------
(* The server: HttpSession.                                                *)

Serving(s) == st[s].server = "serving"

\* The guard and the session drop: an unfinished response is reset, and a finished one
\* whose request is not resets without an error.
DropSession(s) ==
    /\ active' = [count |-> active.count - 1, permit |-> active.permit \/ active.count = 1]
    /\ st' = [st EXCEPT ![s].server = "dropped", ![s].vec = <<>>, ![s].plan = <<>>, ![s].left = 0,
                        ![s].reset = IF @ /= "no" THEN @
                                     ELSE IF ~st[s].ended THEN "server"
                                     ELSE IF ~st[s].sentEnd THEN "noError" ELSE "no"]

\* read_body_bytes: a chunk, and its capacity is released.
ReadBodyBytes(s) ==
    /\ Serving(s) /\ ~Reset(s)
    /\ st[s].read < st[s].sent
    /\ wire = "up"
    /\ st' = [st EXCEPT ![s].read = @ + 1]
    /\ UNCHANGED <<setup, wire, goaway, accept, active, ping>>

\* response_duplex_vec takes the next vector of tasks.
TakeTasks(s) ==
    /\ Serving(s)
    /\ st[s].vec = <<>> /\ st[s].left = 0 /\ ~st[s].end
    /\ st[s].plan /= <<>>
    /\ st' = [st EXCEPT ![s].vec = Head(st[s].plan), ![s].plan = Tail(@)]

\* A body or trailers before the header is an error.
TooEarly(s) ==
    Head(st[s].vec) \in Bodies \union {"trailer"} /\ ~st[s].written /\ ~st[s].ended

\* write_response_header, write_trailers and the tasks that only say the end.  Nothing is
\* written after END_STREAM, an informational header is dropped, and a second header too.
WriteTask(s) ==
    LET task == Head(st[s].vec)
        x    == [st[s] EXCEPT !.vec = Tail(@), !.end = @ \/ Ends(task)]
    IN /\ Serving(s)
       /\ st[s].vec /= <<>> /\ st[s].left = 0
       /\ task \notin Bodies \union {"failed", "upgraded"} /\ ~TooEarly(s)
       /\ st' = [st EXCEPT ![s] =
            CASE task \in {"header", "headerEnd"} /\ ~x.ended /\ ~x.written ->
                   [x EXCEPT !.written = TRUE, !.ended = task = "headerEnd"]
              [] task = "trailer" -> [x EXCEPT !.ended = TRUE]
              [] OTHER -> x]

\* write_body starts: two chunks are to be sent, the end with the last of them.
WriteBody(s) ==
    LET task == Head(st[s].vec) IN
    /\ Serving(s)
    /\ st[s].vec /= <<>> /\ st[s].left = 0
    /\ task \in Bodies /\ ~TooEarly(s)
    /\ st' = [st EXCEPT ![s].left = IF st[s].ended THEN 0 ELSE ChunksOf(task),
                        ![s].vec = IF st[s].ended THEN Tail(@) ELSE @]

\* reserve_and_send: as much as the window allows; END_STREAM only with the last chunk.
ReserveAndSend(s) ==
    LET task == Head(st[s].vec)
        last == st[s].left = 1
    IN /\ Serving(s) /\ ~Reset(s) /\ wire = "up"
       /\ st[s].left > 0
       /\ st[s].out - st[s].got < Window
       /\ st' = [st EXCEPT ![s].left = @ - 1, ![s].out = @ + 1,
                           ![s].vec = IF last THEN Tail(@) ELSE @,
                           ![s].end = @ \/ (last /\ task = "bodyEnd"),
                           ![s].ended = @ \/ (last /\ task = "bodyEnd")]

\* A vector that ended the response finishes the stream; finish does nothing when the end
\* is already out, and leaves a response without a header to the reset of the drop.
FinishVec(s) ==
    /\ Serving(s)
    /\ st[s].vec = <<>> /\ st[s].end /\ st[s].written /\ ~st[s].ended
    /\ st' = [st EXCEPT ![s].ended = TRUE]

\* The session's own progress.
SessionWrites(s) ==
    /\ TakeTasks(s) \/ WriteTask(s) \/ WriteBody(s) \/ ReserveAndSend(s) \/ FinishVec(s)
    /\ UNCHANGED <<setup, wire, goaway, accept, active, ping>>

\* Idle and read_body_or_idle: the client reset the stream or the connection is lost.
Abandoned(s) == st[s].reset = "client" \/ wire /= "up"

\* The response is over, or a task fails it, or the client's reset or the lost connection
\* is noticed, or a write times out: the application returns and the session is dropped.
SessionEnds(s) ==
    /\ Serving(s)
    /\ \/ st[s].vec = <<>> /\ st[s].end /\ (st[s].ended \/ ~st[s].written)
       \/ st[s].vec = <<>> /\ st[s].plan = <<>> /\ st[s].left = 0 /\ ~st[s].end
       \/ /\ st[s].vec /= <<>> /\ st[s].left = 0
          /\ Head(st[s].vec) \in {"failed", "upgraded"} \/ TooEarly(s)
       \/ Abandoned(s)
       \/ setup.writeTimeout /\ st[s].left > 0 /\ st[s].out - st[s].got >= Window
    /\ DropSession(s)
    /\ UNCHANGED <<setup, wire, goaway, accept, ping>>

----------------------------------------------------------------------------

ClientStep(s) ==
    \/ WriteRequestHeader(s) \/ WriteRequestBody(s) \/ FinishRequestBody(s)
    \/ ReadResponseHeader(s) \/ ReadResponseBody(s) \/ ReadResponseEnds(s) \/ ReadFails(s)
SessionStep(s) == ReadBodyBytes(s) \/ SessionWrites(s) \/ SessionEnds(s)
Driver == SendPing \/ Pong \/ PingTimesOut \/ DriveEnds
Loop   == GracefulShutdown \/ FinalGoaway \/ AcceptEnds \/ WaitUntilIdle \/ IdleExpires

Next ==
    \/ \E s \in Streams : ClientStep(s) \/ ClientLeaves(s) \/ Accept(s) \/ SessionStep(s)
    \/ Driver \/ Loop
    \/ ShutdownSignal \/ PeerVanishes

Spec == Init /\ [][Next]_vars

\* Tasks and timers that can run do run; the application, the client's departure, the
\* signal and the peer's disappearance are not promised.
Fair ==
    /\ \A s \in Streams : WF_vars(ClientStep(s)) /\ WF_vars(Accept(s)) /\ WF_vars(SessionStep(s))
    /\ WF_vars(Loop)
    /\ WF_vars(SendPing) /\ WF_vars(PingTimesOut) /\ WF_vars(DriveEnds)

FairSpec == Spec /\ Fair

----------------------------------------------------------------------------
(* Properties.                                                             *)

Plan(s)     == FlattenSeq(setup.plan[s])
Delivers(s) == /\ \A i \in 1..Len(Plan(s)) : Plan(s)[i] \notin {"failed", "upgraded"}
               /\ \E i \in 1..Len(Plan(s)) : Ends(Plan(s)[i])

\* A response the client takes for complete is complete: the application ended it and
\* every chunk it handed over was read, however the body was split, whatever was reset
\* and whenever the connection went (check_response_end_or_error, write_body, finish).
ResponseComplete ==
    \A s \in Streams :
        st[s].client = "done" /\ st[s].request = "accepted" =>
            Delivers(s) /\ st[s].got = ChunkTotal(Plan(s))

\* The idle timeout only closes a connection on which no session is being served: neither
\* a notification stored by an earlier idle moment nor a sleep begun before the last
\* accepted stream closes it under a session (wait_for_idle_timeout, StreamGuard::drop).
IdleCloseIsIdle ==
    [][accept'.how = "idle" /\ accept.how /= "idle" =>
          \A s \in Streams : st[s].server /= "serving"]_vars

\* Shutting down loses no request: when the loop ends a drained connection, every request
\* that was on its way, those opened after GOAWAY(MAX) included, has been served or
\* answered (the loop keeps accepting after graceful_shutdown).
DrainServesAll ==
    accept.how = "closed" =>
        \A s \in Streams : st[s].request = "wire" => st[s].reset = "client"

\* What a client of a session may rely on, the connection closing or not.
StreamsServed == ResponseComplete /\ DrainServesAll

\* A connection whose streams are done is closed when an idle timeout is set: the last
\* guard's notification is never lost, whichever iteration of the loop waits for it.
IdleIsClosed ==
    \A s \in Streams :
        setup.idle /\ ~setup.shutdown /\ st[s].server = "dropped" ~> ~accept.running

\* With pings a client never waits for ever on a peer that vanished: the ping times out,
\* the driver closes the connection, and the pending read fails (drive_connection,
\* do_ping_pong).
DeadPeerNoticed ==
    \A s \in Streams : setup.ping /\ wire = "mute" /\ Waiting(s) ~> ~Waiting(s)
=============================================================================
