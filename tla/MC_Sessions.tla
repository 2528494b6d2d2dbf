----------------------------- MODULE MC_Sessions -----------------------------
(***************************************************************************)
(* Small instances of the two sessions that are neither HTTP/1 nor the     *)
(* proxy's own: HTTP/2 connections and the pipe of a subrequest.  They do  *)
(* not interact: `part' says which of them runs in a behaviour, and the    *)
(* other stays in an initial state.                                        *)
(***************************************************************************)
EXTENDS SubrequestPipe, TLC

VARIABLES part,
          setup, wire, goaway, accept, active, st, ping

-----------------------------------------------------------------------------
(* Exchanges through a subrequest pipe.                                    *)
Base == [chunks |-> <<1, 2>>, cl |-> 3, chunked |-> FALSE, filterFails |-> FALSE,
         input |-> "save", preset |-> <<>>, limit |-> 3,
         h2 |-> FALSE, watch |-> TRUE, leaves |-> TRUE, early |-> FALSE, tasks |-> TRUE,
         idleRx |-> TRUE, upgrade |-> FALSE, reads |-> TRUE, timeout |-> FALSE,
         drains |-> TRUE,
         script |-> <<Header("final", None, FALSE), Body(1, FALSE), Body(2, FALSE), Done>>]

Short == <<Header("info", None, FALSE), Header("final", 2, FALSE), Body(2, TRUE)>>

Exchanges == {
    Base,
    [Base EXCEPT !.tasks = FALSE, !.timeout = TRUE],
    \* chunked uploads: with an empty chunk, and one that outgrows the saved body
    [Base EXCEPT !.chunked = TRUE, !.chunks = <<1, 0, 2, None>>, !.cl = None,
                 !.script = Short],
    [Base EXCEPT !.chunked = TRUE, !.chunks = <<1, 2, None>>, !.cl = None, !.limit = 1,
                 !.script = Short, !.idleRx = FALSE, !.drains = FALSE, !.filterFails = TRUE],
    \* an upload of unknown length over HTTP/2
    [Base EXCEPT !.h2 = TRUE, !.chunks = <<1, None>>, !.cl = None, !.script = Short],
    \* a subrequest that never answers nor reads
    [Base EXCEPT !.h2 = TRUE, !.reads = FALSE, !.script = <<>>, !.drains = FALSE],
    [Base EXCEPT !.chunks = <<>>, !.cl = 0, !.early = TRUE, !.script = <<>>],
    \* preset and retained bodies
    [Base EXCEPT !.input = "preset", !.preset = <<2, 1>>, !.script = Short],
    [Base EXCEPT !.input = "retained", !.script = Short, !.tasks = FALSE],
    \* failures
    [Base EXCEPT !.script = <<Header("final", 3, FALSE), Body(1, FALSE), Failed>>],
    [Base EXCEPT !.script = <<Header("final", 3, FALSE), Body(1, TRUE)>>, !.tasks = FALSE,
                 !.leaves = FALSE],
    \* the response ends first, the client stays silent
    [Base EXCEPT !.script = <<Header("final", 0, TRUE)>>, !.leaves = FALSE, !.watch = FALSE],
    \* an upgrade
    [Base EXCEPT !.chunks = <<1, None>>, !.cl = None, !.upgrade = TRUE,
                 !.script = <<Header("switch", None, FALSE), Upgraded(1, FALSE), Done>>],
    \* trailers
    [Base EXCEPT !.script = <<Header("final", None, FALSE), Body(1, FALSE), Trailer>>] }
-----------------------------------------------------------------------------
(* HTTP/2 connections of two streams.                                      *)
Quiet == [kind |-> [s \in {1, 2} |-> "ok"], upload |-> [s \in {1, 2} |-> 0],
          plan |-> [s \in {1, 2} |-> <<<<"headerEnd">>>>],
          idle |-> FALSE, ping |-> FALSE, writeTimeout |-> FALSE,
          leaves |-> FALSE, vanishes |-> FALSE, shutdown |-> FALSE]

Split   == <<<<"info">>, <<"header">>, <<"bodyEnd">>>>
Trailed == <<<<"header", "body", "trailer">>>>
Finished == <<<<"header", "emptyEnd">>>>
Broken  == <<<<"header", "body">>, <<"failed">>>>
Tunnel  == <<<<"header">>, <<"upgraded">>>>
Closing == <<<<"header", "body">>, <<"noTrailer", "body", "header">>>>
Bare    == <<<<"done">>>>

Early   == <<<<"body">>>>

Malformed == [Quiet EXCEPT !.kind = (1 :> "path" @@ 2 :> "authority"), !.idle = TRUE]

Sessions ==
    { [Quiet EXCEPT !.plan = (1 :> Split @@ 2 :> Broken), !.upload[1] = 1, !.idle = TRUE],
      [Quiet EXCEPT !.plan = (1 :> Trailed @@ 2 :> Early), !.idle = TRUE, !.leaves = TRUE],
      [Quiet EXCEPT !.plan[2] = Closing, !.upload[1] = 1, !.shutdown = TRUE],
      [Quiet EXCEPT !.plan = (1 :> Finished @@ 2 :> Bare), !.upload[2] = 2, !.idle = TRUE,
                    !.shutdown = TRUE],
      [Quiet EXCEPT !.plan = (1 :> Tunnel @@ 2 :> Split), !.ping = TRUE, !.vanishes = TRUE,
                    !.writeTimeout = TRUE],
      Malformed,
      [Quiet EXCEPT !.kind[1] = "authority", !.upload[1] = 1, !.idle = TRUE] }

H2 == INSTANCE H2Session
        WITH Streams <- {1, 2}, Setups <- Sessions, MAX_MALFORMED_STREAMS_PER_CONN <- 2,
             Window <- 1

h2Vars == <<setup, wire, goaway, accept, active, st, ping>>
-----------------------------------------------------------------------------
SumInit ==
    /\ part \in {"pipe", "h2"}
    /\ Init /\ (part # "pipe" => x = Base)
    /\ H2!Init /\ (part # "h2" => setup = Malformed)

SumNext ==
    \/ part = "pipe" /\ Next /\ UNCHANGED <<part, h2Vars>>
    \/ part = "h2" /\ H2!Next /\ UNCHANGED <<part, vars>>

\* The fairness of each component: see FairSpec in their modules.
Fairness ==
    /\ WF_vars(part = "pipe" /\ PipeStep) /\ WF_vars(part = "pipe" /\ SubStep)
    /\ \A s \in {1, 2} : /\ WF_h2Vars(part = "h2" /\ H2!ClientStep(s))
                         /\ WF_h2Vars(part = "h2" /\ H2!Accept(s))
                         /\ WF_h2Vars(part = "h2" /\ H2!SessionStep(s))
    /\ WF_h2Vars(part = "h2" /\ H2!Loop)
    /\ WF_h2Vars(part = "h2" /\ H2!SendPing) /\ WF_h2Vars(part = "h2" /\ H2!PingTimesOut)
    /\ WF_h2Vars(part = "h2" /\ H2!DriveEnds)

SumSpec == SumInit /\ [][SumNext]_<<part, vars, h2Vars>> /\ Fairness
-----------------------------------------------------------------------------
(* The components' properties: see their modules.                          *)
StreamsServed == H2!StreamsServed
IdleCloseIsIdle == H2!IdleCloseIsIdle

\* Nobody is left waiting: a pipe returns once its subrequest ended or its client
\* left, an idle HTTP/2 connection is closed, and a stream to a peer that
\* vanished fails.
NobodyLeftWaiting ==
    /\ part = "pipe" => PipeReturnsAtEnd /\ AbandonmentNoticed
    /\ part = "h2" => H2!IdleIsClosed /\ H2!DeadPeerNoticed
=============================================================================
