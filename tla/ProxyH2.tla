------------------------------ MODULE ProxyH2 ------------------------------
(* An attempt at an HTTP/2 upstream (proxy_h2.rs): bidirection_down_to_up     *)
(* reads the client, writes the request under the origin's flow control and   *)
(* serves the response; pipe_up_to_down_response reads the origin. There is   *)
(* no pipe toward the origin, so a blocked write blocks the downstream half.  *)
EXTENDS ProxyDuplex

(* Window for one more chunk; an echoing origin grants it as its response is  *)
(* read (reserve_and_send).                                                   *)
Granted == ex.echo => origin.got <= ex.response - origin.left

Uploaded(n, ends) == [origin EXCEPT !.got = @ + n, !.finished = @ \/ ends]

-----------------------------------------------------------------------------
(* The downstream half. A body a filter consumed is released by the loop, one *)
(* a previous attempt lost is never ended, the retry buffer is written first. *)
Release == IF ex.body = "consumed" THEN ex.request ELSE 0

StartDownstream2 ==
    /\ ex.proto = "h2"
    /\ down.pc = "start"
    /\ IF ex.body = "kept"
       THEN Granted /\ origin' = Uploaded(1, client.done)
       ELSE UNCHANGED origin
    /\ down' = [down EXCEPT !.pc = "loop", !.release = Release]
    /\ UNCHANGED <<ex, custom, up, client, cache, toUp, toDown>>

(* Writing the retry buffer fails, times out or sees the client's stream end. *)
StartFails ==
    /\ ex.proto = "h2"
    /\ down.pc = "start" /\ ex.body = "kept"
    /\ Fail(cache)
    /\ UNCHANGED <<ex, custom, up, client, origin, toUp, toDown>>

(* read_body_or_idle, and then send_body_to2 inside the same branch. *)
ReadBody2 ==
    /\ ex.proto = "h2"
    /\ Running /\ ReadGuard
    /\ ~IsDone(down) /\ ~client.gone
    /\ \E t \in NextBodyTasks :
          /\ client' = [client EXCEPT !.left = IF HasData(t) THEN @ - 1 ELSE @,
                                      !.done = IsEnd(t)]
          /\ down' = [down EXCEPT !.pc = "upload", !.batch = <<t>>]
    /\ UNCHANGED <<ex, custom, up, origin, cache, toUp, toDown>>

Sent == [down EXCEPT !.pc = "loop", !.batch = <<>>]

SendBodyTo2 ==
    LET t == Head(down.batch)
    IN  /\ ex.proto = "h2"
        /\ down.pc = "upload"
        /\ HasData(t) => Granted
        /\ origin' = Uploaded(Chunks(<<t>>), IsEnd(t))
        /\ down' = MaybeFinished(Sent, IsEnd(t))
        /\ UNCHANGED <<ex, custom, up, client, cache, toUp, toDown>>

(* The write fails or times out, or a filter fails for a reason that is not   *)
(* the client: the response is still drained.                                 *)
SendBodyTo2Fails ==
    /\ ex.proto = "h2"
    /\ down.pc = "upload"
    /\ down' = [Sent EXCEPT !.state = "Errored"]
    /\ UNCHANGED <<ex, custom, up, client, origin, cache, toUp, toDown>>

(* The client's stream closes while the write waits, or a filter blames the   *)
(* client: as an error of the body read.                                      *)
SendBodyTo2Downstream(left) ==
    /\ ex.proto = "h2"
    /\ down.pc = "upload"
    /\ client' = [client EXCEPT !.gone = @ \/ left, !.done = @ \/ left]
    /\ IF WaitForCacheFill
       THEN IF left THEN AbandonForCacheFill(Sent)
            ELSE down' = [Sent EXCEPT !.state = "Errored"] /\ UNCHANGED <<cache, custom>>
       ELSE Fail(cache) /\ UNCHANGED custom
    /\ UNCHANGED <<ex, up, origin, toUp, toDown>>

(* release_one_grant: one grant of the consumed body, ended with its last byte.*)
ReleaseOneGrant ==
    /\ Running /\ ReleaseGuard /\ Granted
    /\ origin' = Uploaded(1, down.release = 1)
    /\ down' = [down EXCEPT !.release = @ - 1]
    /\ UNCHANGED <<ex, custom, up, client, cache, toUp, toDown>>

ReleaseFails ==
    /\ Running /\ ReleaseGuard
    /\ down' = [down EXCEPT !.release = 0, !.state = "Errored"]
    /\ UNCHANGED <<ex, custom, up, client, origin, cache, toUp, toDown>>

-----------------------------------------------------------------------------
(* The upstream half, pipe_up_to_down_response. up.next is what it does next: *)
(* read the header, the body or the trailers, send Failed or Done, return.    *)

At(next) == ex.proto # "h1" /\ UpRuns("loop") /\ up.next = next

Goto(next) == [up EXCEPT !.pc = IF next = "ok" THEN "ok" ELSE "loop", !.next = next, !.task = None]

(* tx.send(t): a pipe the downstream half closed is benign after the header.  *)
Put(t, next) ==
    \/ /\ DownEnded
       /\ IF (IsHeader(t) \/ t = "Info") /\ next # "failed"
          THEN Fail(cache) /\ up' = Goto("ok")
          ELSE up' = Goto("ok") /\ UNCHANGED <<down, cache>>
       /\ UNCHANGED toDown
    \/ /\ ~DownEnded
       /\ IF Len(toDown) < Capacity
          THEN toDown' = Append(toDown, t) /\ up' = Goto(next)
          ELSE up' = [up EXCEPT !.pc = "send", !.task = t, !.next = next] /\ UNCHANGED toDown
       /\ UNCHANGED <<down, cache>>

SendResumes2 ==
    /\ ex.proto # "h1"
    /\ UpRuns("send")
    /\ DownEnded \/ Len(toDown) < Capacity
    /\ Put(up.task, up.next)
    /\ UNCHANGED <<ex, custom, client, origin, toUp>>

(* The header, alone or with END_STREAM; an error found with it follows it.   *)
ReadHeader2 ==
    /\ ex.proto = "h2"
    /\ At("head")
    /\ \E t \in NextResponseTasks :
          /\ origin' = [origin EXCEPT !.header = TRUE, !.ended = IsEnd(t)]
          /\ \E next \in {"body", "failed"} :
                Put(IF next = "failed" THEN "Header" ELSE t, next)
    /\ UNCHANGED <<ex, custom, client, toUp>>

(* END_STREAM on a header that announces a body. *)
HeaderUnderflow ==
    /\ ex.proto = "h2"
    /\ At("head")
    /\ ex.response > 0
    /\ Put("Failed", "ok")
    /\ UNCHANGED <<ex, custom, client, origin, toUp>>

(* An error before the header is returned and cancels the downstream half. *)
ReadHeaderFails ==
    /\ ex.proto = "h2"
    /\ At("head")
    /\ Fail(cache)
    /\ UNCHANGED <<ex, custom, up, client, origin, toUp, toDown>>

EchoReady == ex.echo => origin.got > ex.response - origin.left

ReadResponseBody ==
    /\ ex.proto = "h2"
    /\ At("body")
    /\ origin.left > 0 /\ ~origin.ended /\ EchoReady
    /\ \E t \in NextResponseTasks :
          /\ origin' = [origin EXCEPT !.left = @ - 1, !.ended = IsEnd(t)]
          /\ Put(t, "body")
    /\ UNCHANGED <<ex, custom, client, toUp>>

ReadResponseBodyEnds ==
    /\ At("body")
    /\ origin.left = 0 \/ origin.ended
    /\ up' = Goto("trailers")
    /\ UNCHANGED <<ex, custom, down, client, origin, cache, toUp, toDown>>

ReadTrailers ==
    /\ At("trailers")
    /\ \/ Put("Done", "ok") /\ UNCHANGED origin
       \/ ~origin.ended /\ Put("Trailer", "done") /\ origin' = [origin EXCEPT !.ended = TRUE]
    /\ UNCHANGED <<ex, custom, client, toUp>>

(* The body or trailer read fails or times out; Failed is the last task. *)
ReadFails2 ==
    /\ At("body") \/ At("trailers")
    /\ Put("Failed", "ok")
    /\ UNCHANGED <<ex, custom, client, origin, toUp>>

SendFailed ==
    /\ At("failed")
    /\ Put("Failed", "ok")
    /\ UNCHANGED <<ex, custom, client, origin, toUp>>

SendDone ==
    /\ At("done")
    /\ Put("Done", "ok")
    /\ UNCHANGED <<ex, custom, client, origin, toUp>>

(* Reads race tx.closed(): the downstream half is done with the response. *)
TxClosed ==
    /\ ex.proto = "h2"
    /\ At("body") \/ At("trailers")
    /\ DownEnded
    /\ up' = Goto("ok")
    /\ UNCHANGED <<ex, custom, down, client, origin, cache, toUp, toDown>>

-----------------------------------------------------------------------------
UpStep2 ==
    \/ ReadHeader2 \/ ReadResponseBody \/ ReadResponseBodyEnds \/ ReadTrailers
    \/ SendFailed \/ SendDone \/ TxClosed \/ SendResumes2

DownStep2 == StartDownstream2 \/ ReadBody2 \/ SendBodyTo2 \/ ReleaseOneGrant

(* What may fail at any time, and need not. *)
Interrupt2 ==
    \/ HeaderUnderflow \/ ReadHeaderFails \/ ReadFails2
    \/ StartFails \/ SendBodyTo2Fails \/ ReleaseFails
    \/ \E left \in BOOLEAN : SendBodyTo2Downstream(left)
=============================================================================
