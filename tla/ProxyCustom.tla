---------------------------- MODULE ProxyCustom ----------------------------
(* An attempt at an upstream of an application's own protocol                 *)
(* (proxy_custom.rs), and the three kinds of attempt together. Four futures   *)
(* run in one try_join!: the downstream loop, the response reader and one     *)
(* forwarder of custom messages per direction ("up" and "down"), whose        *)
(* messages pass through filters the loop runs. An upload the upstream        *)
(* refuses does not end the attempt: its response may still be complete.      *)
EXTENDS ProxyH2

-----------------------------------------------------------------------------
(* The upload. cancel_downstream_reader_only stops the forwarder toward the   *)
(* upstream when the upload fails.                                            *)
UploadFailed(half) ==
    [custom EXCEPT !.error = TRUE, !.failed = TRUE, !.halfClosed = half,
                   !.cancelled = @ \cup {"up"}]

Stopped(c) == IF cache.abandoned THEN StopToDownstream(c) ELSE c

StartDownstreamC ==
    /\ ex.proto = "custom"
    /\ down.pc = "start"
    /\ IF ex.body = "kept"
       THEN \/ origin' = Uploaded(1, client.done) /\ custom' = Stopped(custom)
            \/ custom' = Stopped(UploadFailed(FALSE)) /\ UNCHANGED origin
       ELSE custom' = Stopped(custom) /\ UNCHANGED origin
    /\ down' = [down EXCEPT !.pc = "loop"]
    /\ UNCHANGED <<ex, up, client, cache, toUp, toDown>>

(* After a failed upload what is read is filtered and dropped; the end of an  *)
(* upgraded client's half then ends the exchange.                             *)
ReadBodyC ==
    /\ ex.proto = "custom"
    /\ Running /\ ReadGuard
    /\ ~IsDone(down) /\ ~client.gone
    /\ \E t \in NextBodyTasks :
          LET half == t = "UpEnd"
          IN  /\ client' = [client EXCEPT !.left = IF HasData(t) THEN @ - 1 ELSE @,
                                          !.done = IsEnd(t)]
              /\ IF custom.failed
                 THEN /\ down' = MaybeFinished([down EXCEPT !.delivered = @ \/ half], IsEnd(t))
                      /\ custom' = [custom EXCEPT !.reads = @ + 1, !.halfClosed = @ \/ half]
                 ELSE /\ down' = [down EXCEPT !.pc = "upload", !.batch = <<t>>]
                      /\ custom' = [custom EXCEPT !.halfClosed = @ \/ half]
    /\ UNCHANGED <<ex, up, origin, cache, toUp, toDown>>

SendBodyToCustom ==
    LET t == Head(down.batch)
    IN  /\ ex.proto = "custom"
        /\ down.pc = "upload"
        /\ origin' = Uploaded(Chunks(<<t>>), IsEnd(t))
        /\ down' = MaybeFinished(Sent, IsEnd(t))
        /\ UNCHANGED <<ex, custom, up, client, cache, toUp, toDown>>

(* CustomBodyWriteResult::UpstreamFailed *)
SendBodyToCustomFails ==
    /\ ex.proto = "custom"
    /\ down.pc = "upload"
    /\ down' = MaybeFinished([Sent EXCEPT !.delivered = @ \/ custom.halfClosed], client.done)
    /\ custom' = UploadFailed(custom.halfClosed)
    /\ UNCHANGED <<ex, up, client, origin, cache, toUp, toDown>>

(* An application's request body filter fails. *)
RequestFilterFails ==
    /\ ex.proto = "custom"
    /\ down.pc = "upload"
    /\ Fail(cache)
    /\ UNCHANGED <<ex, custom, up, client, origin, toUp, toDown>>

(* At the top of the loop: the rest of a failed upload is not read. *)
StopReading ==
    /\ Running
    /\ custom.failed /\ ~ReadsAfterUploadFailure /\ ~IsDone(down)
    /\ down' = MaybeFinished(down, TRUE)
    /\ UNCHANGED <<ex, custom, up, client, origin, cache, toUp, toDown>>

(* A completed upgrade is not read idly. *)
IdleUpgrade == client.upgraded /\ IsDone(down)

-----------------------------------------------------------------------------
(* The response reader, read_custom_response: a 1xx (at most one here) may    *)
(* precede the header, and a failed header read is queued only once the       *)
(* upload failed.                                                             *)
ReadInformational ==
    /\ ex.proto = "custom"
    /\ At("head")
    /\ Put("Info", "final")
    /\ UNCHANGED <<ex, custom, client, origin, toUp>>

ReadHeaderC ==
    /\ ex.proto = "custom"
    /\ At("head") \/ At("final")
    /\ \E t \in NextResponseTasks :
          /\ origin' = [origin EXCEPT !.header = TRUE, !.ended = IsEnd(t)]
          /\ \E next \in {"body", "failed"} :
                Put(IF next = "failed" THEN "Header" ELSE t, next)
    /\ UNCHANGED <<ex, custom, client, toUp>>

ReadHeaderFailsC ==
    /\ ex.proto = "custom"
    /\ At("head") \/ At("final")
    /\ IF custom.failed /\ ~DownEnded
       THEN Put("Failed", "ok") /\ UNCHANGED <<ex, custom, client, origin, toUp>>
       ELSE Fail(cache) /\ UNCHANGED <<ex, custom, up, client, origin, toUp, toDown>>

ReadResponseBodyC ==
    /\ ex.proto = "custom"
    /\ At("body")
    /\ origin.left > 0 /\ ~origin.ended
    /\ \E t \in IF ex.upgrade THEN {"Up"} ELSE NextResponseTasks :
          /\ origin' = [origin EXCEPT !.left = @ - 1, !.ended = IsEnd(t)]
          /\ Put(t, "body")
    /\ UNCHANGED <<ex, custom, client, toUp>>

(* Only a downstream half that finished after a failed upload cancels a read. *)
TxClosedC ==
    /\ ex.proto = "custom"
    /\ UpRuns("loop")
    /\ DownEnded /\ custom.failed
    /\ up' = Goto("ok")
    /\ UNCHANGED <<ex, custom, down, client, origin, cache, toUp, toDown>>

-----------------------------------------------------------------------------
(* CustomMessageForwarder: waits for a message or an injected one, has a      *)
(* message filtered by the loop ("asked"), writes it, and finishes with its   *)
(* streams. The one toward an abandoned downstream polls its cancellation     *)
(* first; any error of a forwarder fails the attempt.                         *)
Forwarders == {"up", "down"}

CancelFirst(d) == d = "down" /\ ex.optin

Forwards(d, st) ==
    /\ custom.fwd[d] = st /\ down.pc # "err"
    /\ ~(CancelFirst(d) /\ d \in custom.cancelled)

Moves(d, st) == custom' = [custom EXCEPT !.fwd[d] = st]

ForwarderFails(d) == Fail(cache) /\ custom' = [custom EXCEPT !.failedBy = d]

ReadMessage(d) ==
    /\ Forwards(d, "wait") /\ custom.left[d] > 0
    /\ \/ /\ d \in custom.open
          /\ custom' = [custom EXCEPT !.fwd[d] = "asked", !.left[d] = @ - 1]
          /\ UNCHANGED <<down, cache>>
       \/ d \notin custom.open /\ ForwarderFails(d)
       \/ /\ custom' = [custom EXCEPT !.fwd[d] = "write", !.left[d] = @ - 1]   \* injected
          /\ UNCHANGED <<down, cache>>
    /\ UNCHANGED <<ex, up, client, origin, toUp, toDown>>

WriteMessage(d) ==
    /\ Forwards(d, "write")
    /\ Moves(d, "wait")
    /\ UNCHANGED <<ex, up, down, client, origin, cache, toUp, toDown>>

(* A message cannot be written, or the filter channel was dropped with the    *)
(* callback in it.                                                            *)
ForwardingFails(d) ==
    /\ Forwards(d, "write") \/ (Forwards(d, "asked") /\ d \notin custom.open)
    /\ ForwarderFails(d)
    /\ UNCHANGED <<ex, up, client, origin, toUp, toDown>>

(* Both streams of the direction end and finish_custom is written. *)
MessagesEnd(d) ==
    /\ Forwards(d, "wait")
    /\ Moves(d, "ok")
    /\ UNCHANGED <<ex, up, down, client, origin, cache, toUp, toDown>>

ForwarderCancelled(d) ==
    /\ custom.fwd[d] # "ok" /\ down.pc # "err" /\ d \in custom.cancelled
    /\ Moves(d, "ok")
    /\ UNCHANGED <<ex, up, down, client, origin, cache, toUp, toDown>>

(* The loop's branches: filter a message, notice a forwarder that is gone. *)
FilterMessage(d) ==
    /\ Running /\ d \in custom.open /\ custom.fwd[d] = "asked"
    /\ \E st \in {"wait", "write"} : Moves(d, st)
    /\ UNCHANGED <<ex, up, down, client, origin, cache, toUp, toDown>>

ChannelEnds(d) ==
    /\ Running /\ d \in custom.open /\ custom.fwd[d] = "ok"
    /\ custom' = [custom EXCEPT !.open = @ \ {d}]
    /\ UNCHANGED <<ex, up, down, client, origin, cache, toUp, toDown>>

-----------------------------------------------------------------------------
(* After the loop: an errored downstream fails the attempt unless the fill    *)
(* went on without it, and so does an upload error that no final, complete    *)
(* response and no upgraded half-close answers.                               *)
DownstreamErrored == ~CanPoll(down) /\ ~(cache.abandoned /\ IsMiss(down.serve))

UploadUnanswered ==
    /\ custom.error
    /\ \/ ~UploadResponseComplete /\ ~custom.halfClosed
       \/ ~cache.abandoned /\ ~client.header

ReturnC ==
    /\ ex.proto = "custom"
    /\ LoopExits
    /\ IF DownstreamErrored \/ UploadUnanswered
       THEN Fail(cache) /\ UNCHANGED <<ex, custom, up, client, origin, toUp, toDown>>
       ELSE /\ FinishDownstream
            /\ custom' = [custom EXCEPT !.open = {},
                             !.cancelled = @ \cup IF ex.optin THEN Forwarders ELSE {"up"}]

CleanupFails ==
    /\ ex.proto = "custom"
    /\ LoopExits /\ ~custom.failed
    /\ Fail(cache)
    /\ UNCHANGED <<ex, custom, up, client, origin, toUp, toDown>>

UpStepC ==
    \/ ReadHeaderC \/ ReadResponseBodyC \/ ReadResponseBodyEnds \/ ReadTrailers
    \/ SendFailed \/ SendDone \/ TxClosedC \/ SendResumes2

DownStepC ==
    \/ StartDownstreamC \/ ReadBodyC \/ SendBodyToCustom \/ StopReading \/ ReturnC
    \/ \E d \in Forwarders : FilterMessage(d) \/ ChannelEnds(d)

MessageStep(d) == ReadMessage(d) \/ WriteMessage(d) \/ MessagesEnd(d)
                     \/ ForwarderCancelled(d)

InterruptC ==
    \/ ReadInformational \/ ReadHeaderFailsC \/ ReadFails2
    \/ SendBodyToCustomFails \/ RequestFilterFails \/ CleanupFails
    \/ \E d \in Forwarders : ForwardingFails(d)

-----------------------------------------------------------------------------
(* An attempt at any of the three kinds of upstream.                          *)

ReadErrors == \E left \in BOOLEAN :
                  (ex.proto = "custom" => ~IdleUpgrade) /\ ReadError(left)

AttemptEnded == Ended /\ (down.pc = "err" \/ \A d \in Forwarders : custom.fwd[d] = "ok")

Reader == UpStep \/ UpStep2 \/ UpStepC
Loop == LoopStep \/ DownStep \/ DownStep2 \/ DownStepC

AttemptNext ==
    \/ Reader \/ Loop
    \/ \E d \in Forwarders : MessageStep(d)
    \/ ReadErrors \/ Interrupt2 \/ InterruptC \/ CancelFill
    \/ AttemptEnded /\ UNCHANGED vars

AttemptSpec == Init /\ [][AttemptNext]_vars

(* try_join! polls every future of an attempt, and every wait of one ends: a  *)
(* peer takes or refuses what is written, an upload continues or times out,   *)
(* streams of custom messages end. Nothing else has to fail, and an idle      *)
(* client need not leave.                                                     *)
AttemptFair ==
    /\ AttemptSpec
    /\ WF_vars(Reader)
    /\ WF_vars(Loop)
    /\ \A d \in Forwarders : WF_vars(MessageStep(d))
    /\ WF_vars(~IsDone(down) /\ ReadErrors)

(* All futures of an attempt end: no full pipe, no early return of one and no *)
(* client that leaves keeps another waiting forever.                          *)
EveryAttemptEnds == <>AttemptEnded

(* Once the client is abandoned, messages toward it cannot fail the attempt   *)
(* whose response still fills the cache.                                      *)
FillOutlivesMessages == custom.failedBy = "down" => ~cache.abandoned

(* Nothing cut short passes for whole: not the response at the client, not    *)
(* what the cache admits, not the request on a stream, and a fill that goes   *)
(* on without the client is not failed by what only concerns the client.      *)
MessagesWhole ==
    CompleteIsWhole /\ CommittedWhole /\ StreamedRequestWhole /\ FillOutlivesMessages
=============================================================================
