---------------------------- MODULE H2Connector ----------------------------
(***************************************************************************)
(* Sharing HTTP/2 upstream connections between requests:                   *)
(* pingora-core/src/connectors/http/v2.rs.                                 *)
(*                                                                         *)
(* A connection is referred to from the in-use pool, from the idle pool,   *)
(* and by the requests that work on it.  All peers have one reuse hash.    *)
(* The idle pool is the ConnectionPool of that module, seen through its    *)
(* interface: put, get, and the removal of entries by timeout, eviction or *)
(* closing.  Both pools are bags, because a PoolNode's queue takes two     *)
(* entries of one id.                                                      *)
(***************************************************************************)
EXTENDS Naturals, FiniteSets

CONSTANTS Requests,      \* the tasks that get, use and release sessions
          Conns,         \* the connections that may be made
          MaxStreams,    \* ConnectionRefInner::max_streams
          MaxEntries,    \* bound on the entries of one connection in a pool
          None

ASSUME MaxStreamsAssumption == MaxStreams \in Nat \ {0}
ASSUME MaxEntriesAssumption == MaxEntries \in Nat
ASSUME NoneAssumption == None \notin Conns
ASSUME RequestsAssumption == IsFiniteSet(Requests)

VARIABLES made,          \* the connections that exist
          streams,       \* current_streams
          closed,        \* the connection's driver has ended
          shut,          \* shutting_down
          inUse, idle,   \* entries of each connection in the two pools
          lost,          \* reservations of each connection that nobody holds (history)
          pc, conn       \* where each request is, and on which connection

vars == <<made, streams, closed, shut, inUse, idle, lost, pc, conn>>

\* "over": fetch_add() found the limit reached; "opening": awaiting the stream;
\* "opened" and "none": spawn_stream() returned a session or None; "active": the
\* session is in use; "locked" to "decide": in release_http_session() with the
\* release lock; "put": past it, about to put the connection in the idle pool.
PC == {"start", "idle get", "new", "reused", "over new", "over reused",
       "opening new", "opening reused", "opened", "none", "active",
       "locked", "dropped", "decide", "put"}

Init ==
  /\ made = {}
  /\ streams = [c \in Conns |-> 0]
  /\ closed = [c \in Conns |-> FALSE]
  /\ shut = [c \in Conns |-> FALSE]
  /\ inUse = [c \in Conns |-> 0]
  /\ idle = [c \in Conns |-> 0]
  /\ lost = [c \in Conns |-> 0]
  /\ pc = [r \in Requests |-> "start"]
  /\ conn = [r \in Requests |-> None]

At(r, s) == pc' = [pc EXCEPT ![r] = s]
Work(r, s, c) == At(r, s) /\ conn' = [conn EXCEPT ![r] = c]
Finish(r) == Work(r, "start", None)
Bump(c) == streams' = [streams EXCEPT ![c] = @ + 1]
Lower(c) == streams' = [streams EXCEPT ![c] = @ - 1]
Add(bag, c) == [bag EXCEPT ![c] = @ + 1]
Take(bag, c) == [bag EXCEPT ![c] = IF @ = 0 THEN 0 ELSE @ - 1]

\* new_http_session(): the handshake made a connection.
NewSession(r, c) ==
  /\ pc[r] = "start"
  /\ c \notin made
  /\ made' = made \cup {c}
  /\ Work(r, "new", c)
  /\ UNCHANGED <<streams, closed, shut, inUse, idle, lost>>

\* reused_http_session(): take a connection from the in-use pool; a closed one
\* is dropped and the idle pool tried.
ReuseInUse(r, c) ==
  /\ pc[r] = "start"
  /\ inUse[c] > 0
  /\ inUse' = Take(inUse, c)
  /\ IF closed[c] THEN Work(r, "idle get", None) ELSE Work(r, "reused", c)
  /\ UNCHANGED <<made, streams, closed, shut, idle, lost>>

\* reused_http_session(): the in-use pool has nothing.
ReuseNone(r) ==
  /\ pc[r] = "start"
  /\ \A c \in Conns : inUse[c] = 0
  /\ \E c \in Conns : idle[c] > 0
  /\ Work(r, "idle get", None)
  /\ UNCHANGED <<made, streams, closed, shut, inUse, idle, lost>>

\* reused_http_session(): idle_pool.get().
ReuseIdle(r) ==
  /\ pc[r] = "idle get"
  /\ \/ /\ \A c \in Conns : idle[c] = 0
        /\ Finish(r)
        /\ UNCHANGED idle
     \/ \E c \in Conns :
          /\ idle[c] > 0
          /\ idle' = Take(idle, c)
          /\ Work(r, "reused", c)
  /\ UNCHANGED <<made, streams, closed, shut, inUse, lost>>

\* reused_http_session(): the peer does not match the connection's descriptor.
Mismatch(r) ==
  /\ pc[r] = "reused"
  /\ Finish(r)
  /\ UNCHANGED <<made, streams, closed, shut, inUse, idle, lost>>

\* spawn_stream(): reserve a stream with fetch_add().
Reserve(r) ==
  LET c == conn[r] IN
  /\ pc[r] \in {"new", "reused"}
  /\ Bump(c)
  /\ \/ /\ streams[c] < MaxStreams
        /\ At(r, IF pc[r] = "new" THEN "opening new" ELSE "opening reused")
     \/ /\ streams[c] >= MaxStreams
        /\ At(r, IF pc[r] = "new" THEN "over new" ELSE "over reused")
  /\ UNCHANGED <<made, closed, shut, inUse, idle, conn, lost>>

\* spawn_stream() returned None: an error for a new connection, while a reused
\* one may still go back to the in-use pool.
NoStream(r) ==
  IF pc[r] \in {"over new", "opening new"} THEN Finish(r)
  ELSE At(r, "none") /\ UNCHANGED conn

\* spawn_stream(): already over the limit, take the reservation back.
Unreserve(r) ==
  /\ pc[r] \in {"over new", "over reused"}
  /\ Lower(conn[r])
  /\ NoStream(r)
  /\ UNCHANGED <<made, closed, shut, inUse, idle, lost>>

\* spawn_stream(): the h2 library granted the stream.
Opened(r) ==
  /\ pc[r] \in {"opening new", "opening reused"}
  /\ ~closed[conn[r]]
  /\ At(r, "opened")
  /\ UNCHANGED <<made, streams, closed, shut, inUse, idle, conn, lost>>

\* Mutant: the error path keeps the reservation.
OpenFailed_Leak(r, graceful) ==
  /\ pc[r] \in {"opening new", "opening reused"}
  /\ \/ graceful /\ shut' = [shut EXCEPT ![conn[r]] = TRUE] /\ NoStream(r)
     \/ ~graceful /\ Finish(r) /\ UNCHANGED shut
  /\ UNCHANGED <<made, streams, closed, inUse, idle, lost>>

\* spawn_stream(): it refused.  On GOAWAY(NO_ERROR) or a broken pipe the
\* connection is marked and None returned, otherwise the error is.
OpenFailed(r, graceful) ==
  /\ pc[r] \in {"opening new", "opening reused"}
  /\ Lower(conn[r])
  /\ \/ graceful /\ shut' = [shut EXCEPT ![conn[r]] = TRUE] /\ NoStream(r)
     \/ ~graceful /\ Finish(r) /\ UNCHANGED shut
  /\ UNCHANGED <<made, closed, inUse, idle, lost>>

\* The caller's future is dropped while spawn_stream() awaits the stream (a
\* shutdown abandons a pass of health checks and aborts its tasks): nobody gives
\* the reservation back.
Cancel(r) ==
  /\ pc[r] \in {"opening new", "opening reused"}
  /\ lost' = Add(lost, conn[r])
  /\ Finish(r)
  /\ UNCHANGED <<made, streams, closed, shut, inUse, idle>>

\* more_streams_allowed(), but for the peer's current limit.
MoreStreams(c) == ~shut[c] /\ MaxStreams > streams[c]

\* The connection goes (back) to the in-use pool when it has room: the peer's
\* current limit may leave it none.
Share(r, peerHasRoom) ==
  LET c == conn[r] IN
  /\ pc[r] \in {"opened", "none"}
  /\ IF MoreStreams(c) /\ peerHasRoom
       THEN inUse[c] < MaxEntries /\ inUse' = Add(inUse, c)
       ELSE UNCHANGED inUse
  /\ IF pc[r] = "opened" THEN At(r, "active") /\ UNCHANGED conn ELSE Finish(r)
  /\ UNCHANGED <<made, streams, closed, shut, idle, lost>>

\* A session is dropped and not released (a failed health check).
DropSession(r) ==
  /\ pc[r] = "active"
  /\ Lower(conn[r])
  /\ Finish(r)
  /\ UNCHANGED <<made, closed, shut, inUse, idle, lost>>

\* proxy_h2: reading the response timed out, the connection may be hung.
MarkShutdown(r) ==
  /\ pc[r] = "active"
  /\ shut' = [shut EXCEPT ![conn[r]] = TRUE]
  /\ UNCHANGED <<made, streams, closed, inUse, idle, pc, conn, lost>>

Locked(c) == \E r \in Requests : conn[r] = c /\ pc[r] \in {"locked", "dropped", "decide"}

\* release_http_session(): take the connection's release lock ...
ReleaseLock(r) ==
  /\ pc[r] = "active"
  /\ ~Locked(conn[r])
  /\ At(r, "locked")
  /\ UNCHANGED <<made, streams, closed, shut, inUse, idle, conn, lost>>

\* ... drop the session, which releases its stream ...
ReleaseStream(r) ==
  /\ pc[r] = "locked"
  /\ Lower(conn[r])
  /\ At(r, "dropped")
  /\ UNCHANGED <<made, closed, shut, inUse, idle, conn, lost>>

\* ... take the connection out of the in-use pool ...
ReleaseInUse(r) ==
  /\ pc[r] = "dropped"
  /\ inUse' = Take(inUse, conn[r])
  /\ At(r, "decide")
  /\ UNCHANGED <<made, streams, closed, shut, idle, conn, lost>>

\* ... and decide where it goes.
ReleaseDecide(r) ==
  LET c == conn[r] IN
  /\ pc[r] = "decide"
  /\ \/ (closed[c] \/ shut[c]) /\ Finish(r) /\ UNCHANGED inUse
     \/ /\ ~closed[c] /\ ~shut[c] /\ streams[c] = 0
        /\ At(r, "put")
        /\ UNCHANGED <<inUse, conn>>
     \/ /\ ~closed[c] /\ ~shut[c] /\ streams[c] # 0
        /\ inUse[c] < MaxEntries
        /\ inUse' = Add(inUse, c)
        /\ Finish(r)
  /\ UNCHANGED <<made, streams, closed, shut, idle, lost>>

\* release_http_session(): the lock is released; idle_pool.put().
ReleaseIdle(r) ==
  /\ pc[r] = "put"
  /\ idle[conn[r]] < MaxEntries
  /\ idle' = Add(idle, conn[r])
  /\ Finish(r)
  /\ UNCHANGED <<made, streams, closed, shut, inUse, lost>>

\* An entry leaves the idle pool: timeout, eviction, or the connection closed.
IdleDrop(c) ==
  /\ idle[c] > 0
  /\ idle' = Take(idle, c)
  /\ UNCHANGED <<made, streams, closed, shut, inUse, pc, conn, lost>>

\* drive_connection() ends: the peer closed, an error, or a ping timed out.
Closed(c) ==
  /\ c \in made /\ ~closed[c]
  /\ closed' = [closed EXCEPT ![c] = TRUE]
  /\ UNCHANGED <<made, streams, shut, inUse, idle, pc, conn, lost>>

Step(r) ==
  \/ \E c \in Conns : NewSession(r, c) \/ ReuseInUse(r, c)
  \/ ReuseNone(r) \/ ReuseIdle(r) \/ Mismatch(r)
  \/ Reserve(r) \/ Unreserve(r) \/ Opened(r)
  \/ \E b \in BOOLEAN : OpenFailed(r, b) \/ Share(r, b)
  \/ Cancel(r) \/ DropSession(r) \/ MarkShutdown(r)
  \/ ReleaseLock(r) \/ ReleaseStream(r) \/ ReleaseInUse(r)
  \/ ReleaseDecide(r) \/ ReleaseIdle(r)

Next == (\E r \in Requests : Step(r)) \/ \E c \in Conns : IdleDrop(c) \/ Closed(c)

Spec == Init /\ [][Next]_vars

TypeOK ==
  /\ made \subseteq Conns
  /\ streams \in [Conns -> Nat]
  /\ closed \in [Conns -> BOOLEAN]
  /\ shut \in [Conns -> BOOLEAN]
  /\ inUse \in [Conns -> Nat]
  /\ idle \in [Conns -> Nat]
  /\ lost \in [Conns -> Nat]
  /\ pc \in [Requests -> PC]
  /\ conn \in [Requests -> Conns \cup {None}]

On(c, S) == {r \in Requests : conn[r] = c /\ pc[r] \in S}

\* The requests that were granted a stream of c and have not given it back, and
\* those that found the limit reached and are about to.
Granted(c) == On(c, {"opening new", "opening reused", "opened", "active", "locked"})
Over(c) == On(c, {"over new", "over reused"})

\* current_streams counts the streams in use, the reservations about to be taken
\* back and those of cancelled spawn_stream() calls, and nothing else: every other
\* path of spawn_stream() and of dropping a session gives back what it took.
StreamsExact ==
  \A c \in Conns : streams[c] = Cardinality(Granted(c)) + Cardinality(Over(c)) + lost[c]

\* However spawn_stream() calls interleave, a connection never carries more
\* than max_streams streams.
StreamLimit == \A c \in Conns : Cardinality(Granted(c)) <= MaxStreams

\* The counter spawn_stream() reserves from says how many streams there are, and
\* those stay within the limit.
StreamsCounted == StreamsExact /\ StreamLimit

\* A connection is never in the in-use pool and in the idle pool.
NotInBothPools == \A c \in Conns : inUse[c] = 0 \/ idle[c] = 0

\* A connection is never in the idle pool more than once.
IdleOnce == \A c \in Conns : idle[c] <= 1

\* spawn_stream() reserves no new stream on a connection that was marked for
\* shutdown before the call.
NoStreamAfterShutdown ==
  [][\A r \in Requests : pc[r] = "reused" /\ pc'[r] = "opening reused" => ~shut[conn[r]]]_vars
============================================================================
