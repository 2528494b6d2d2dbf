--------------------------- MODULE MC_Connections ---------------------------
(***************************************************************************)
(* Small instances of the components that carry requests over connections. *)
(* They do not interact: `part' says which of them runs in a behaviour,    *)
(* and the others stay in their initial states.                            *)
(***************************************************************************)
EXTENDS H2Connector, BodyReader

CONSTANTS Parts,          \* the components this run explores
          Ids             \* connections of the pool, and to the peer of the requests

VARIABLES part,
          node, queue, over, lru, lruLen, where, evict, task, notified, job,
          setup, req, link, preferH1,
          sc, writer, held, wire, open, reader, got, res,
          client, bytes, session, seen, said, shutdown

-----------------------------------------------------------------------------
(* The pool: two connections, one of which may stay.                       *)
Pool == INSTANCE ConnectionPool
          WITH conn <- where, Size <- 1, Headroom <- 0, QueueSize <- 1, MaxNodes <- 2,
               MaxStale <- 1

poolVars == <<node, queue, over, lru, lruLen, where, evict, task, notified, job>>

(* Two requests to one peer over every ALPN, one of them idempotent.        *)
Peer == [alpn |-> "h1", speaks |-> {"h1"}, downgrades |-> FALSE, retries |-> 2,
         idempotent |-> {1}, big |-> {}, buffered |-> {}]

Peers ==
    {[Peer EXCEPT !.big = {1}, !.buffered = {}], [Peer EXCEPT !.big = {1}, !.buffered = {1}],
     [Peer EXCEPT !.alpn = "h2h1", !.speaks = {"h1", "h2"}, !.downgrades = TRUE],
     [Peer EXCEPT !.alpn = "custom", !.speaks = {"h1", "custom"}],
     [Peer EXCEPT !.retries = 0]}

Req == INSTANCE ProxyRequest
         WITH conn <- link, Requests <- {1, 2}, Conns <- Ids, Setups <- Peers

reqVars == <<setup, req, link, preferH1>>

-----------------------------------------------------------------------------
(* Small bodies: every framing, both interfaces of the writer, data that   *)
(* looks like framing, extensions, trailers, each framing byte damaged, and *)
(* the peer closing after each byte.                                       *)
Message == INSTANCE Http1Body WITH Scenarios <- {}, w <- writer, r <- reader

Plain ==
    [peer |-> "writer", framing |-> "chunked", total |-> 0,
     body |-> <<<<"z">>, <<CR, LF>>>>, api |-> "tasks", app |-> FALSE,
     ext |-> FALSE, trailers |-> <<>>, next |-> <<"n", "n">>,
     damaged |-> 0, cut |-> 0, rewind |-> 0, upstream |-> TRUE]

Written ==
    {[Plain EXCEPT !.api = a, !.body = b] :
        a \in {"tasks", "legacy"}, b \in {<<>>, <<<<"z">>, <<>>, <<CR, LF>>>>}}
      \union
    {[Plain EXCEPT !.framing = "length", !.api = a, !.total = n] :
        a \in {"tasks", "legacy"}, n \in {0, 2, 3, 4}}
      \union
    {[Plain EXCEPT !.framing = "length", !.total = 4, !.upstream = FALSE],
     [Plain EXCEPT !.framing = "close", !.api = "legacy"],
     [Plain EXCEPT !.framing = "close"],
     [Plain EXCEPT !.api = "legacy", !.body = <<<<"z", "z", "z">>>>, !.app = TRUE],
     [Plain EXCEPT !.framing = "length", !.api = "legacy", !.total = 3,
                   !.body = <<<<"z", "z", "z">>>>, !.app = TRUE]}

FromPeer == [Plain EXCEPT !.peer = "wire"]

Messages ==
    {[FromPeer EXCEPT !.body = b, !.ext = t # <<>>, !.trailers = t] :
        b \in {<<<<"z", "z", "z">>>>, <<<<"z">>, <<CR, LF>>>>},
        t \in {<<>>, <<<<"t", "t">>, <<"t">>>>}}

Damaged(m) == {[m EXCEPT !.damaged = k] : k \in Message!FramingBytes(m)}
Cut(m) == {[m EXCEPT !.cut = k] : k \in 1 .. Len(Message!Encoded(m)) - 1}
Preread(m) == {[m EXCEPT !.rewind = k] : k \in {0, 7}}

Received ==
    UNION {Preread(m) : m \in Messages} \union UNION {Damaged(n) : n \in Messages}
      \union
    UNION {Cut(m) : m \in Messages}
      \union
    {[FromPeer EXCEPT !.framing = "length", !.total = 3, !.upstream = u, !.rewind = k] :
        u \in BOOLEAN, k \in {0, 2, 5}}

Bodies == Written \union Received

Body == INSTANCE Http1Body WITH Scenarios <- Bodies, w <- writer, r <- reader

bodyVars == <<sc, writer, held, wire, open, reader, got, res>>

-----------------------------------------------------------------------------
(* Requests that follow one another on a connection.  Their bodies hold    *)
(* the bytes of a request head, so that a parser that starts in the wrong  *)
(* place finds one.                                                        *)
Get == [framing |-> "none", body |-> <<>>, close |-> FALSE, upgrade |-> FALSE,
        damaged |-> FALSE]
Post == [Get EXCEPT !.framing = "length", !.body = <<"H", "1">>]
Chunked == [Get EXCEPT !.framing = "chunked", !.body = <<"H", "3">>]
Closes(q) == [q EXCEPT !.close = TRUE]

Sequels ==
    {<<Get, Post, Get>>, <<Post, Get>>, <<Post, Chunked>>, <<Chunked, Get>>,
     <<Closes(Get), Get>>, <<Get, Closes(Post), Get>>}

Client(reqs) ==
    [reqs |-> reqs, tunnel |-> <<>>, eager |-> TRUE, fin |-> FALSE,
     app |-> "proxy", pipelining |-> TRUE, closeEarly |-> FALSE,
     abortOnClose |-> TRUE, limit |-> -1, untilClose |-> FALSE]

Pipelined ==
    {[Client(q) EXCEPT !.eager = e, !.pipelining = p] :
        q \in Sequels, e \in BOOLEAN, p \in BOOLEAN}
      \union
    {[Client(<<Post, Get>>) EXCEPT !.eager = e, !.closeEarly = TRUE] : e \in BOOLEAN}

Closing ==
    {[Client(<<Post, Get>>) EXCEPT !.fin = TRUE, !.eager = e, !.abortOnClose = a,
                                   !.untilClose = u] :
        e \in BOOLEAN, a \in BOOLEAN, u \in BOOLEAN}

Limited ==
    {[Client(<<Get, Get, Get>>) EXCEPT !.limit = l, !.app = a] :
        l \in 0 .. 1, a \in {"proxy", "server"}}

Served == {[Client(q) EXCEPT !.app = "server", !.pipelining = FALSE, !.eager = FALSE] :
             q \in {<<Post, Get>>, <<Chunked, Get>>}}

Tunnels ==
    {[Client(<<[q EXCEPT !.upgrade = TRUE]>>) EXCEPT
        !.tunnel = <<"x", "y">>, !.eager = e, !.fin = TRUE] :
        q \in {Get, Post}, e \in BOOLEAN}

Clients == Pipelined \cup Closing \cup Limited \cup Served \cup Tunnels

Session == INSTANCE Http1Session
             WITH Connections <- Clients, conn <- client, wire <- bytes, s <- session

sessionVars == <<client, bytes, session, seen, said, shutdown>>
-----------------------------------------------------------------------------
ASSUME Pool!ConstantsOK /\ Req!ConstantsOK

SumInit ==
    /\ part \in Parts
    /\ Init /\ Pool!Init
    /\ Req!Init /\ (part # "request" => setup = [Peer EXCEPT !.retries = 0])
    /\ Body!Init /\ (part # "body" => sc = FromPeer)
    /\ Session!Init /\ (part # "session" => ~shutdown /\ client = Client(<<Post, Get>>))

SumNext ==
    \/ part = "h2" /\ Next /\ UNCHANGED <<part, poolVars, reqVars, bodyVars, sessionVars>>
    \/ part = "pool" /\ Pool!Next /\ UNCHANGED <<part, vars, reqVars, bodyVars, sessionVars>>
    \/ part = "request" /\ Req!Next /\ UNCHANGED <<part, vars, poolVars, bodyVars, sessionVars>>
    \/ part = "body" /\ Body!Next /\ UNCHANGED <<part, vars, poolVars, reqVars, sessionVars>>
    \/ part = "session" /\ Session!Next /\ UNCHANGED <<part, vars, poolVars, reqVars, bodyVars>>

SumSpec ==
    SumInit /\ [][SumNext]_<<part, vars, poolVars, reqVars, bodyVars, sessionVars>>

Symmetry == Permutations(Ids)
-----------------------------------------------------------------------------
(* The components' properties: see their modules.  Each is about the       *)
(* behaviours in which its component runs.                                 *)
PoolSound == part = "pool" => Pool!PoolSound
ResentOnlyIfSafe == part = "request" => Req!ResentOnlyIfSafe
ResponsesApart == part = "request" => Req!ResponsesApart
BodyAsSent == part = "body" => Body!BodyAsSent
ServedInTurn == part = "session" => Session!ServedInTurn
=============================================================================
