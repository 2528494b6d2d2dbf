--------------------------- MODULE ServerUpgrade ----------------------------
(***************************************************************************)
(* Server start, graceful upgrade and shutdown: the new process receives   *)
(* the listening sockets of the old one over the upgrade socket.           *)
(*                                                                         *)
(*   server/mod.rs              run, main_loop, spawn_service              *)
(*   server/bootstrap_services  bootstrap, load_fds, close_unclaimed_fds   *)
(*   server/transfer_fd         send_fds_to, get_fds_from                  *)
(*   listeners/l4.rs            ListenerEndpointBuilder::listen, bind_tcp  *)
(*   services/listening.rs      run_endpoint                               *)
(*                                                                         *)
(* The kernel is modelled as far as the code relies on it: a listening     *)
(* socket and the connections in its backlog live as long as some process, *)
(* or a message under way, holds a descriptor of it.  Addresses are TCP    *)
(* without SO_REUSEPORT; each is one service's.  Sleeps are modelled by    *)
(* the retries they separate, not by their length.                         *)
(***************************************************************************)
EXTENDS Integers, FiniteSets, Functions

CONSTANTS
    Old, New,         \* the two processes; New runs with --upgrade
    Addresses,
    Clients,          \* connections
    Setups,           \* [mode, claims, signals, names, fds, up]
    MAX_RETRY,        \* retries of connect() and of accept()
    TCP_LISTENER_MAX_TRY,
    MaxCrashes,
    None

Servers == {Old, New}

Modes == {"before", "service", "loose"}

\* mode: Server::bootstrap() called before run(); or bootstrap_as_a_service() with the
\* listening services depending on it; or without that dependency.  names, fds: how many
\* addresses fit the 2048 bytes of the payload, and how many descriptors a control message
\* (MAX_FDS).  up: the new process is started once the old one listens everywhere.
Setup == [mode : Modes, claims : [Servers -> SUBSET Addresses],
          signals : SUBSET {"quit", "term", "int"}, names : Nat, fds : Nat, up : BOOLEAN]

\* What the constants are taken to be.
ConstantsOK == Setups \subseteq Setup /\ MAX_RETRY \in Nat /\ TCP_LISTENER_MAX_TRY \in Nat \ {0}

VARIABLES
    setup,
    main,      \* process -> [pc, retried]: bootstrap, main_loop and the end of run
    shutdown,  \* process -> the shutdown watch
    table,     \* process -> the ListenFds table: address -> socket or None
    expected,  \* process -> expected_listen_addrs is set
    open,      \* process -> the listening sockets it has a descriptor of
    svc,       \* process -> address -> [st, tries, sock]: the service listening there
    path,      \* the upgrade socket: None, or the process listening on it
    inbox,     \* the transfer: [st, fds], "none", "connected", "sent" or "closed"
               \* without a message
    conn,      \* client -> [st, sock, by]
    crashes

vars == <<setup, main, shutdown, table, expected, open, svc, path, inbox, conn, crashes>>

Socket(p, a) == <<p, a>>

NoFds == [a \in Addresses |-> None]

NoTransfer == [st |-> "none", fds |-> NoFds]

\* The sockets of a message under way.
Sent == Range(inbox.fds) \ {None}

\* What is queued on a socket nobody holds any more is reset.
Settle(held, queue) ==
    [c \in Clients |-> IF queue[c].st = "queued" /\ queue[c].sock \notin held
                       THEN [queue[c] EXCEPT !.st = "reset"] ELSE queue[c]]

Held(f, message) == UNION Range(f) \union message

Init ==
    /\ setup \in Setups
    /\ main = [p \in Servers |-> [pc |-> "off", retried |-> 0]]
    /\ shutdown = [p \in Servers |-> FALSE]
    /\ table = [p \in Servers |-> NoFds]
    /\ expected = [p \in Servers |-> FALSE]
    /\ open = [p \in Servers |-> {}]
    /\ svc = [p \in Servers |-> [a \in Addresses |-> [st |-> "waiting", tries |-> 0, sock |-> None]]]
    /\ path = None /\ inbox = NoTransfer
    /\ conn = [c \in Clients |-> [st |-> "new", sock |-> None, by |-> None]]
    /\ crashes = 0

Goto(p, pc) == main' = [main EXCEPT ![p] = [pc |-> pc, retried |-> 0]]

\* The process is gone: its descriptors are closed and what it was serving is cut.
\* Whatever was queued for its upgrade socket goes too.
Exits(p) ==
    /\ Goto(p, "exit")
    /\ open' = [open EXCEPT ![p] = {}]
    /\ path' = IF path = p THEN None ELSE path
    /\ inbox' = IF p = New THEN NoTransfer
                ELSE IF inbox.st = "connected" THEN [inbox EXCEPT !.st = "closed"] ELSE inbox
    /\ conn' = LET left == IF p = New THEN {} ELSE Sent
               IN Settle(Held(open', left),
                         [c \in Clients |-> IF conn[c].st = "accepted" /\ conn[c].by = p
                                            THEN [conn[c] EXCEPT !.st = "cut"] ELSE conn[c]])
    /\ UNCHANGED <<setup, shutdown, table, expected, svc>>

-----------------------------------------------------------------------------
(* bootstrap: get_fds_from and load_fds.                                   *)

\* The descriptors of addresses no service declares are closed.
Pruned(p, t) == [a \in Addresses |-> IF a \in setup.claims[p] THEN t[a] ELSE None]

Start(p) ==
    /\ main[p].pc = "off"
    /\ p = New => main[Old].pc # "off"
    /\ p = New /\ setup.up => \A a \in setup.claims[Old] : svc[Old][a].st \notin {"waiting", "binding", "bound"}
    /\ Goto(p, IF p = Old THEN "running" ELSE IF setup.mode = "before" THEN "bootstrap" ELSE "run")
    /\ UNCHANGED <<setup, shutdown, table, expected, open, svc, path, inbox, conn, crashes>>

\* run: collect_listen_addresses and set_expected_listen_addrs, which prunes what a
\* bootstrap before run() loaded.
SetExpectedListenAddrs(p) ==
    /\ main[p].pc = "run"
    /\ Goto(p, IF setup.mode = "before" THEN "running" ELSE "bootstrap")
    /\ expected' = [expected EXCEPT ![p] = TRUE]
    /\ table' = [table EXCEPT ![p] = Pruned(p, @)]
    /\ open' = [open EXCEPT ![p] = Range(table'[p]) \ {None}]
    /\ conn' = Settle(Held(open', Sent), conn)
    /\ UNCHANGED <<setup, shutdown, svc, path, inbox, crashes>>

\* Unlinks an old path, binds it and listens.
ListenUpgradeSock(p) ==
    /\ main[p].pc = "bootstrap"
    /\ Goto(p, "accept")
    /\ path' = p
    /\ UNCHANGED <<setup, shutdown, table, expected, open, svc, inbox, conn, crashes>>

\* accept_with_retry_timeout: EAGAIN, a sleep and another try.
AcceptRetries(p) ==
    /\ main[p].pc = "accept" /\ inbox.st = "none" /\ main[p].retried <= MAX_RETRY
    /\ main' = [main EXCEPT ![p].retried = @ + 1]
    /\ UNCHANGED <<setup, shutdown, table, expected, open, svc, path, inbox, conn, crashes>>

\* The last try found nothing; what connects from here until the close is lost, and
\* bootstrap exits the process.
AcceptGivesUp(p) ==
    /\ main[p].pc = "accept" /\ inbox.st = "none" /\ main[p].retried > MAX_RETRY
    /\ Goto(p, "closing path")
    /\ UNCHANGED <<setup, shutdown, table, expected, open, svc, path, inbox, conn, crashes>>

BootstrapFails(p) ==
    /\ main[p].pc = "closing path"
    /\ Exits(p) /\ UNCHANGED crashes

AcceptTransfer(p) ==
    /\ main[p].pc = "accept" /\ inbox.st # "none"
    /\ Goto(p, "recv")
    /\ UNCHANGED <<setup, shutdown, table, expected, open, svc, path, inbox, conn, crashes>>

\* serialize_vec_string() writes as many of the names as fit.  The address whose name is
\* cut short, which is any, is unknown to the receiver.
Unread ==
    IF Cardinality(Sent) <= setup.names THEN {{}}
    ELSE {{a} : a \in {b \in Addresses : inbox.fds[b] # None /\ Cardinality(Sent) = setup.names + 1}}

\* Mutant: the descriptors are closed with the connection they came over.
ReceiveFds_Closed(p) ==
    /\ main[p].pc = "recv" /\ inbox.st # "connected"
    /\ Cardinality(Sent) <= setup.fds
    /\ Goto(p, IF setup.mode = "before" THEN "run" ELSE "running")
    /\ table' = [table EXCEPT ![p] = IF expected[p] THEN Pruned(p, inbox.fds) ELSE inbox.fds]
    /\ path' = None /\ inbox' = NoTransfer
    /\ conn' = Settle(Held(open, {}), conn)
    /\ UNCHANGED <<setup, shutdown, expected, open, svc, crashes>>

\* recvmsg on the accepted connection, which blocks until the message or the sender's
\* end.  The table holds what the services declare, as far as that is known by now.
ReceiveFds(p) ==
    /\ main[p].pc = "recv" /\ inbox.st # "connected"
    /\ Cardinality(Sent) <= setup.fds
    /\ Goto(p, IF setup.mode = "before" THEN "run" ELSE "running")
    /\ \E lost \in Unread :
          LET fds == [a \in Addresses |-> IF a \in lost THEN None ELSE inbox.fds[a]]
          IN  table' = [table EXCEPT ![p] = IF expected[p] THEN Pruned(p, fds) ELSE fds]
    /\ open' = [open EXCEPT ![p] = @ \union IF expected[p] THEN Range(table'[p]) \ {None} ELSE Sent]
    /\ path' = None /\ inbox' = NoTransfer
    /\ conn' = Settle(Held(open', {}), conn)
    /\ UNCHANGED <<setup, shutdown, expected, svc, crashes>>

\* More descriptors than fit: cmsgs() fails, and bootstrap exits the process.
ReceiveTruncated(p) ==
    /\ main[p].pc = "recv" /\ Cardinality(Sent) > setup.fds
    /\ Exits(p) /\ UNCHANGED crashes

\* Fewer names than descriptors fail the assertion of deserialize.  That ends a process
\* that bootstraps before run().  A bootstrap service panics alone: the descriptors stay
\* open, the table empty, and dropping the notifier tells the dependents to start.
DeserializePanics(p) ==
    /\ main[p].pc = "recv"
    /\ Cardinality(Sent) <= setup.fds /\ Cardinality(Sent) > setup.names
    /\ IF setup.mode = "before" THEN Exits(p)
       ELSE /\ Goto(p, "running")
            /\ open' = [open EXCEPT ![p] = @ \union Sent]
            /\ path' = None /\ inbox' = NoTransfer
            /\ UNCHANGED <<setup, shutdown, table, expected, svc, conn>>
    /\ UNCHANGED crashes

-----------------------------------------------------------------------------
(* A listening service: spawn_service, ListenerEndpointBuilder::listen,    *)
(* bind_tcp and run_endpoint.                                              *)

Alive(p) == main[p].pc \notin {"off", "exit"}

\* main_loop holds the table's lock while it sends.
Locked(p) == main[p].pc \in {"connect", "sendmsg"}

\* run spawns the services after bootstrap, or lets them wait for it.
Spawned(p) ==
    /\ Alive(p)
    /\ \/ main[p].pc \notin {"bootstrap", "run", "accept", "recv", "closing path"}
       \/ setup.mode = "loose" /\ expected[p]

SetSvc(p, a, st, sock) == svc' = [svc EXCEPT ![p][a].st = st, ![p][a].sock = sock]

ListenInherited(p, a) ==
    /\ Spawned(p) /\ ~Locked(p) /\ a \in setup.claims[p] /\ svc[p][a].st = "waiting"
    /\ table[p][a] # None
    /\ SetSvc(p, a, "listening", table[p][a])
    /\ UNCHANGED <<setup, main, shutdown, table, expected, open, path, inbox, conn, crashes>>

\* The table has no socket for the address: bind it.
ListenBinds(p, a) ==
    /\ Spawned(p) /\ ~Locked(p) /\ a \in setup.claims[p] /\ svc[p][a].st = "waiting"
    /\ table[p][a] = None
    /\ SetSvc(p, a, "binding", None)
    /\ UNCHANGED <<setup, main, shutdown, table, expected, open, path, inbox, conn, crashes>>

InUse(a) == \E p \in Servers : Socket(p, a) \in Held(open, Sent)

\* bind and listen; the table's lock is taken after them.
Bind(p, a) ==
    /\ Alive(p) /\ svc[p][a].st = "binding" /\ ~InUse(a)
    /\ SetSvc(p, a, "bound", Socket(p, a))
    /\ open' = [open EXCEPT ![p] = @ \union {Socket(p, a)}]
    /\ UNCHANGED <<setup, main, shutdown, table, expected, path, inbox, conn, crashes>>

AddFd(p, a) ==
    /\ Alive(p) /\ ~Locked(p) /\ svc[p][a].st = "bound"
    /\ SetSvc(p, a, "listening", svc[p][a].sock)
    /\ table' = [table EXCEPT ![p][a] = svc[p][a].sock]
    /\ UNCHANGED <<setup, main, shutdown, expected, open, path, inbox, conn, crashes>>

\* AddrInUse: another try, or the service's task panics.
BindInUse(p, a) ==
    /\ Alive(p) /\ svc[p][a].st = "binding" /\ InUse(a)
    /\ svc' = [svc EXCEPT ![p][a].st = IF svc[p][a].tries + 1 >= TCP_LISTENER_MAX_TRY THEN "dead" ELSE @,
                        ![p][a].tries = @ + 1]
    /\ UNCHANGED <<setup, main, shutdown, table, expected, open, path, inbox, conn, crashes>>

\* run_endpoint accepts from the socket its service listens on.
AcceptClient(p, a, c) ==
    /\ Alive(p) /\ svc[p][a].st = "listening"
    /\ conn[c].st = "queued" /\ conn[c].sock = svc[p][a].sock
    /\ conn' = [conn EXCEPT ![c].st = "accepted", ![c].by = p]
    /\ UNCHANGED <<setup, main, shutdown, table, expected, open, svc, path, inbox, crashes>>

\* shutdown.changed(): the endpoint's tasks end and its listener is dropped.
EndpointShutsDown(p, a) ==
    /\ Alive(p) /\ svc[p][a].st = "listening" /\ shutdown[p]
    /\ SetSvc(p, a, "ended", None)
    /\ open' = [open EXCEPT ![p] = @ \ {svc[p][a].sock}]
    /\ conn' = Settle(Held(open', Sent), conn)
    /\ UNCHANGED <<setup, main, shutdown, table, expected, path, inbox, crashes>>

-----------------------------------------------------------------------------
(* main_loop, send_fds_to and the end of run.                              *)

\* SIGINT: exit at once.
FastShutdown(p) ==
    /\ main[p].pc = "running" /\ p = Old /\ "int" \in setup.signals
    /\ Exits(p) /\ UNCHANGED crashes

Broadcast(p) ==
    /\ Goto(p, "grace")
    /\ shutdown' = [shutdown EXCEPT ![p] = TRUE]

\* SIGTERM.
GracefulTerminate(p) ==
    /\ main[p].pc = "running" /\ p = Old /\ "term" \in setup.signals
    /\ Broadcast(p)
    /\ UNCHANGED <<setup, table, expected, open, svc, path, inbox, conn, crashes>>

\* SIGQUIT, sent once the new process was started; with nothing to send the process
\* shuts down.
GracefulUpgrade(p) ==
    /\ main[p].pc = "running" /\ p = Old /\ "quit" \in setup.signals
    /\ main[New].pc # "off"
    /\ IF Range(table[p]) = {None} THEN Broadcast(p) ELSE Goto(p, "connect") /\ UNCHANGED shutdown
    /\ UNCHANGED <<setup, table, expected, open, svc, path, inbox, conn, crashes>>

Listening == path # None /\ main[path].pc \in {"accept", "closing path"}

ConnectUpgradeSock(p) ==
    /\ main[p].pc = "connect" /\ Listening /\ inbox.st = "none"
    /\ Goto(p, "sendmsg")
    /\ inbox' = [inbox EXCEPT !.st = "connected"]
    /\ UNCHANGED <<setup, shutdown, table, expected, open, svc, path, conn, crashes>>

\* ENOENT or ECONNREFUSED: a sleep and another try, or give up and close anyway.
ConnectRefused(p) ==
    /\ main[p].pc = "connect" /\ ~Listening
    /\ main' = [main EXCEPT ![p] = [pc |-> IF @.retried + 1 > MAX_RETRY THEN "close timeout" ELSE "connect",
                                    retried |-> @.retried + 1]]
    /\ UNCHANGED <<setup, shutdown, table, expected, open, svc, path, inbox, conn, crashes>>

\* sendmsg, which fails when the receiver is gone.
SendFds(p) ==
    /\ main[p].pc = "sendmsg"
    /\ Goto(p, "close timeout")
    /\ inbox' = IF inbox.st = "none" THEN inbox ELSE [st |-> "sent", fds |-> table[p]]
    /\ UNCHANGED <<setup, shutdown, table, expected, open, svc, path, conn, crashes>>

\* CLOSE_TIMEOUT passed.
CloseTimeout(p) ==
    /\ main[p].pc = "close timeout"
    /\ Broadcast(p)
    /\ UNCHANGED <<setup, table, expected, open, svc, path, inbox, conn, crashes>>

\* The grace period, the runtimes' shutdown timeout, and the end of the process.
GracePeriodEnds(p) ==
    /\ main[p].pc = "grace"
    /\ Exits(p) /\ UNCHANGED crashes

Crash(p) ==
    /\ Alive(p) /\ crashes < MaxCrashes
    /\ crashes' = crashes + 1
    /\ Exits(p)

-----------------------------------------------------------------------------
(* Clients, of addresses that some process has listened on.                *)

Connect(c, a) ==
    /\ conn[c].st = "new"
    /\ \E p \in Servers : svc[p][a].st \notin {"waiting", "binding"}
    /\ conn' = [conn EXCEPT ![c] =
         IF InUse(a) THEN [st |-> "queued", by |-> None,
                           sock |-> CHOOSE s \in Held(open, Sent) : s[2] = a]
         ELSE [st |-> "refused", sock |-> <<None, a>>, by |-> None]]
    /\ UNCHANGED <<setup, main, shutdown, table, expected, open, svc, path, inbox, crashes>>

Served(c) ==
    /\ conn[c].st = "accepted"
    /\ conn' = [conn EXCEPT ![c].st = "served"]
    /\ UNCHANGED <<setup, main, shutdown, table, expected, open, svc, path, inbox, crashes>>

MainStep(p) ==
    \/ SetExpectedListenAddrs(p) \/ ListenUpgradeSock(p) \/ AcceptRetries(p) \/ AcceptGivesUp(p)
    \/ BootstrapFails(p) \/ AcceptTransfer(p) \/ ReceiveFds(p) \/ ReceiveTruncated(p)
    \/ DeserializePanics(p)
    \/ ConnectUpgradeSock(p) \/ ConnectRefused(p) \/ SendFds(p) \/ CloseTimeout(p) \/ GracePeriodEnds(p)

ServiceStep(p, a) ==
    \/ ListenInherited(p, a) \/ ListenBinds(p, a) \/ Bind(p, a) \/ AddFd(p, a) \/ BindInUse(p, a)
    \/ EndpointShutsDown(p, a)

\* Each process has stopped, or serves until a signal comes, or was never started.
Rest == main[Old].pc \in {"running", "exit"} /\ main[New].pc \in {"off", "running", "exit"} /\ UNCHANGED vars

Next ==
    \/ \E p \in Servers :
          \/ Start(p) \/ MainStep(p)
          \/ FastShutdown(p) \/ GracefulTerminate(p) \/ GracefulUpgrade(p) \/ Crash(p)
          \/ \E a \in Addresses : ServiceStep(p, a) \/ \E c \in Clients : AcceptClient(p, a, c)
    \/ \E c \in Clients : Served(c) \/ \E a \in Addresses : Connect(c, a)
    \/ Rest

Spec == Init /\ [][Next]_vars

\* Threads and tasks are scheduled; signals, crashes and clients come or do not.
FairSpec ==
    /\ Spec
    /\ \A p \in Servers :
          /\ WF_vars(MainStep(p))
          /\ \A a \in Addresses : WF_vars(ServiceStep(p, a)) /\ \A c \in Clients : WF_vars(AcceptClient(p, a, c))

-----------------------------------------------------------------------------
\* A process that took the socket of an address it claims and is not going away.
Takes(p, a) ==
    /\ Alive(p) /\ ~shutdown[p] /\ a \in setup.claims[p]
    /\ table[p][a] # None

\* Once some process that stays has the socket of an address, no connection to it is
\* refused or reset by the other one's shutdown (transfer, then close, then exit).
TransferredStaysOpen ==
    [][\A c \in Clients : \A a \in Addresses, p \in Servers :
          Takes(p, a) /\ Takes(p, a)' /\ conn'[c].st \in {"refused", "reset"} /\ conn'[c].sock[2] = a
             => conn[c].st = conn'[c].st]_vars

\* Descriptors that a bootstrap service received before it panicked, and nobody uses.
Leaked(s) == main[New].pc = "running" /\ s \in open[New] /\ s[1] = Old /\ s \notin Range(table[New])

\* No black hole: a queued connection does not stay in the backlog of a socket nobody
\* accepts from (close_unclaimed of what no service claims), unless deserialize panicked
\* in the bootstrap service.
QueuedLeaves ==
    \A c \in Clients : conn[c].st = "queued" ~> conn[c].st # "queued" \/ Leaked(conn[c].sock)

\* Refuted: the same without that exception.  The dependents of the bootstrap service
\* start with an empty table, find their addresses in use by their own process and die.
QueuedAlwaysLeaves ==
    \A c \in Clients : conn[c].st = "queued" ~> conn[c].st # "queued"

\* The next upgrade can hand over every socket a service listens on.
TableKnowsListeners ==
    \A p \in Servers, a \in Addresses :
       Alive(p) /\ svc[p][a].st = "listening" => table[p][a] = svc[p][a].sock

\* Refuted: docs/user_guide/graceful.md guarantees that no request sees connection
\* refused in an upgrade.  The old process closes its sockets also when the transfer
\* failed, because either side ran out of retries.
NoRequestRefused ==
    setup.signals = {"quit"} /\ crashes = 0 /\ setup.claims[New] = setup.claims[Old] =>
       \A c \in Clients : conn[c].st \notin {"refused", "reset"}
=============================================================================
