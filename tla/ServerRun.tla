------------------------------ MODULE ServerRun ------------------------------
(***************************************************************************)
(* The life of a server process (pingora-core/src/server, src/services and *)
(* pingora-runtime): services are added and their dependencies declared,   *)
(* run() forks a daemon whose parent may wait for SIGUSR1, the runtimes are *)
(* planned, every service is spawned to wait for its dependencies, and the  *)
(* main thread blocks on the shutdown signal until the runtimes are shut    *)
(* down.  The bootstrap service holds the bootstrap lock the main thread    *)
(* needs for every service it starts.                                      *)
(***************************************************************************)
EXTENDS Integers, Sequences, FiniteSets

CONSTANT Setups

VARIABLES
  setup,     \* what the program configured, a member of Setups
  main,      \* the main thread of the serving process and its exit code
  parent,    \* the process that forked the daemon
  graph,     \* the dependencies declared so far, and the calls still to make
  started,   \* the services taken from startup_order, with their runtimes
  svc,       \* per service: its task, its readiness and the watches left
  boot,      \* Bootstrap::bootstrap; the lock is held between start and end
  shut,      \* the value of shutdown_watch
  conn       \* per service: the connection its endpoint accepted

vars == <<setup, main, parent, graph, started, svc, boot, shut, conn>>

Services == setup.services

\* A service's runtime: its group's, or one of its own named after it.
runtime_of(s) == IF setup.group[s] = "own" THEN s ELSE setup.group[s]

Runtimes == {runtime_of(s) : s \in started}

Members(r) == {s \in Services : runtime_of(s) = r}

Grouped(r) == \E s \in Members(r) : setup.group[s] # "own"

-----------------------------------------------------------------------------
(* Server::new, add_service and add_dependency                              *)

Init ==
  /\ setup \in Setups
  /\ main = [at |-> "configure", code |-> -1, drain |-> {}]
  /\ parent = [at |-> "none", flag |-> FALSE, handler |-> FALSE,
               late |-> FALSE]
  /\ graph = [edges |-> {}, calls |-> setup.calls]
  /\ started = {}
  /\ svc = [s \in setup.services |->
              [at |-> "added", ready |-> FALSE, waits |-> {}, begun |-> FALSE]]
  /\ boot = [at |-> "idle", told |-> FALSE, loaded |-> FALSE]
  /\ shut = FALSE
  /\ conn = [s \in setup.services |-> "none"]

dependencies(s) == {d \in Services : <<s, d>> \in graph.edges}

\* Every service reachable from s through the declared dependencies.
RECURSIVE Reaches(_, _)
Reaches(todo, seen) ==
  LET next == UNION {dependencies(s) : s \in todo} \ seen
  IN  IF next = {} THEN seen ELSE Reaches(next, seen \union next)

\* The dag refuses an edge that closes a cycle; the error is only logged.
add_dependency(s, d) ==
  IF s \in Reaches({d}, {d}) THEN graph.edges
  ELSE graph.edges \union {<<s, d>>}

AddDependency ==
  /\ main.at = "configure"
  /\ graph.calls # << >>
  /\ graph' = [edges |-> add_dependency(Head(graph.calls)[1], Head(graph.calls)[2]),
               calls |-> Tail(graph.calls)]
  /\ UNCHANGED <<setup, main, parent, started, svc, boot, shut, conn>>

-----------------------------------------------------------------------------
(* daemonize and the wait for readiness                                     *)

\* With daemon_wait_for_ready the ready signal's handler is in place before the
\* fork.  Without it, the default, the parent has nothing left to do.
Daemonize ==
  /\ main.at = "configure" /\ graph.calls = << >>
  /\ setup.daemon
  /\ main' = [main EXCEPT !.at = "child"]
  /\ parent' = IF setup.wait THEN [parent EXCEPT !.at = "forked", !.handler = TRUE]
               ELSE [parent EXCEPT !.at = "exit0"]
  /\ UNCHANGED <<setup, graph, started, svc, boot, shut, conn>>

\* The child puts the old disposition back; it takes the configured user and
\* returns from daemonize() to run(), or panics where that user is unknown.
ChildSetup ==
  /\ main.at = "child"
  /\ main' = IF setup.user = "unknown" THEN [main EXCEPT !.at = "gone", !.code = 101]
             ELSE [main EXCEPT !.at = "plan"]
  /\ UNCHANGED <<setup, parent, graph, started, svc, boot, shut, conn>>

NoDaemon ==
  /\ main.at = "configure" /\ graph.calls = << >>
  /\ ~setup.daemon
  /\ main' = [main EXCEPT !.at = "plan"]
  /\ UNCHANGED <<setup, parent, graph, started, svc, boot, shut, conn>>

\* The parent takes the daemon's user and enters its wait loop, which listens
\* for SIGUSR1 itself; it exits where that user is unknown.
drop_privileges_in_parent ==
  /\ parent.at = "forked"
  /\ parent' = IF setup.user = "unknown" THEN [parent EXCEPT !.at = "exit1"]
               ELSE [parent EXCEPT !.at = "waiting", !.handler = TRUE]
  /\ UNCHANGED <<setup, main, graph, started, svc, boot, shut, conn>>

Exited == main.at = "gone"

\* One turn of the loop of wait_for_ready_or_exit: the flag, or the listener.
WaitSeesSignal ==
  /\ parent.at = "waiting" /\ parent.flag
  /\ parent' = [parent EXCEPT !.at = "exit0"]
  /\ UNCHANGED <<setup, main, graph, started, svc, boot, shut, conn>>

\* The liveness tick finds the process of the pid file gone; a signal that
\* arrived since the flag was read is not looked at again.
WaitSeesDeath ==
  /\ parent.at = "waiting" /\ Exited
  /\ parent' = [parent EXCEPT !.at = "exit1"]
  /\ UNCHANGED <<setup, main, graph, started, svc, boot, shut, conn>>

\* daemon_ready_timeout_seconds elapse before the signal.
WaitTimesOut ==
  /\ parent.at = "waiting" /\ ~parent.flag
  /\ parent' = [parent EXCEPT !.at = "exit1", !.late = TRUE]
  /\ UNCHANGED <<setup, main, graph, started, svc, boot, shut, conn>>

\* send_signal(parent_pid, SIGUSR1): EPERM until the parent took the same
\* user, ESRCH once it is gone, and fatal to a process without a handler.
NotifyParent ==
  /\ boot.at = "notify"
  /\ \/ /\ parent.at = "forked" /\ setup.user = "none"
        /\ parent' = IF parent.handler THEN [parent EXCEPT !.flag = TRUE]
                     ELSE [parent EXCEPT !.at = "killed"]
     \/ /\ parent.at = "waiting"
        /\ parent' = [parent EXCEPT !.flag = TRUE]
     \/ /\ parent.at \in {"exit0", "exit1", "killed"}
        /\ parent' = parent
  /\ boot' = [boot EXCEPT !.at = "load", !.told = TRUE]
  /\ UNCHANGED <<setup, main, graph, started, svc, shut, conn>>

\* notify_timeout elapses while every attempt was refused with EPERM.
NotifyGivesUp ==
  /\ boot.at = "notify" /\ parent.at = "forked" /\ setup.user = "known"
  /\ boot' = [boot EXCEPT !.at = "load"]
  /\ UNCHANGED <<setup, main, parent, graph, started, svc, shut, conn>>

-----------------------------------------------------------------------------
(* The runtime plan                                                         *)

max(S) == CHOOSE n \in S : \A m \in S : m <= n

threads(s) == IF setup.threads[s] < 0 THEN setup.conf.threads
              ELSE setup.threads[s]

\* What resolve_group refuses: two members on one address, zero threads, two
\* members that override the runtime options of a group that sets none.
resolve_group(r) ==
  LET members == Members(r)
      conf == setup.groups[r]
      total == IF conf.threads >= 0 THEN conf.threads
               ELSE max({threads(s) : s \in members})
  IN  /\ \A s, t \in members : s # t => setup.addr[s] \intersect setup.addr[t] = {}
      /\ conf.threads < 0 => \A s \in members : setup.threads[s] # 0
      /\ total > 0
      /\ conf.opts \/ Cardinality({s \in members : setup.opts[s]}) <= 1

plan_runtimes == \A r \in {runtime_of(s) : s \in Services} :
                   Grouped(r) => resolve_group(r)

Plan ==
  /\ main.at = "plan"
  /\ main' = IF plan_runtimes THEN [main EXCEPT !.at = "start"]
             ELSE [main EXCEPT !.at = "gone", !.code = 1]
  /\ UNCHANGED <<setup, parent, graph, started, svc, boot, shut, conn>>

-----------------------------------------------------------------------------
(* Starting the services                                                    *)

BootstrapLocked == boot.at \in {"notify", "load"}

\* The next service of the topological order, on a runtime built for the first
\* of its members; listen_fds() takes the bootstrap lock.
StartService(s) ==
  /\ main.at = "start" /\ ~BootstrapLocked
  /\ s \in Services \ started /\ dependencies(s) \subseteq started
  /\ started' = started \union {s}
  /\ svc' = [svc EXCEPT ![s].at = "waiting", ![s].waits = dependencies(s)]
  /\ UNCHANGED <<setup, main, parent, graph, boot, shut, conn>>

\* The walk is over when no service is left whose dependencies were visited.
AllStarted ==
  /\ main.at = "start"
  /\ \A s \in Services \ started : ~(dependencies(s) \subseteq started)
  /\ main' = [main EXCEPT !.at = "loop"]
  /\ UNCHANGED <<setup, parent, graph, started, svc, boot, shut, conn>>

Alive == main.at \in {"start", "loop", "transfer", "grace", "stop"}

Serving(s) == Alive /\ svc[s].at \notin {"added", "gone"}

\* The spawned task waits for the watches one after the other, in any order
\* that the graph gives them.
WaitForDependency(s, d) ==
  /\ Serving(s) /\ svc[s].at = "waiting" /\ d \in svc[s].waits /\ svc[d].ready
  /\ svc' = [svc EXCEPT ![s].waits = @ \ {d}]
  /\ UNCHANGED <<setup, main, parent, graph, started, boot, shut, conn>>

\* Mutant: one dependency that is ready is enough.
StartTask_First(s) ==
  /\ Serving(s) /\ svc[s].at = "waiting"
  /\ svc[s].waits = {} \/ svc[s].waits # dependencies(s)
  /\ svc' = [svc EXCEPT ![s].begun = TRUE,
               ![s].ready = setup.kind[s] = "listen",
               ![s].at = IF setup.kind[s] = "listen" THEN "accept" ELSE "init"]
  /\ UNCHANGED <<setup, main, parent, graph, started, boot, shut, conn>>

\* start_service: a Service is ready at once; a background service that takes
\* the notifier is ready when it says so.
StartTask(s) ==
  /\ Serving(s) /\ svc[s].at = "waiting" /\ svc[s].waits = {}
  /\ svc' = [svc EXCEPT ![s].begun = TRUE,
               ![s].ready = setup.kind[s] = "listen",
               ![s].at = IF setup.kind[s] = "listen" THEN "accept" ELSE "init"]
  /\ UNCHANGED <<setup, main, parent, graph, started, boot, shut, conn>>

\* notify_ready consumes the notifier, and dropping it is the notification: a
\* service that panics first is ready as well.
DropNotifier(s) == [svc EXCEPT ![s].ready = TRUE]

BackgroundReady(s) ==
  /\ Serving(s) /\ svc[s].at = "init" /\ setup.kind[s] = "slow"
  /\ svc' = [DropNotifier(s) EXCEPT ![s].at = "run"]
  /\ UNCHANGED <<setup, main, parent, graph, started, boot, shut, conn>>

BackgroundPanics(s) ==
  /\ Serving(s) /\ svc[s].at = "init" /\ setup.kind[s] = "panics"
  /\ svc' = [DropNotifier(s) EXCEPT ![s].at = "gone"]
  /\ UNCHANGED <<setup, main, parent, graph, started, boot, shut, conn>>

\* A background service returns once it sees the shutdown.
BackgroundReturns(s) ==
  /\ Serving(s) /\ svc[s].at = "run" /\ shut
  /\ svc' = [svc EXCEPT ![s].at = "gone"]
  /\ UNCHANGED <<setup, main, parent, graph, started, boot, shut, conn>>

\* BootstrapService takes the lock for the whole of bootstrap(): the parent is
\* told first, then the old process's sockets are received.
BootstrapStart(s) ==
  /\ Serving(s) /\ svc[s].at = "init" /\ setup.kind[s] = "boot"
  /\ boot.at = "idle"
  /\ boot' = [boot EXCEPT !.at = IF setup.daemon /\ setup.wait THEN "notify" ELSE "load"]
  /\ UNCHANGED <<setup, main, parent, graph, started, svc, shut, conn>>

\* load_fds: nothing to do without --upgrade; a failure ends the process.
LoadFds(s) ==
  /\ Serving(s) /\ svc[s].at = "init" /\ setup.kind[s] = "boot"
  /\ boot.at = "load"
  /\ \/ /\ boot' = [boot EXCEPT !.at = "done", !.loaded = TRUE]
        /\ svc' = [DropNotifier(s) EXCEPT ![s].at = "gone"]
        /\ UNCHANGED <<main, conn>>
     \/ /\ setup.upgrade
        /\ boot' = [boot EXCEPT !.at = "done"]
        /\ main' = [main EXCEPT !.at = "gone", !.code = 1]
        /\ svc' = [t \in Services |-> [svc[t] EXCEPT !.at = "gone"]]
        /\ conn' = [t \in Services |-> IF conn[t] = "none" THEN "none" ELSE "cut"]
  /\ UNCHANGED <<setup, parent, graph, started, shut>>

-----------------------------------------------------------------------------
(* The endpoints of a listening service                                     *)

\* stack.accept() and the handshake spawned for the connection.
Accept(s) ==
  /\ Serving(s) /\ svc[s].at = "accept" /\ conn[s] = "none"
  /\ conn' = [conn EXCEPT ![s] = "handshake"]
  /\ UNCHANGED <<setup, main, parent, graph, started, svc, boot, shut>>

\* The handshake within 60 s, or an error or a timeout that drops the stream.
Handshake(s) ==
  /\ Alive /\ conn[s] = "handshake"
  /\ \E to \in {"event", "closed"} : conn' = [conn EXCEPT ![s] = to]
  /\ UNCHANGED <<setup, main, parent, graph, started, svc, boot, shut>>

\* handle_event: the stream is served again until the application keeps it.
HandleEvent(s) ==
  /\ Alive /\ conn[s] = "event"
  /\ conn' = [conn EXCEPT ![s] = "closed"]
  /\ UNCHANGED <<setup, main, parent, graph, started, svc, boot, shut>>

\* shutdown.changed() with the value true ends the loop; the watch was cloned
\* before anything was sent, so a service that starts late sees it too.
run_endpoint_Stops(s) ==
  /\ Serving(s) /\ svc[s].at = "accept" /\ shut
  /\ svc' = [svc EXCEPT ![s].at = "gone"]
  /\ UNCHANGED <<setup, main, parent, graph, started, boot, shut, conn>>

-----------------------------------------------------------------------------
(* main_loop and the rest of run()                                          *)

Live(s) == conn[s] \in {"handshake", "event"}

\* shutdown_watch.send(true): every clone of the watch sees it.
Broadcast ==
  /\ shut' = TRUE
  /\ main' = [main EXCEPT !.at = "grace", !.drain = {s \in Services : Live(s)}]

FastShutdown ==
  /\ main.at = "loop" /\ setup.signal = "fast"
  /\ main' = [main EXCEPT !.at = "stop"]
  /\ UNCHANGED <<setup, parent, graph, started, svc, boot, shut, conn>>

GracefulTerminate ==
  /\ main.at = "loop" /\ setup.signal = "term"
  /\ Broadcast
  /\ UNCHANGED <<setup, parent, graph, started, svc, boot, conn>>

\* SIGQUIT: the sockets are sent under the bootstrap lock, then the old
\* process goes on accepting for CLOSE_TIMEOUT.
GracefulUpgrade ==
  /\ main.at = "loop" /\ setup.signal = "quit" /\ ~BootstrapLocked
  /\ main' = [main EXCEPT !.at = "transfer"]
  /\ UNCHANGED <<setup, parent, graph, started, svc, boot, shut, conn>>

CloseTimeout ==
  /\ main.at = "transfer"
  /\ Broadcast
  /\ UNCHANGED <<setup, parent, graph, started, svc, boot, conn>>

\* The grace period outlasts the exchanges in flight when the setup is quick.
GraceEnds ==
  /\ main.at = "grace"
  /\ setup.quick => \A s \in main.drain : ~Live(s)
  /\ main' = [main EXCEPT !.at = "stop"]
  /\ UNCHANGED <<setup, parent, graph, started, svc, boot, shut, conn>>

\* shutdown_timeout on a thread of its own for every runtime: its tasks are
\* dropped where they are, and a task that still waits drops its notifier.
ShutdownRuntime(r) ==
  /\ main.at = "stop" /\ r \in Runtimes
  /\ \E s \in Members(r) \intersect started : svc[s].at # "gone" \/ Live(s)
  /\ svc' = [s \in Services |->
               IF s \in Members(r) \intersect started
               THEN [svc[s] EXCEPT !.at = "gone", !.ready = TRUE] ELSE svc[s]]
  /\ conn' = [s \in Services |->
                IF s \in Members(r) /\ Live(s) THEN "cut" ELSE conn[s]]
  /\ UNCHANGED <<setup, main, parent, graph, started, boot, shut>>

Terminated ==
  /\ main.at = "stop"
  /\ \A s \in started : svc[s].at = "gone" /\ ~Live(s)
  /\ main' = [main EXCEPT !.at = "gone", !.code = 0]
  /\ UNCHANGED <<setup, parent, graph, started, svc, boot, shut, conn>>

-----------------------------------------------------------------------------
Next ==
  \/ AddDependency \/ Daemonize \/ ChildSetup \/ NoDaemon \/ drop_privileges_in_parent
  \/ WaitSeesSignal \/ WaitSeesDeath \/ WaitTimesOut \/ NotifyParent \/ NotifyGivesUp
  \/ Plan \/ AllStarted
  \/ \E s \in Services : StartService(s)
  \/ \E s \in Services : StartTask(s)
  \/ \E s \in Services : BackgroundReady(s)
  \/ \E s \in Services : BackgroundPanics(s)
  \/ \E s \in Services : BackgroundReturns(s)
  \/ \E s \in Services : BootstrapStart(s)
  \/ \E s \in Services : LoadFds(s)
  \/ \E s \in Services : Accept(s)
  \/ \E s \in Services : Handshake(s)
  \/ \E s \in Services : HandleEvent(s)
  \/ \E s \in Services : run_endpoint_Stops(s)
  \/ \E s, d \in Services : WaitForDependency(s, d)
  \/ FastShutdown \/ GracefulTerminate \/ GracefulUpgrade \/ CloseTimeout \/ GraceEnds
  \/ \E r \in Runtimes : ShutdownRuntime(r)
  \/ Terminated

Spec == Init /\ [][Next]_vars

MainStep ==
  \/ AddDependency \/ Daemonize \/ ChildSetup \/ NoDaemon \/ Plan \/ AllStarted
  \/ \E s \in Services : StartService(s)
ParentStep == drop_privileges_in_parent \/ WaitSeesSignal \/ WaitSeesDeath \/ WaitTimesOut
NotifyStep == NotifyParent \/ NotifyGivesUp
StopStep == CloseTimeout \/ GraceEnds \/ Terminated \/ \E r \in Runtimes : ShutdownRuntime(r)
ServiceStep(s) ==
  \/ StartTask(s) \/ BackgroundReady(s) \/ BackgroundPanics(s)
  \/ BackgroundReturns(s) \/ BootstrapStart(s) \/ LoadFds(s)
  \/ Handshake(s) \/ HandleEvent(s) \/ run_endpoint_Stops(s)
  \/ \E d \in Services : WaitForDependency(s, d)

\* Every thread keeps running, a task is polled once it can go on, timeouts
\* elapse; a client need not connect and the operator need not signal.
FairSpec ==
  /\ Spec
  /\ WF_vars(MainStep) /\ WF_vars(ParentStep) /\ WF_vars(NotifyStep) /\ WF_vars(StopStep)
  /\ WF_vars(\E s \in Services : ServiceStep(s))

-----------------------------------------------------------------------------
\* A service begins only after every dependency the graph accepted for it has
\* begun and given up its notifier, as long as the runtimes are not being shut
\* down (add_dependency, spawn_service).
DependenciesFirst ==
  main.at \notin {"stop", "gone"} =>
    \A s \in Services : svc[s].begun =>
      \A d \in dependencies(s) : svc[d].begun /\ svc[d].ready

\* What the documentation of add_dependency says without that condition: "This
\* service will not start until the specified dependency has started and
\* signaled readiness."  Refuted: a runtime that is shut down drops the notifier
\* of a service that still waits, and a dependent on another runtime begins.
NeverStartsBefore ==
  \A s \in Services : svc[s].begun => \A d \in dependencies(s) : svc[d].begun

\* Every service begins, whatever dependencies were declared and whether or not
\* a dependency panics, unless the process is told to stop or cannot load the
\* inherited sockets: the main thread waits for the bootstrap lock, never for a
\* service that waits for it (run, spawn_service, ServiceReadyNotifier::drop).
EveryServiceBegins ==
  \A s \in UNION {t.services : t \in Setups} :
    (main.at = "start" /\ s \in Services)
      ~> (main.at \in {"stop", "gone"} \/ (s \in Services /\ svc[s].begun))

\* The readiness signal never kills the parent and is never lost: a parent that
\* waits leaves with success only once it was told, and one that reports a
\* failed start saw its timeout elapse, or has a daemon that is gone or never
\* gets past its set-up (catch_ready_signal, drop_privileges_in_parent,
\* wait_for_ready_or_exit).
ReadySignalKept ==
  /\ parent.at # "killed"
  /\ parent.at = "exit0" => boot.told \/ ~setup.wait
  /\ parent.at = "exit1" => parent.late \/ main.at \in {"child", "gone"}

\* The documentation of drop_privileges_in_parent: it "Logs an error and
\* continues if the user cannot be resolved".  Refuted: daemonize exits.
FailedDropGoesOn == parent.at = "exit1" => parent.late \/ Exited

\* conf.md: SIGQUIT to the old process is delayed "until the new instance is
\* fully bootstrapped".  Refuted: the parent is released before load_fds.
ReadyMeansBootstrapped == parent.at = "exit0" => boot.loaded

\* The parent always ends: it does not outlive its daemon's start.
ParentEnds == (parent.at = "forked") ~> (parent.at \in {"exit0", "exit1"})

\* An exchange that the grace period covers is not cut by a graceful shutdown:
\* the runtimes are shut down after it (run).
GraceCoversExchanges ==
  setup.quick /\ setup.signal # "fast" /\ main.code # 1 =>
    \A s \in main.drain : conn[s] # "cut"

\* No two services that accept on one runtime use one address, so no descriptor
\* is registered twice with a reactor (plan_runtimes, resolve_group).
ListenersApart ==
  \A s, t \in Services :
    (/\ s # t /\ svc[s].at = "accept" /\ svc[t].at = "accept"
     /\ runtime_of(s) = runtime_of(t))
    => setup.addr[s] \intersect setup.addr[t] = {}

\* The order of a server's life: dependencies before their dependents, the signal of
\* readiness before the parent leaves, the grace period before connections are cut.
ServicesInOrder ==
  DependenciesFirst /\ ReadySignalKept /\ GraceCoversExchanges /\ ListenersApart

\* A process that was told to shut down terminates, connections or not.
ShutdownEnds == (shut \/ main.at = "stop") ~> (main.at = "gone")
=============================================================================
