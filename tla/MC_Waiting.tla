----------------------------- MODULE MC_Waiting -----------------------------
(***************************************************************************)
(* Small instances of the components in which somebody waits for somebody  *)
(* else: the read-through cache, the publication of a fill, the timers and *)
(* the clock thread, and the services of a server process with their       *)
(* dependencies.  They do not interact: `part' says which of them runs in  *)
(* a behaviour, and the others stay in their initial states.               *)
(***************************************************************************)
EXTENDS ReadThrough, Integers

CONSTANTS Parts,          \* the components this run explores
          Durations, MaxTime

VARIABLES part,
          open, published, publishedAny, waiters, cursor, woken, told, reader,
          now, timers, flag, timeout, stub, due, scan,
          age, current, paused, fork, clock, caller, stalled,
          setup, main, parent, graph, started, service, boot, shut, conn

\* Readers with overlapping interests in what is published.
Fill == INSTANCE FillPublication
          WITH pc <- reader, Readers <- {1, 2}, Tokens <- {1, 2},
               Unusable <- <<{1}, {1, 2}>>, Budget <- 2, Gone <- 0

fillVars == <<open, published, publishedAny, waiters, cursor, woken, told, reader>>

\* Two timeouts of one thread, which may share a timer; the clock thread also
\* visits a thread that has none.
Time == INSTANCE Timer
          WITH pc <- timeout, clock <- scan, Timeouts <- {1, 2}, Threads <- {1, 2},
               ThreadOf <- <<1, 1>>, Frac <- 2, Res <- 2, None <- NoLock

timeVars == <<now, timers, flag, timeout, stub, due, scan>>

Clock == INSTANCE TimerClock
           WITH pc <- caller, Calls <- {1, 2}, Clocks <- {1, 2}, DELAYS_SEC <- 2

clockVars == <<age, current, paused, fork, clock, caller, stalled>>

-----------------------------------------------------------------------------
(* Configurations of a server process.                                     *)

Ab == {"a", "b"}
Abc == {"a", "b", "c"}

Base == [services |-> Ab, calls |-> <<<<"b", "a">>>>,
         kind |-> [s \in Ab |-> "listen"], group |-> [s \in Ab |-> "own"],
         groups |-> [r \in {"g"} |-> [threads |-> -1, opts |-> FALSE]],
         threads |-> [s \in Ab |-> -1], opts |-> [s \in Ab |-> FALSE],
         addr |-> [s \in Ab |-> {s}], conf |-> [threads |-> 1],
         daemon |-> FALSE, wait |-> TRUE, user |-> "none", upgrade |-> FALSE,
         quick |-> TRUE, signal |-> "term"]

\* A chain and a refused cycle over a slow, a panicking and a listening service.
Cyclic == [Base EXCEPT !.services = Abc,
             !.calls = <<<<"b", "a">>, <<"c", "b">>, <<"a", "c">>, <<"c", "a">>>>,
             !.kind = [s \in Abc |-> IF s = "a" THEN "slow" ELSE IF s = "b" THEN "panics" ELSE "listen"],
             !.group = [s \in Abc |-> IF s = "a" THEN "own" ELSE "g"],
             !.threads = [s \in Abc |-> -1], !.opts = [s \in Abc |-> FALSE],
             !.addr = [s \in Abc |-> {s}]]

\* The daemon with its bootstrap service, under another user, the same one or one
\* that does not exist; its parent waits, or does not.
Daemon(user, upgrade, signal) ==
  [Base EXCEPT !.kind = [s \in Ab |-> IF s = "a" THEN "boot" ELSE "listen"],
     !.daemon = TRUE, !.user = user, !.upgrade = upgrade, !.signal = signal]

\* Two services on one runtime.
Together(addrs, opts, threads) ==
  [Base EXCEPT !.calls = << >>, !.group = [s \in Ab |-> "g"], !.addr = addrs,
     !.opts = [s \in Ab |-> opts], !.threads = [s \in Ab |-> threads]]

Configurations ==
  {Base, [Base EXCEPT !.signal = "fast", !.quick = FALSE], [Base EXCEPT !.quick = FALSE],
   Cyclic, Daemon("known", TRUE, "quit"), Daemon("none", FALSE, "term"),
   Daemon("unknown", FALSE, "term"), [Daemon("known", TRUE, "term") EXCEPT !.wait = FALSE],
   [Daemon("none", FALSE, "quit") EXCEPT !.calls = << >>],
   Together([s \in Ab |-> {s}], FALSE, 2), Together([s \in Ab |-> {"x"}], FALSE, -1),
   Together([s \in Ab |-> {s}], TRUE, -1), Together([s \in Ab |-> {s}], FALSE, 0)}

Run == INSTANCE ServerRun WITH svc <- service, Setups <- Configurations

runVars == <<setup, main, parent, graph, started, service, boot, shut, conn>>

ASSUME Fill!ConstantsOK /\ Time!ConstantsOK /\ Clock!ConstantsOK
-----------------------------------------------------------------------------
SumInit ==
    /\ part \in Parts
    /\ Init /\ (part # "get" => cached = "none")
    /\ Fill!Init /\ Time!Init /\ Clock!Init
    /\ Run!Init /\ (part # "run" => setup = Base)

SumNext ==
    \/ part = "get" /\ Next /\ UNCHANGED <<part, fillVars, timeVars, clockVars, runVars>>
    \/ part = "fill" /\ Fill!Next /\ UNCHANGED <<part, vars, timeVars, clockVars, runVars>>
    \/ part = "timer" /\ Time!Next /\ UNCHANGED <<part, vars, fillVars, clockVars, runVars>>
    \/ part = "clock" /\ Clock!Next /\ UNCHANGED <<part, vars, fillVars, timeVars, runVars>>
    \/ part = "run" /\ Run!Next /\ UNCHANGED <<part, vars, fillVars, timeVars, clockVars>>

\* The fairness of each component: see FairSpec in their modules.
Fairness ==
    /\ \A r \in Requests : WF_vars(part = "get" /\ Step(r))
    /\ WF_fillVars(part = "fill" /\ Fill!Send)
    /\ \A r \in {1, 2} : WF_fillVars(part = "fill" /\ Fill!ReaderStep(r))
    /\ WF_timeVars(part = "timer" /\ Time!Clock) /\ WF_timeVars(part = "timer" /\ Time!Tick)
    /\ \A w \in {1, 2} : WF_timeVars(part = "timer" /\ Time!Step(w))
    /\ WF_clockVars(part = "clock" /\ (Clock!Fork \/ Clock!Unpause))
    /\ WF_clockVars(part = "clock" /\ Clock!Tick)
    /\ \A w \in {1, 2} : WF_clockVars(part = "clock" /\ Clock!Call(w))
    /\ \A c \in {1, 2} : /\ WF_clockVars(part = "clock" /\ Clock!Wake(c))
                         /\ SF_clockVars(part = "clock" /\ Clock!Scan(c, {1, 2}))
    /\ WF_runVars(part = "run" /\ Run!MainStep)
    /\ WF_runVars(part = "run" /\ Run!ParentStep)
    /\ WF_runVars(part = "run" /\ Run!NotifyStep)
    /\ WF_runVars(part = "run" /\ Run!StopStep)
    /\ WF_runVars(part = "run" /\ \E s \in Run!Services : Run!ServiceStep(s))

SumSpec == SumInit /\ [][SumNext]_<<part, vars, fillVars, timeVars, clockVars, runVars>> /\ Fairness
-----------------------------------------------------------------------------
(* The components' properties: see their modules.                          *)
RegistrySound == Fill!RegistrySound
TimersKept == Time!TimersKept /\ Clock!OneClock
ServicesInOrder == Run!ServicesInOrder
TimeoutEnds == part = "timer" => Time!TimeoutEnds

\* Every wait ends: a get() that missed returns, a reader stops waiting for a
\* fill it cannot use (and goes with the release if there was one), a timer is
\* fired, and so is one the clock thread was started or forked for; a service
\* begins, the parent of a daemon ends, and a server that is told to stop stops.
EveryWaitEnds ==
    /\ part = "get" => EveryGetReturns
    /\ part = "fill" => Fill!UnusableFillEndsWait
    /\ Fill!ReleaseWins
    /\ part = "timer" => Time!TimerFires
    /\ part = "clock" => Clock!ClockFiresTimers
    /\ part = "run" => Run!EveryServiceBegins /\ Run!ParentEnds /\ Run!ShutdownEnds
=============================================================================
