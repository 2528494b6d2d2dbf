----------------------------- MODULE TimerClock -----------------------------
(***************************************************************************)
(* The life of the clock thread: started by the first call of a fast       *)
(* timeout, watched by clock_watchdog, lost at a fork and started again    *)
(* (pingora-timeout/src/fast_timeout.rs, timer.rs).  The timers themselves *)
(* are module Timer; here a call only registers one that a later scan of   *)
(* a clock thread fires.                                                   *)
(*                                                                         *)
(* Time is relative: `age` is now minus the watchdog in seconds, up to     *)
(* DELAYS_SEC.  A caller's `prev` differs from the watchdog iff something  *)
(* was stored since, because it is stale by then; `current` are the        *)
(* callers whose `prev` still is the watchdog's value.                     *)
(***************************************************************************)
EXTENDS Naturals, FiniteSets

CONSTANTS Calls,         \* callers of fast_timeout() and fast_sleep(), over and over
          Clocks,        \* clock threads
          DELAYS_SEC

\* What the constants are taken to be.
ConstantsOK == DELAYS_SEC \in Nat \ {0}

VARIABLES age, current,
          paused,
          fork,          \* the process: "no", "pausing", "forked", "done"
          clock,         \* each clock thread: "none", "sleep" or "scan"
          pc,            \* each caller
          stalled        \* history: a clock thread did not run for DELAYS_SEC

vars == <<age, current, paused, fork, clock, pc, stalled>>

PC == {"idle", "stale", "register", "pending", "lost"}

Alive == {c \in Clocks : clock[c] # "none"}

Init ==
  /\ age = DELAYS_SEC
  /\ current = {}
  /\ paused = FALSE
  /\ fork = "no"
  /\ clock = [c \in Clocks |-> "none"]
  /\ pc = [w \in Calls |-> "idle"]
  /\ stalled = FALSE

Goto(w, s) == pc' = [pc EXCEPT ![w] = s]

\* is_clock_running()
CheckClock(w) ==
  /\ pc[w] = "idle"
  /\ IF age < DELAYS_SEC
       THEN Goto(w, "register") /\ UNCHANGED current
       ELSE Goto(w, "stale") /\ current' = current \cup {w}
  /\ UNCHANGED <<age, paused, fork, clock, stalled>>

\* should_i_start_clock(): who wins the compare_exchange spawns the thread.
StartClock(w) ==
  /\ pc[w] = "stale"
  /\ IF w \in current
       THEN /\ \E c \in Clocks \ Alive : clock' = [clock EXCEPT ![c] = "sleep"]
            /\ age' = 0
            /\ current' = {}
       ELSE UNCHANGED <<age, current, clock>>
  /\ Goto(w, "register")
  /\ UNCHANGED <<paused, fork, stalled>>

\* register_timer(): a stub that fires right away while paused.
Register(w) ==
  /\ pc[w] = "register"
  /\ Goto(w, IF paused THEN "idle" ELSE "pending")
  /\ UNCHANGED <<age, current, paused, fork, clock, stalled>>

\* clock_thread() wakes and stores the watchdog; while paused it takes no lock.
Wake(c) ==
  /\ clock[c] = "sleep"
  /\ age' = 0
  /\ current' = {}
  /\ clock' = [clock EXCEPT ![c] = IF paused THEN "sleep" ELSE "scan"]
  /\ UNCHANGED <<paused, fork, pc, stalled>>

\* clock_thread() fires the timers that are due.
Scan(c, due) ==
  /\ clock[c] = "scan"
  /\ pc' = [w \in Calls |-> IF pc[w] = "pending" /\ w \in due THEN "idle" ELSE pc[w]]
  /\ clock' = [clock EXCEPT ![c] = "sleep"]
  /\ UNCHANGED <<age, current, paused, fork, stalled>>

\* Server::run() calls pause_for_fork() ...
Pause ==
  /\ fork = "no"
  /\ paused' = TRUE
  /\ fork' = "pausing"
  /\ UNCHANGED <<age, current, clock, pc, stalled>>

\* ... and forks: the child has no other thread than the one that forked, so
\* neither clock threads nor callers.
Fork ==
  /\ fork = "pausing"
  /\ fork' = "forked"
  /\ clock' = [c \in Clocks |-> "none"]
  /\ pc' = [w \in Calls |-> IF pc[w] = "idle" THEN "idle" ELSE "lost"]
  /\ current' = {}
  /\ stalled' = FALSE
  /\ UNCHANGED <<age, paused>>

\* unpause(); only then does the child start its threads.
Unpause ==
  /\ fork = "forked"
  /\ paused' = FALSE
  /\ fork' = "done"
  /\ pc' = [w \in Calls |-> "idle"]
  /\ UNCHANGED <<age, current, clock, stalled>>

\* A second passes, whether or not the clock threads got to run.
Tick ==
  /\ age < DELAYS_SEC
  /\ age' = age + 1
  /\ stalled' = (stalled \/ (age + 1 = DELAYS_SEC /\ Alive # {}))
  /\ UNCHANGED <<current, paused, fork, clock, pc>>

Call(w) == fork # "forked" /\ (CheckClock(w) \/ StartClock(w) \/ Register(w))

Next ==
  \/ \E w \in Calls : Call(w)
  \/ \E c \in Clocks : Wake(c) \/ \E due \in SUBSET Calls : Scan(c, due)
  \/ Pause \/ Fork \/ Unpause \/ Tick

Spec == Init /\ [][Next]_vars

\* Threads run, time passes, a fork that began ends, and callers call again.
\* Timers become due and then every scan fires them, hence strong fairness.
FairSpec ==
  /\ Spec
  /\ WF_vars(Fork \/ Unpause) /\ WF_vars(Tick)
  /\ \A w \in Calls : WF_vars(Call(w))
  /\ \A c \in Clocks : WF_vars(Wake(c)) /\ SF_vars(Scan(c, Calls))

TypeOK ==
  /\ age \in 0 .. DELAYS_SEC
  /\ current \subseteq {w \in Calls : pc[w] = "stale"}
  /\ paused \in BOOLEAN
  /\ fork \in {"no", "pausing", "forked", "done"}
  /\ clock \in [Clocks -> {"none", "sleep", "scan"}]
  /\ pc \in [Calls -> PC]
  /\ stalled \in BOOLEAN

\* While no clock thread has stalled for DELAYS_SEC there is at most one,
\* however many callers find the watchdog stale at once, before and after a
\* fork.
OneClock == ~stalled => Cardinality(Alive) <= 1

\* A timer fires if it was registered before the fork, or since and with a
\* clock thread alive: the first call starts the clock, and neither stalls nor
\* a second clock thread keep it from firing.
ClockFiresTimers ==
  \A w \in Calls :
    pc[w] = "pending" /\ (fork # "done" \/ Alive # {}) ~> pc[w] # "pending"

\* Every timer that is registered fires, in the child of a fork too.
TimersFire == \A w \in Calls : pc[w] = "pending" ~> pc[w] # "pending"
=============================================================================
