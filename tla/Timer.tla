------------------------------- MODULE Timer -------------------------------
(***************************************************************************)
(* TimerManager: the timers behind fast_timeout(), rounded to a resolution *)
(* and shared, and the clock thread that fires them:                       *)
(* pingora-timeout/src/timer.rs and fast_timeout.rs.                       *)
(*                                                                         *)
(* Time is counted in fractions of a millisecond, Frac to the millisecond; *)
(* keys of the timer trees are milliseconds.  A Timer is named by the      *)
(* timeout that created it.  The clock thread runs and the process is not  *)
(* paused for a fork; TimerClock is about those.                           *)
(***************************************************************************)
EXTENDS Integers, FiniteSets, FiniteSetsExt, Functions

CONSTANTS Timeouts,      \* the calls of register_timer()
          Threads,
          ThreadOf,      \* the thread a timeout is registered on
          Durations,     \* in fractions of a millisecond
          Frac,
          Res,           \* RESOLUTION_MS
          MaxTime,       \* the last instant the model reaches
          None

\* What the constants are taken to be.
ConstantsOK ==
  /\ ThreadOf \in [Timeouts -> Threads]
  /\ Frac \in Nat \ {0} /\ Res \in Nat \ {0} /\ MaxTime \in Nat
  /\ Durations \subseteq Nat
  /\ None \notin Timeouts /\ None \notin Threads /\ None \notin Nat

VARIABLES now,           \* the instant, since `zero`
          timers,        \* each thread's tree: a function from keys to timers
          flag,          \* the timers whose flag is set
          pc,            \* where each timeout is
          stub,          \* the timer it subscribed to, itself if it made one
          due,           \* the instant it was asked to end at
          clock          \* the clock thread

vars == <<now, timers, flag, pc, stub, due, clock>>

PC == {"start", "lookup", "insert", "stub", "checked", "waiting", "done"}

\* round_to(): the next multiple of the resolution; raw is at least 1.
RoundTo(raw) == (raw - 1) + Res - ((raw - 1) % Res)

\* Mutant: the fraction of a millisecond is cut off.
Time_Truncated(d) == RoundTo(d \div Frac)

\* From<Duration> for Time: the fraction of a millisecond is rounded up.
Time(d) == RoundTo((d + Frac - 1) \div Frac)

Asleep == [at |-> "sleep", ms |-> 0, left |-> {}, thread |-> None, firing |-> None]

Init ==
  /\ now = 1
  /\ timers = [t \in Threads |-> [k \in {} |-> None]]
  /\ flag = {}
  /\ pc = [w \in Timeouts |-> "start"]
  /\ stub = [w \in Timeouts |-> None]
  /\ due = [w \in Timeouts |-> 0]
  /\ clock = Asleep

Goto(w, s) == pc' = [pc EXCEPT ![w] = s]

\* A thread runs one register_timer() at a time.
Free(w) == \A v \in Timeouts : ThreadOf[v] = ThreadOf[w] => pc[v] \notin {"lookup", "insert"}

\* register_timer() reads the clock and computes the key, Time(due[w]).
Register(w, d) ==
  /\ pc[w] = "start" /\ Free(w)
  /\ Time(now + d) * Frac <= MaxTime
  /\ due' = [due EXCEPT ![w] = now + d]
  /\ Goto(w, "lookup")
  /\ UNCHANGED <<now, timers, flag, stub, clock>>

\* register_timer() subscribes to its thread's timer of that key, under the
\* read lock.
Lookup(w) ==
  LET t == ThreadOf[w] IN
  /\ pc[w] = "lookup"
  /\ clock.thread # t
  /\ IF Time(due[w]) \in DOMAIN timers[t]
       THEN Goto(w, "stub") /\ stub' = [stub EXCEPT ![w] = timers[t][Time(due[w])]]
       ELSE Goto(w, "insert") /\ UNCHANGED stub
  /\ UNCHANGED <<now, timers, flag, due, clock>>

\* register_timer() inserts a new timer, under the write lock.
Insert(w) ==
  LET t == ThreadOf[w]
      k == Time(due[w]) IN
  /\ pc[w] = "insert"
  /\ clock.thread # t
  /\ timers' = [timers EXCEPT ![t] = [j \in DOMAIN timers[t] \cup {k} |->
                                        IF j = k THEN w ELSE timers[t][j]]]
  /\ stub' = [stub EXCEPT ![w] = w]
  /\ Goto(w, "stub")
  /\ UNCHANGED <<now, flag, due, clock>>

\* TimerStub::poll() loads the flag ...
PollFlag(w) ==
  /\ pc[w] = "stub"
  /\ Goto(w, IF stub[w] \in flag THEN "done" ELSE "checked")
  /\ UNCHANGED <<now, timers, flag, stub, due, clock>>

\* ... and calls notified(), whose future sees the calls of notify_waiters()
\* from here on.
Notified(w) ==
  /\ pc[w] = "checked"
  /\ Goto(w, "waiting")
  /\ UNCHANGED <<now, timers, flag, stub, due, clock>>

\* clock_thread() wakes and reads the time.
Wake ==
  /\ clock.at = "sleep"
  /\ clock' = [Asleep EXCEPT !.at = "scan", !.ms = now \div Frac, !.left = Threads]
  /\ UNCHANGED <<now, timers, flag, pc, stub, due>>

\* clock_thread() takes the write lock of a thread's tree.
Lock(t) ==
  /\ clock.at = "scan" /\ clock.thread = None
  /\ t \in clock.left
  /\ clock' = [clock EXCEPT !.thread = t, !.left = @ \ {t}]
  /\ UNCHANGED <<now, timers, flag, pc, stub, due>>

\* The keys of the locked tree that are not after the time the clock read.
Expired == {k \in DOMAIN timers[clock.thread] : k <= clock.ms}

\* clock_thread() removes the first timer that is due and sets its flag ...
FireFlag ==
  LET t == clock.thread
      k == Min(Expired) IN
  /\ clock.thread # None /\ clock.firing = None
  /\ Expired # {}
  /\ timers' = [timers EXCEPT ![t] = Restrict(@, DOMAIN @ \ {k})]
  /\ flag' = flag \cup {timers[t][k]}
  /\ clock' = [clock EXCEPT !.firing = timers[t][k]]
  /\ UNCHANGED <<now, pc, stub, due>>

\* ... and then notifies the waiters.
FireNotify ==
  /\ clock.firing # None
  /\ pc' = [w \in Timeouts |-> IF pc[w] = "waiting" /\ stub[w] = clock.firing THEN "done" ELSE pc[w]]
  /\ clock' = [clock EXCEPT !.firing = None]
  /\ UNCHANGED <<now, timers, flag, stub, due>>

\* clock_thread() drops the write lock, and sleeps after the last tree.
Unlock ==
  /\ clock.thread # None /\ clock.firing = None
  /\ Expired = {}
  /\ clock' = IF clock.left = {} THEN Asleep ELSE [clock EXCEPT !.thread = None]
  /\ UNCHANGED <<now, timers, flag, pc, stub, due>>

Tick ==
  /\ now < MaxTime
  /\ now' = now + 1
  /\ UNCHANGED <<timers, flag, pc, stub, due, clock>>

Clock == Wake \/ (\E t \in Threads : Lock(t)) \/ FireFlag \/ FireNotify \/ Unlock

Step(w) == (\E d \in Durations : Register(w, d)) \/ Lookup(w) \/ Insert(w)
           \/ PollFlag(w) \/ Notified(w)

Next ==
  \/ \E w \in Timeouts : Step(w)
  \/ Clock \/ Tick

Spec == Init /\ [][Next]_vars

\* Time passes and the threads run.
FairSpec ==
  /\ Spec
  /\ WF_vars(Clock) /\ WF_vars(Tick)
  /\ \A w \in Timeouts : WF_vars(Step(w))

TypeOK ==
  /\ now \in 1 .. MaxTime
  /\ \A t \in Threads : /\ DOMAIN timers[t] \subseteq {Res * n : n \in 1 .. MaxTime}
                         /\ Range(timers[t]) \subseteq Timeouts
  /\ flag \subseteq Timeouts
  /\ pc \in [Timeouts -> PC]
  /\ stub \in [Timeouts -> Timeouts \cup {None}]
  /\ due \in [Timeouts -> Nat]
  /\ clock \in [at : {"sleep", "scan"}, ms : Nat, left : SUBSET Threads,
                thread : Threads \cup {None}, firing : Timeouts \cup {None}]

\* A timeout may run late by the resolution but never ends before it is due,
\* whichever timeout made the timer it shares.
NeverEarly == \A w \in Timeouts : pc[w] = "done" /\ stub[w] # None => now >= due[w]

\* The timer of a pending timeout is in its thread's tree until it fires: no
\* register_timer() overwrites a timer that others subscribed to.
PendingInTree ==
  \A w \in Timeouts :
    pc[w] \in {"stub", "checked", "waiting"} /\ stub[w] \notin flag =>
      stub[w] \in Range(timers[ThreadOf[w]])

\* What a registered timeout may rely on: it does not end early, and its timer
\* is where the clock thread will look for it.
TimersKept == NeverEarly /\ PendingInTree

\* "When the timer expires, the [TimerStub] will be notified": a timeout whose
\* stub is polled ends.
TimeoutEnds == \A w \in Timeouts : pc[w] = "stub" ~> pc[w] = "done"

\* Every timer that register_timer() returns a stub of is fired by the clock
\* thread.
TimerFires == \A w \in Timeouts : pc[w] = "stub" ~> stub[w] \in flag
============================================================================
