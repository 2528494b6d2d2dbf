-------------------------- MODULE SelectorRebuild --------------------------
(***************************************************************************)
(* LoadBalancerGroup: selectors over one pool of backends, each rebuilt by *)
(* a task of its own whenever discovery changes the membership, while the  *)
(* requests keep using the selector they hold; and SelectorRebuildGate,    *)
(* shared by groups, that bounds how many selectors are in memory:         *)
(* pingora-load-balancing/src/lib.rs and LoadBalancerGroup::run in         *)
(* background.rs.                                                          *)
(*                                                                         *)
(* A membership is its generation.  A selector is one of Selectors, and    *)
(* carries the readiness of the generation it was built from.              *)
(* The backends behind a generation are the module BackendView's.          *)
(***************************************************************************)
EXTENDS Naturals

CONSTANTS Groups,          \* groups that share one gate
          Slots,           \* their selector slots
          Selectors,       \* the selectors there is room for in memory
          Requests,        \* calls of select()
          Setups,          \* of which group each slot is, and what discovery finds
          MaxGeneration,   \* the memberships discovery finds, at most
          MaxDrops,        \* the rebuild tasks dropped with their runtime, at most
          None

ASSUME SlotsAssumption == Slots \subseteq Selectors
Setup == [group : [Slots -> Groups], live : SUBSET Groups, periodic : SUBSET Groups,
          limit : 0..MaxGeneration]
ASSUME SetupsAssumption == Setups \subseteq Setup
ASSUME BoundsAssumption == MaxGeneration \in Nat /\ MaxDrops \in Nat
ASSUME NoneAssumption == None \notin Selectors \union (0..MaxGeneration)

VARIABLES group,       \* the group of a slot
          periodic,    \* the groups with an update_frequency
          limit,       \* the memberships discovery finds
          generation,  \* Backends::generation of a group
          cancelled,   \* the groups dropped: rebuild_cancellation
          slot,        \* SelectorSlot; the selector it publishes was built `of`
          worker,      \* run_selector_rebuilds() of a slot, and its task guard
          permit,      \* who holds the gate's permit: a worker, a task or Free
          retired,     \* the selector whose release the gate waits for
          dropping,    \* selectors owned by a task that will drop them
          orphans,     \* selectors under construction for a dropped task
          reader,      \* the selector each request holds
          run,         \* LoadBalancerGroup::run of a group
          wake,        \* rebuild_notify: the groups with a stored permit
          drops

vars == <<group, periodic, limit, generation, cancelled, slot, worker, permit, retired,
          dropping, orphans, reader, run, wake, drops>>

fixed == <<group, periodic, limit>>
gate == <<permit, retired>>
memory == <<dropping, orphans, reader>>

Free == <<"free">>
Worker(s) == <<"worker", s>>
Task(o) == <<"task", o>>

NoSelector == [slot |-> None, sel |-> None]
Idle == [pc |-> "none", req |-> 0, sel |-> None, old |-> None]

Started == [pc |-> "update", todo |-> {}, notify |-> None, target |-> None, ready |-> FALSE]

SlotsOf(g) == {s \in Slots : group[s] = g}

Init ==
  /\ \E c \in Setups : group = c.group /\ periodic = c.periodic /\ limit = c.limit
                        /\ cancelled = Groups \ c.live
  /\ generation = [g \in Groups |-> 0]
  /\ slot = [s \in Slots |-> [pub |-> s, of |-> 0, gen |-> 0, running |-> FALSE,
                              pending |-> 0, interrupt |-> FALSE]]
  /\ worker = [s \in Slots |-> Idle]
  /\ permit = Free
  /\ retired = None
  /\ dropping = {}
  /\ orphans = {}
  /\ reader = [r \in Requests |-> NoSelector]
  /\ run = [g \in Groups |-> Started]
  /\ wake = {}
  /\ drops = 0
-----------------------------------------------------------------------------
(* A slot, and the selector it publishes, lives while its group does or a  *)
(* worker still holds it.                                                  *)
Published == {slot[s].pub : s \in {t \in Slots : group[t] \notin cancelled
                                                 \/ worker[t].pc \notin {"none", "gone"}}}

Alive == (Published \union dropping \union orphans
          \union {worker[s].sel : s \in Slots} \union {worker[s].old : s \in Slots}
          \union {reader[r].sel : r \in Requests}) \ {None}

Released(o) == o \notin Alive

\* The selector that the next build constructs.
New == CHOOSE o \in Selectors : o \notin Alive

\* schedule() goes through the slots of its group in their order.
First(todo) == CHOOSE s \in todo : TRUE
-----------------------------------------------------------------------------
(* LoadBalancerGroup::run                                                  *)

Runs(g, pc) == run[g].pc = pc /\ g \notin cancelled

\* update(): discovery finds another membership, published at once, and a
\* rebuild of every selector will be scheduled.
UpdateChanged(g) ==
  /\ Runs(g, "update") /\ generation[g] < limit
  /\ generation' = [generation EXCEPT ![g] = @ + 1]
  /\ run' = [run EXCEPT ![g].pc = "schedule", ![g].todo = SlotsOf(g)]
  /\ UNCHANGED <<fixed, cancelled, slot, worker, wake, drops, gate, memory>>

\* The membership is as before, or discovery fails: then the generation that
\* readiness waits for stays what it was.
UpdateUnchanged(g, failed) ==
  /\ Runs(g, "update")
  /\ run' = [run EXCEPT ![g].pc = "check",
                         ![g].target = IF failed \/ run[g].ready THEN @ ELSE generation[g]]
  /\ UNCHANGED <<fixed, generation, cancelled, slot, worker, wake, drops, gate, memory>>

\* schedule_selector_rebuild(): under the slot's lock the request replaces the
\* one that waits; a worker is spawned unless one runs.
ScheduleSelectorRebuild(g) ==
  /\ Runs(g, "schedule") /\ run[g].notify = None /\ run[g].todo # {}
  /\ LET s == First(run[g].todo) IN
       /\ slot' = [slot EXCEPT ![s].pending = generation[g], ![s].running = TRUE]
       /\ worker' = IF slot[s].running THEN worker
                    ELSE [worker EXCEPT ![s] = [Idle EXCEPT !.pc = "loop"]]
       /\ run' = [run EXCEPT ![g].todo = @ \ {s},
                              ![g].notify = IF slot[s].running THEN s ELSE None]
  /\ UNCHANGED <<fixed, generation, cancelled, wake, drops, gate, memory>>

\* interrupt_retry.notify_one(), after the lock is released.
InterruptRetry(g) ==
  /\ Runs(g, "schedule") /\ run[g].notify # None
  /\ slot' = [slot EXCEPT ![run[g].notify].interrupt = TRUE]
  /\ run' = [run EXCEPT ![g].notify = None]
  /\ UNCHANGED <<fixed, generation, cancelled, worker, wake, drops, gate, memory>>

\* update() returns; until readiness was signalled it is the latest
\* generation that readiness waits for.
UpdateDone(g) ==
  /\ Runs(g, "schedule") /\ run[g].notify = None /\ run[g].todo = {}
  /\ run' = [run EXCEPT ![g].pc = "check",
                         ![g].target = IF run[g].ready THEN @ ELSE generation[g]]
  /\ UNCHANGED <<fixed, generation, cancelled, slot, worker, wake, drops, gate, memory>>

SelectorsReadyFor(g, n) == \A s \in SlotsOf(g) : slot[s].gen >= n

\* notify_ready() once every selector has the generation; the loop ends when
\* nothing is scheduled and readiness was signalled.
CheckReady(g) ==
  /\ Runs(g, "check")
  /\ LET ready == \/ run[g].ready
                  \/ run[g].target # None /\ SelectorsReadyFor(g, run[g].target)
     IN run' = [run EXCEPT ![g].ready = ready,
                           ![g].pc = IF ready /\ g \notin periodic THEN "done" ELSE "wait"]
  /\ UNCHANGED <<fixed, generation, cancelled, slot, worker, wake, drops, gate, memory>>

\* The next update is due.
UpdateDue(g) ==
  /\ Runs(g, "wait") /\ g \in periodic
  /\ run' = [run EXCEPT ![g].pc = "update"]
  /\ UNCHANGED <<fixed, generation, cancelled, slot, worker, wake, drops, gate, memory>>

\* rebuild_notified(), only until readiness was signalled.
RebuildNotified(g) ==
  /\ Runs(g, "wait") /\ ~run[g].ready /\ g \in wake
  /\ wake' = wake \ {g}
  /\ run' = [run EXCEPT ![g].pc = "check"]
  /\ UNCHANGED <<fixed, generation, cancelled, slot, worker, drops, gate, memory>>

\* Shutdown, seen where the loop waits.
ShuttingDown(g) ==
  /\ Runs(g, "wait") \/ Runs(g, "update")
  /\ run' = [run EXCEPT ![g].pc = "done"]
  /\ UNCHANGED <<fixed, generation, cancelled, slot, worker, wake, drops, gate, memory>>

\* Drop of the group; no request borrows it any more.
DropGroup(g) ==
  /\ Runs(g, "done")
  /\ \A r \in Requests : reader[r].slot \notin SlotsOf(g)
  /\ cancelled' = cancelled \union {g}
  /\ run' = [run EXCEPT ![g] = Started]
  /\ UNCHANGED <<fixed, generation, slot, worker, wake, drops, gate, memory>>
-----------------------------------------------------------------------------
(* run_selector_rebuilds() of slot s                                       *)

At(s, pc) == worker[s].pc = pc
Goto(s, pc) == worker' = [worker EXCEPT ![s].pc = pc]
Cancelled(s) == group[s] \in cancelled

\* Drop of SelectorRebuildTaskGuard: the request in flight is pending again,
\* unless a newer one is.
RestoredBy(s, held) ==
  [held EXCEPT !.pending = IF worker[s].req >= @ THEN worker[s].req ELSE @,
               !.running = FALSE]

\* The task ends early; a permit it holds goes to `holder`.
Stop(s, pc, holder) ==
  /\ slot' = [slot EXCEPT ![s] = RestoredBy(s, @)]
  /\ worker' = [worker EXCEPT ![s] = [Idle EXCEPT !.pc = pc]]
  /\ permit' = IF permit = Worker(s) THEN holder ELSE permit
  /\ wake' = wake \union {group[s]}

\* The head of the loop: the task ends if the group was dropped or nothing
\* is pending.
Loop(s) ==
  /\ At(s, "loop")
  /\ \/ /\ Cancelled(s) /\ Stop(s, "none", Free)
     \/ /\ ~Cancelled(s) /\ slot[s].pending = 0
        /\ slot' = [slot EXCEPT ![s].running = FALSE]
        /\ worker' = [worker EXCEPT ![s] = Idle]
        /\ UNCHANGED <<permit, wake>>
     \/ /\ ~Cancelled(s) /\ slot[s].pending # 0
        /\ Goto(s, "queue")
        /\ UNCHANGED <<slot, permit, wake>>
  /\ UNCHANGED <<fixed, generation, cancelled, retired, memory, run, drops>>

\* SelectorRebuildGate::acquire(): the semaphore, then the release of the
\* retired selector.
Acquire(s) ==
  /\ At(s, "queue") /\ permit = Free
  /\ permit' = Worker(s)
  /\ Goto(s, "gate")
  /\ UNCHANGED <<fixed, generation, cancelled, slot, retired, memory, run, wake, drops>>

\* Mutant: the permit alone is enough.
AwaitRelease_Skipped(s) ==
  /\ At(s, "gate")
  /\ retired' = None
  /\ slot' = [slot EXCEPT ![s].pending = 0]
  /\ worker' = [worker EXCEPT ![s].pc = "taken", ![s].req = slot[s].pending]
  /\ UNCHANGED <<fixed, generation, cancelled, permit, memory, run, wake, drops>>

\* The gate is passed, and the request that is pending now is taken.
AwaitRelease(s) ==
  /\ At(s, "gate") /\ (retired # None => Released(retired))
  /\ retired' = None
  /\ slot' = [slot EXCEPT ![s].pending = 0]
  /\ worker' = [worker EXCEPT ![s].pc = "taken", ![s].req = slot[s].pending]
  /\ UNCHANGED <<fixed, generation, cancelled, permit, memory, run, wake, drops>>

\* The wakeup of the request is consumed and the build starts on a blocking
\* thread.
StartBuild(s) ==
  /\ At(s, "taken") /\ Selectors \ Alive # {}
  /\ worker' = [worker EXCEPT ![s].pc = "build", ![s].sel = New]
  /\ slot' = [slot EXCEPT ![s].interrupt = FALSE]
  /\ UNCHANGED <<fixed, generation, cancelled, gate, dropping, orphans, reader, run,
                 wake, drops>>

BuildReturns(s) ==
  /\ At(s, "build")
  /\ Goto(s, "built")
  /\ UNCHANGED <<fixed, generation, cancelled, slot, gate, memory, run, wake, drops>>

BuildPanics(s) ==
  /\ At(s, "build")
  /\ worker' = [worker EXCEPT ![s].pc = "failed", ![s].sel = None]
  /\ UNCHANGED <<fixed, generation, cancelled, slot, gate, memory, run, wake, drops>>

\* The group was dropped during the build: a task drops the selector, and
\* then the permit.
Discard(s) ==
  /\ At(s, "built") \/ At(s, "failed")
  /\ Cancelled(s)
  /\ dropping' = IF At(s, "built") THEN dropping \union {worker[s].sel} ELSE dropping
  /\ Stop(s, "none", IF At(s, "built") THEN Task(worker[s].sel) ELSE Free)
  /\ UNCHANGED <<fixed, generation, cancelled, retired, orphans, reader, run, drops>>

\* The new selector is swapped in.
Publish(s) ==
  /\ At(s, "built") /\ ~Cancelled(s)
  /\ slot' = [slot EXCEPT ![s].pub = worker[s].sel, ![s].of = worker[s].req]
  /\ worker' = [worker EXCEPT ![s].pc = "swapped", ![s].sel = None, ![s].old = slot[s].pub]
  /\ UNCHANGED <<fixed, generation, cancelled, gate, memory, run, wake, drops>>

\* SelectorRebuildGate::retire(), and a task to drop the old selector.
Retire(s) ==
  /\ At(s, "swapped")
  /\ retired' = worker[s].old
  /\ dropping' = dropping \union {worker[s].old}
  /\ worker' = [worker EXCEPT ![s].pc = "store", ![s].old = None]
  /\ UNCHANGED <<fixed, generation, cancelled, slot, permit, orphans, reader, run,
                 wake, drops>>

\* Mutant: the group is not notified.
StoreGeneration_Silent(s) ==
  /\ At(s, "store")
  /\ slot' = [slot EXCEPT ![s].gen = worker[s].req]
  /\ worker' = [worker EXCEPT ![s].pc = "loop", ![s].req = 0]
  /\ permit' = Free
  /\ UNCHANGED <<fixed, generation, cancelled, retired, memory, run, wake, drops>>

\* The generation is stored, the permit dropped and the group notified.
StoreGeneration(s) ==
  /\ At(s, "store")
  /\ slot' = [slot EXCEPT ![s].gen = worker[s].req]
  /\ worker' = [worker EXCEPT ![s].pc = "loop", ![s].req = 0]
  /\ permit' = Free
  /\ wake' = wake \union {group[s]}
  /\ UNCHANGED <<fixed, generation, cancelled, retired, memory, run, drops>>

\* Mutant: the failed request replaces a newer one.
Failed_Overwrites(s) ==
  /\ At(s, "failed") /\ ~Cancelled(s)
  /\ slot' = [slot EXCEPT ![s].pending = worker[s].req]
  /\ worker' = [worker EXCEPT ![s].pc = "backoff", ![s].req = 0]
  /\ permit' = Free
  /\ UNCHANGED <<fixed, generation, cancelled, retired, memory, run, wake, drops>>

\* The build failed: its request is pending again and waits for the backoff,
\* unless a newer one is pending, which goes ahead at once.
Failed(s) ==
  /\ At(s, "failed") /\ ~Cancelled(s)
  /\ LET newer == slot[s].pending > worker[s].req IN
       /\ slot' = IF newer THEN [slot EXCEPT ![s].interrupt = FALSE]
                  ELSE [slot EXCEPT ![s].pending = worker[s].req]
       /\ worker' = [worker EXCEPT ![s].pc = IF newer THEN "loop" ELSE "backoff", ![s].req = 0]
  /\ permit' = Free
  /\ UNCHANGED <<fixed, generation, cancelled, retired, memory, run, wake, drops>>

BackoffEnds(s) ==
  /\ At(s, "backoff")
  /\ Goto(s, "loop")
  /\ UNCHANGED <<fixed, generation, cancelled, slot, gate, memory, run, wake, drops>>

BackoffInterrupted(s) ==
  /\ At(s, "backoff") /\ slot[s].interrupt
  /\ slot' = [slot EXCEPT ![s].interrupt = FALSE]
  /\ Goto(s, "loop")
  /\ UNCHANGED <<fixed, generation, cancelled, gate, memory, run, wake, drops>>

\* wait_for_cancel(), raced with the gate and with the backoff.
WaitCancelled(s) ==
  /\ worker[s].pc \in {"queue", "gate", "backoff"} /\ Cancelled(s)
  /\ Stop(s, "none", Free)
  /\ UNCHANGED <<fixed, generation, cancelled, retired, memory, run, drops>>

\* The task is dropped with its runtime where it awaits something; a build
\* goes on without it.
TaskDropped(s) ==
  /\ worker[s].pc \in {"queue", "gate", "build", "backoff"} /\ drops < MaxDrops
  /\ drops' = drops + 1
  /\ orphans' = IF At(s, "build") THEN orphans \union {worker[s].sel} ELSE orphans
  /\ Stop(s, "gone", Free)
  /\ UNCHANGED <<fixed, generation, cancelled, retired, dropping, reader, run>>
-----------------------------------------------------------------------------
\* A task started to drop a selector does so, and drops the permit it holds.
DropTask(o) ==
  /\ o \in dropping
  /\ dropping' = dropping \ {o}
  /\ permit' = IF permit = Task(o) THEN Free ELSE permit
  /\ UNCHANGED <<fixed, generation, cancelled, slot, worker, retired, orphans,
                 reader, run, wake, drops>>

\* A build nobody waits for ends, and its result is dropped.
OrphanEnds(o) ==
  /\ o \in orphans
  /\ orphans' = orphans \ {o}
  /\ UNCHANGED <<fixed, generation, cancelled, slot, worker, gate, dropping, reader,
                 run, wake, drops>>

\* select_with(): the published selector is loaded and held.
Select(r, s) ==
  /\ reader[r] = NoSelector /\ ~Cancelled(s)
  /\ reader' = [reader EXCEPT ![r] = [slot |-> s, sel |-> slot[s].pub]]
  /\ UNCHANGED <<fixed, generation, cancelled, slot, worker, gate, dropping, orphans,
                 run, wake, drops>>

SelectReturns(r) ==
  /\ reader[r] # NoSelector
  /\ reader' = [reader EXCEPT ![r] = NoSelector]
  /\ UNCHANGED <<fixed, generation, cancelled, slot, worker, gate, dropping, orphans,
                 run, wake, drops>>

RunStep(g) ==
  \/ UpdateChanged(g) \/ ScheduleSelectorRebuild(g) \/ InterruptRetry(g)
  \/ UpdateDone(g) \/ CheckReady(g) \/ RebuildNotified(g)

WorkerStep(s) ==
  \/ Loop(s) \/ AwaitRelease(s) \/ StartBuild(s) \/ Discard(s) \/ Publish(s) \/ Retire(s)
  \/ StoreGeneration(s) \/ Failed(s) \/ BackoffEnds(s) \/ WaitCancelled(s)

\* Every group is dropped and nothing of them is left.
Finished ==
  /\ cancelled = Groups /\ Alive = {}
  /\ \A s \in Slots : worker[s].pc \in {"none", "gone"}
  /\ UNCHANGED vars

Next ==
  \/ \E g \in Groups :
       \/ RunStep(g) \/ UpdateDue(g) \/ ShuttingDown(g) \/ DropGroup(g)
       \/ \E failed \in BOOLEAN : UpdateUnchanged(g, failed)
  \/ \E s \in Slots :
       \/ WorkerStep(s) \/ Acquire(s) \/ BuildReturns(s) \/ BuildPanics(s)
       \/ BackoffInterrupted(s) \/ TaskDropped(s)
  \/ \E o \in Selectors : DropTask(o) \/ OrphanEnds(o)
  \/ \E r \in Requests : SelectReturns(r) \/ \E s \in Slots : Select(r, s)
  \/ Finished

Spec == Init /\ [][Next]_vars

\* Tasks and threads run; the semaphore is fair; a build that is tried again
\* and again succeeds at last; a request ends.
Fairness ==
  /\ \A g \in Groups : WF_vars(RunStep(g) \/ \E failed \in BOOLEAN : UpdateUnchanged(g, failed))
  /\ \A s \in Slots : WF_vars(WorkerStep(s)) /\ SF_vars(Acquire(s)) /\ SF_vars(BuildReturns(s))
                      /\ WF_vars(BuildReturns(s) \/ BuildPanics(s))
  /\ \A o \in Selectors : WF_vars(DropTask(o)) /\ WF_vars(OrphanEnds(o))
  /\ \A r \in Requests : WF_vars(SelectReturns(r))

FairSpec == Spec /\ Fairness
-----------------------------------------------------------------------------
Generations == 0..MaxGeneration

SlotState == [pub : Selectors, of : Generations, gen : Generations, running : BOOLEAN,
              pending : Generations, interrupt : BOOLEAN]

WorkerState == [pc : {"none", "gone", "loop", "queue", "gate", "taken", "build", "built",
                      "failed", "swapped", "store", "backoff"},
                req : Generations, sel : Selectors \union {None}, old : Selectors \union {None}]

RunState == [pc : {"update", "schedule", "check", "wait", "done"}, todo : SUBSET Slots,
             notify : Slots \union {None}, target : Generations \union {None}, ready : BOOLEAN]

Holders == {Free} \union {Worker(s) : s \in Slots} \union {Task(o) : o \in Selectors}

\* Slots, their workers, the gate, the rounds of the groups and the requests hold
\* what the structures of the code declare.
TypeOK ==
  /\ group \in [Slots -> Groups] /\ periodic \subseteq Groups /\ limit \in Generations
  /\ generation \in [Groups -> Generations] /\ cancelled \subseteq Groups
  /\ slot \in [Slots -> SlotState]
  /\ worker \in [Slots -> WorkerState]
  /\ permit \in Holders
  /\ retired \in Selectors \union {None}
  /\ dropping \subseteq Selectors /\ orphans \subseteq Selectors
  /\ reader \in [Requests -> [slot : Slots \union {None}, sel : Selectors \union {None}]]
  /\ run \in [Groups -> RunState]
  /\ wake \subseteq Groups /\ drops \in 0..MaxDrops

Extra == Alive \ Published

\* The groups that share a gate keep at most one selector besides the ones
\* they publish, under construction or retired with readers, whatever is
\* published, retired, discarded or cancelled in whatever order.  A build
\* that outlives its task is not counted: its permit went with the task.
OneExtraSelector == \A o, q \in Extra \ orphans : o = q

\* What the doc comment of SelectorRebuildGate says, of such builds too:
\* `at most one additional selector generation beyond their currently
\* published selectors`.
OneAdditionalGeneration == \A o, q \in Extra : o = q

\* A selector's latest membership is never lost, through coalescing, failed
\* builds and dropped tasks: it is published, in flight, pending, or about to
\* be scheduled.
LatestNotLost ==
  \A s \in Slots \ {t \in Slots : Cancelled(t)} :
    LET g == group[s] IN
      \/ generation[g] \in {slot[s].of, worker[s].req, slot[s].pending}
      \/ run[g].pc = "schedule" /\ s \in run[g].todo

Settled(s) == Cancelled(s) \/ At(s, "gone") \/ slot[s].gen = generation[group[s]]

\* Every selector reaches the latest membership, once memberships stop
\* changing, unless its task was dropped with the runtime; and then a group
\* that still runs has signalled readiness, unless its one discovery failed.
Converges ==
  /\ \A s \in Slots : <>[]Settled(s)
  /\ \A g \in Groups :
       <>[](\/ run[g].ready \/ run[g].pc = "done" \/ run[g].target = None
            \/ \E s \in SlotsOf(g) : ~Settled(s) \/ At(s, "gone"))
=============================================================================
