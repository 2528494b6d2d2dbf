------------------------ MODULE SelectorRebuildProofs ------------------------
(***************************************************************************)
(* For any number of groups, selectors, requests and memberships: a        *)
(* selector's latest membership is never lost, and the groups that share a *)
(* SelectorRebuildGate keep at most one selector besides the ones they     *)
(* publish.                                                                *)
(***************************************************************************)
EXTENDS SelectorRebuild, TLAPS

Off(s) == worker[s].pc \in {"none", "gone"}

\* From the gate to the release of the permit.
Inside(s) == worker[s].pc \in {"gate", "taken", "build", "built", "failed", "swapped", "store"}

-----------------------------------------------------------------------------
(* Why LatestNotLost holds: the requests of a slot only grow.              *)

Latest(s) == generation[group[s]]

InOrder(last, of, pending, req, pc) ==
  /\ of <= last /\ req <= last /\ pending <= last
  /\ pending # 0 => pending >= of /\ pending >= req
  /\ pc \in {"none", "gone", "loop", "queue", "gate", "backoff"} => req = 0
  /\ pc \in {"queue", "gate"} => pending # 0
  /\ pc \in {"taken", "build", "built", "failed"} => req # 0 /\ req >= of
  /\ pc \in {"swapped", "store"} => req = of

RequestedAt(s) == InOrder(Latest(s), slot[s].of, slot[s].pending, worker[s].req, worker[s].pc)

Awaited(s) ==
  \/ Latest(s) \in {slot[s].of, worker[s].req, slot[s].pending}
  \/ run[group[s]].pc = "schedule" /\ s \in run[group[s]].todo

\* What update() schedules are the slots of the group, after a change.
Scheduled ==
  \A g \in Groups : run[g].pc = "schedule" =>
    generation[g] # 0 /\ \A s \in run[g].todo : group[s] = g

LatestInv ==
  Scheduled /\ \A s \in Slots : RequestedAt(s) /\ (~Cancelled(s) => Awaited(s))

-----------------------------------------------------------------------------
(* Why OneExtraSelector holds: a selector besides the published ones is    *)
(* the one the gate's permit is for, or the retired one.                   *)

Live(s) == ~Cancelled(s) \/ ~Off(s)

GateInv ==
  /\ \A s \in Slots :
       /\ ~slot[s].running => Off(s)
       /\ Inside(s) <=> permit = Worker(s)
       /\ worker[s].sel # None <=> worker[s].pc \in {"build", "built"}
       /\ worker[s].old # None <=> worker[s].pc = "swapped"
  /\ retired # None =>
       permit = Free \/ \E s \in Slots : permit = Worker(s) /\ worker[s].pc \in {"gate", "store"}
  /\ \A o \in Selectors : permit = Task(o) => o \in dropping

\* A published selector is nobody else's.
PublishedApart ==
  \A s \in Slots : Live(s) =>
    /\ slot[s].pub \notin dropping /\ slot[s].pub \notin orphans
    /\ \A t \in Slots : /\ Live(t) /\ t # s => slot[t].pub # slot[s].pub
                        /\ worker[t].sel # slot[s].pub /\ worker[t].old # slot[s].pub

\* A request holds a selector its slot publishes or has published.
ReadersApart ==
  \A r \in Requests : reader[r] # NoSelector =>
    /\ reader[r].slot \in Slots /\ ~Cancelled(reader[r].slot)
    /\ reader[r].sel # None /\ reader[r].sel \notin orphans /\ permit # Task(reader[r].sel)
    /\ \A t \in Slots : /\ worker[t].sel # reader[r].sel
                        /\ Live(t) /\ t # reader[r].slot => slot[t].pub # reader[r].sel

\* A selector under construction is held by its builder alone.
BuildsApart ==
  /\ orphans \cap dropping = {}
  /\ \A s \in Slots : worker[s].sel \notin dropping \union orphans /\ worker[s].old \notin orphans

\* A selector is dropped because it was retired or discarded; a request holds one
\* that is published, swapped out or retired.
Accounted ==
  /\ \A o \in dropping : o = retired \/ permit = Task(o)
  /\ \A r \in Requests : reader[r] # NoSelector =>
       \/ reader[r].sel \in {slot[reader[r].slot].pub, retired}
       \/ \E s \in Slots : worker[s].old = reader[r].sel

MemoryInv == GateInv /\ PublishedApart /\ ReadersApart /\ BuildsApart /\ Accounted

-----------------------------------------------------------------------------
LEMMA NoneIsApart == None \notin Selectors /\ None \notin Slots /\ Slots \subseteq Selectors
BY Zenon, SlotsAssumption, NoneAssumption

LEMMA Fresh == ASSUME Selectors \ Alive # {} PROVE New \in Selectors /\ New \notin Alive
BY Zenon DEF New

LEMMA FirstOf ==
  ASSUME TypeOK, NEW g \in Groups, run[g].todo # {}
  PROVE  First(run[g].todo) \in run[g].todo /\ First(run[g].todo) \in Slots
<1>1. run[g].todo \subseteq Slots BY Zenon DEF TypeOK, RunState
<1> QED BY Zenon, <1>1 DEF First

LEMMA Zero == 0 \in Generations BY BoundsAssumption DEF Generations

LEMMA IdleTyped ==
  ASSUME NEW pc \in {"none", "gone", "loop"}
  PROVE  [Idle EXCEPT !.pc = pc] \in WorkerState /\ Idle \in WorkerState
BY Zenon, Zero DEF Idle, WorkerState

LEMMA InitTypeOK == Init => TypeOK
<1> SUFFICES ASSUME Init PROVE TypeOK BY Zenon
<1>1. /\ group \in [Slots -> Groups] /\ periodic \subseteq Groups /\ limit \in Generations
      /\ cancelled \subseteq Groups
  BY Zenon, SetupsAssumption DEF Init, Setup, Generations
<1>2. slot \in [Slots -> SlotState] BY Zenon, Zero, SlotsAssumption DEF Init, SlotState
<1>3. worker \in [Slots -> WorkerState] BY Zenon, IdleTyped DEF Init
<1>4. reader \in [Requests -> [slot : Slots \union {None}, sel : Selectors \union {None}]]
  BY Zenon DEF Init, NoSelector
<1>5. run \in [Groups -> RunState] BY Zenon DEF Init, Started, RunState
<1>6. permit \in Holders /\ drops \in 0..MaxDrops BY BoundsAssumption DEF Init, Holders
<1> QED BY Zenon, <1>1, <1>2, <1>3, <1>4, <1>5, <1>6, Zero DEF Init, TypeOK

-----------------------------------------------------------------------------
(* What the actions do, field by field, and that they keep the types.      *)

Others(s) == \A t \in Slots : t # s => slot'[t] = slot[t] /\ worker'[t] = worker[t]

WorkerIs(s, pc, req, sel, old) ==
  worker'[s].pc = pc /\ worker'[s].req = req /\ worker'[s].sel = sel /\ worker'[s].old = old

SlotIs(s, pub, of, pending, running) ==
  /\ slot'[s].pub = pub /\ slot'[s].of = of
  /\ slot'[s].pending = pending /\ slot'[s].running = running

LEMMA SetWorker ==
  ASSUME worker \in [Slots -> WorkerState], NEW s \in Slots, NEW w \in WorkerState,
         worker' = [worker EXCEPT ![s] = w]
  PROVE  /\ worker' \in [Slots -> WorkerState] /\ worker'[s] = w
         /\ \A t \in Slots : t # s => worker'[t] = worker[t]
BY Zenon

LEMMA SetSlot ==
  ASSUME slot \in [Slots -> SlotState], NEW s \in Slots, NEW x \in SlotState,
         slot' = [slot EXCEPT ![s] = x]
  PROVE  /\ slot' \in [Slots -> SlotState] /\ slot'[s] = x
         /\ \A t \in Slots : t # s => slot'[t] = slot[t]
BY Zenon

LEMMA StopDoes ==
  ASSUME TypeOK, NEW s \in Slots, NEW pc \in {"none", "gone"}, NEW h \in Holders, Stop(s, pc, h)
  PROVE  /\ slot' \in [Slots -> SlotState] /\ worker' \in [Slots -> WorkerState]
         /\ permit' \in Holders /\ wake' \subseteq Groups
         /\ Others(s) /\ WorkerIs(s, pc, 0, None, None)
         /\ SlotIs(s, slot[s].pub, slot[s].of,
                   IF worker[s].req >= slot[s].pending THEN worker[s].req ELSE slot[s].pending, FALSE)
         /\ permit' = (IF permit = Worker(s) THEN h ELSE permit)
<1> DEFINE x == RestoredBy(s, slot[s])
           w == [Idle EXCEPT !.pc = pc]
<1>t. /\ worker \in [Slots -> WorkerState] /\ slot \in [Slots -> SlotState] /\ permit \in Holders
      /\ wake \subseteq Groups /\ group[s] \in Groups
  BY Zenon DEF TypeOK
<1>1. /\ x \in SlotState /\ x.pub = slot[s].pub /\ x.of = slot[s].of /\ x.running = FALSE
      /\ x.pending = IF worker[s].req >= slot[s].pending THEN worker[s].req ELSE slot[s].pending
  <2>1. worker[s].req \in Generations /\ slot[s] \in SlotState BY Zenon, <1>t DEF WorkerState
  <2> QED BY Zenon, <2>1 DEF RestoredBy, SlotState
<1>2. w \in WorkerState /\ w.pc = pc /\ w.req = 0 /\ w.sel = None /\ w.old = None
  BY Zenon, IdleTyped DEF Idle
<1>3. slot' = [slot EXCEPT ![s] = x] /\ worker' = [worker EXCEPT ![s] = w]
  BY Zenon DEF Stop
<1> HIDE DEF x, w
<1>4. slot' \in [Slots -> SlotState] /\ slot'[s] = x /\ worker' \in [Slots -> WorkerState]
      /\ worker'[s] = w /\ Others(s)
  BY <1>t, <1>1, <1>2, <1>3, SetSlot, SetWorker DEF Others
<1>5. permit' = (IF permit = Worker(s) THEN h ELSE permit) /\ wake' \subseteq Groups
  BY Zenon, <1>t DEF Stop
<1> QED BY Zenon, <1>t, <1>1, <1>2, <1>4, <1>5 DEF WorkerIs, SlotIs

\* Each action of a worker: the fields it leaves and the rest of the state in its type.
LEMMA AcquireDoes ==
  ASSUME TypeOK, NEW s \in Slots, Acquire(s)
  PROVE  /\ TypeOK' /\ Others(s)
         /\ WorkerIs(s, "gate", worker[s].req, worker[s].sel, worker[s].old)
         /\ SlotIs(s, slot[s].pub, slot[s].of, slot[s].pending, slot[s].running)
<1> DEFINE w == [worker[s] EXCEPT !.pc = "gate"]
<1>t. worker \in [Slots -> WorkerState] /\ slot \in [Slots -> SlotState] BY Zenon DEF TypeOK
<1>u. worker[s] \in WorkerState /\ slot[s] \in SlotState BY Zenon, <1>t
<1>1. w \in WorkerState /\ w.pc = "gate" /\ w.req = worker[s].req /\ w.sel = worker[s].sel /\ w.old = worker[s].old
  BY Zenon, <1>t, <1>u, Zero DEF WorkerState
<1>2. worker' = [worker EXCEPT ![s] = w] BY Zenon DEF Acquire, Goto
<1>3. slot' = slot BY Zenon DEF Acquire
<1> HIDE DEF w
<1>6. worker' \in [Slots -> WorkerState] /\ worker'[s] = w /\ \A t \in Slots : t # s => worker'[t] = worker[t]
  BY Zenon, <1>t, <1>1, <1>2, SetWorker
<1>7. TypeOK' BY Zenon, <1>t, <1>6, <1>3 DEF Acquire, TypeOK, fixed, gate, memory, Holders
<1> QED BY Zenon, <1>1, <1>3, <1>6, <1>7 DEF Others, WorkerIs, SlotIs

LEMMA AwaitReleaseDoes ==
  ASSUME TypeOK, NEW s \in Slots, AwaitRelease(s)
  PROVE  /\ TypeOK' /\ Others(s)
         /\ WorkerIs(s, "taken", slot[s].pending, worker[s].sel, worker[s].old)
         /\ SlotIs(s, slot[s].pub, slot[s].of, 0, slot[s].running)
<1> DEFINE w == [worker[s] EXCEPT !.pc = "taken", !.req = slot[s].pending]
           x == [slot[s] EXCEPT !.pending = 0]
<1>t. worker \in [Slots -> WorkerState] /\ slot \in [Slots -> SlotState] BY Zenon DEF TypeOK
<1>u. worker[s] \in WorkerState /\ slot[s] \in SlotState BY Zenon, <1>t
<1>1. w \in WorkerState /\ w.pc = "taken" /\ w.req = slot[s].pending /\ w.sel = worker[s].sel /\ w.old = worker[s].old
  BY Zenon, <1>t, <1>u, Zero DEF WorkerState, SlotState
<1>2. worker' = [worker EXCEPT ![s] = w] BY Zenon DEF AwaitRelease, Goto
<1>3. x \in SlotState /\ x.pub = slot[s].pub /\ x.of = slot[s].of /\ x.pending = 0 /\ x.running = slot[s].running
  BY Zenon, <1>t, <1>u, Zero DEF SlotState
<1>4. slot' = [slot EXCEPT ![s] = x] BY Zenon DEF AwaitRelease
<1> HIDE DEF w, x
<1>5. slot' \in [Slots -> SlotState] /\ slot'[s] = x /\ \A t \in Slots : t # s => slot'[t] = slot[t]
  BY Zenon, <1>t, <1>3, <1>4, SetSlot
<1>6. worker' \in [Slots -> WorkerState] /\ worker'[s] = w /\ \A t \in Slots : t # s => worker'[t] = worker[t]
  BY Zenon, <1>t, <1>1, <1>2, SetWorker
<1>7. TypeOK' BY Zenon, <1>t, <1>6, <1>3, <1>5 DEF AwaitRelease, TypeOK, fixed, gate, memory
<1> QED BY Zenon, <1>1, <1>3, <1>5, <1>6, <1>7 DEF Others, WorkerIs, SlotIs

LEMMA StartBuildDoes ==
  ASSUME TypeOK, NEW s \in Slots, StartBuild(s)
  PROVE  /\ TypeOK' /\ Others(s)
         /\ WorkerIs(s, "build", worker[s].req, New, worker[s].old)
         /\ SlotIs(s, slot[s].pub, slot[s].of, slot[s].pending, slot[s].running)
<1> DEFINE w == [worker[s] EXCEPT !.pc = "build", !.sel = New]
           x == [slot[s] EXCEPT !.interrupt = FALSE]
<1>t. worker \in [Slots -> WorkerState] /\ slot \in [Slots -> SlotState] BY Zenon DEF TypeOK
<1>f. New \in Selectors BY Zenon, Fresh DEF StartBuild
<1>u. worker[s] \in WorkerState /\ slot[s] \in SlotState BY Zenon, <1>t
<1>1. w \in WorkerState /\ w.pc = "build" /\ w.req = worker[s].req /\ w.sel = New /\ w.old = worker[s].old
  BY Zenon, <1>t, <1>u, Zero, <1>f DEF WorkerState
<1>2. worker' = [worker EXCEPT ![s] = w] BY Zenon DEF StartBuild, Goto
<1>3. x \in SlotState /\ x.pub = slot[s].pub /\ x.of = slot[s].of /\ x.pending = slot[s].pending /\ x.running = slot[s].running
  BY Zenon, <1>t, <1>u, Zero DEF SlotState
<1>4. slot' = [slot EXCEPT ![s] = x] BY Zenon DEF StartBuild
<1> HIDE DEF w, x
<1>5. slot' \in [Slots -> SlotState] /\ slot'[s] = x /\ \A t \in Slots : t # s => slot'[t] = slot[t]
  BY Zenon, <1>t, <1>3, <1>4, SetSlot
<1>6. worker' \in [Slots -> WorkerState] /\ worker'[s] = w /\ \A t \in Slots : t # s => worker'[t] = worker[t]
  BY Zenon, <1>t, <1>1, <1>2, SetWorker
<1>7. TypeOK' BY Zenon, <1>t, <1>6, <1>3, <1>5, <1>f DEF StartBuild, TypeOK, fixed, gate, memory
<1> QED BY Zenon, <1>1, <1>3, <1>5, <1>6, <1>7 DEF Others, WorkerIs, SlotIs

LEMMA BuildReturnsDoes ==
  ASSUME TypeOK, NEW s \in Slots, BuildReturns(s)
  PROVE  /\ TypeOK' /\ Others(s)
         /\ WorkerIs(s, "built", worker[s].req, worker[s].sel, worker[s].old)
         /\ SlotIs(s, slot[s].pub, slot[s].of, slot[s].pending, slot[s].running)
<1> DEFINE w == [worker[s] EXCEPT !.pc = "built"]
<1>t. worker \in [Slots -> WorkerState] /\ slot \in [Slots -> SlotState] BY Zenon DEF TypeOK
<1>u. worker[s] \in WorkerState /\ slot[s] \in SlotState BY Zenon, <1>t
<1>1. w \in WorkerState /\ w.pc = "built" /\ w.req = worker[s].req /\ w.sel = worker[s].sel /\ w.old = worker[s].old
  BY Zenon, <1>t, <1>u, Zero DEF WorkerState
<1>2. worker' = [worker EXCEPT ![s] = w] BY Zenon DEF BuildReturns, Goto
<1>3. slot' = slot BY Zenon DEF BuildReturns
<1> HIDE DEF w
<1>6. worker' \in [Slots -> WorkerState] /\ worker'[s] = w /\ \A t \in Slots : t # s => worker'[t] = worker[t]
  BY Zenon, <1>t, <1>1, <1>2, SetWorker
<1>7. TypeOK' BY Zenon, <1>t, <1>6, <1>3 DEF BuildReturns, TypeOK, fixed, gate, memory
<1> QED BY Zenon, <1>1, <1>3, <1>6, <1>7 DEF Others, WorkerIs, SlotIs

LEMMA BuildPanicsDoes ==
  ASSUME TypeOK, NEW s \in Slots, BuildPanics(s)
  PROVE  /\ TypeOK' /\ Others(s)
         /\ WorkerIs(s, "failed", worker[s].req, None, worker[s].old)
         /\ SlotIs(s, slot[s].pub, slot[s].of, slot[s].pending, slot[s].running)
<1> DEFINE w == [worker[s] EXCEPT !.pc = "failed", !.sel = None]
<1>t. worker \in [Slots -> WorkerState] /\ slot \in [Slots -> SlotState] BY Zenon DEF TypeOK
<1>u. worker[s] \in WorkerState /\ slot[s] \in SlotState BY Zenon, <1>t
<1>1. w \in WorkerState /\ w.pc = "failed" /\ w.req = worker[s].req /\ w.sel = None /\ w.old = worker[s].old
  BY Zenon, <1>t, <1>u, Zero DEF WorkerState
<1>2. worker' = [worker EXCEPT ![s] = w] BY Zenon DEF BuildPanics, Goto
<1>3. slot' = slot BY Zenon DEF BuildPanics
<1> HIDE DEF w
<1>6. worker' \in [Slots -> WorkerState] /\ worker'[s] = w /\ \A t \in Slots : t # s => worker'[t] = worker[t]
  BY Zenon, <1>t, <1>1, <1>2, SetWorker
<1>7. TypeOK' BY Zenon, <1>t, <1>6, <1>3 DEF BuildPanics, TypeOK, fixed, gate, memory
<1> QED BY Zenon, <1>1, <1>3, <1>6, <1>7 DEF Others, WorkerIs, SlotIs

LEMMA PublishDoes ==
  ASSUME TypeOK, GateInv, NEW s \in Slots, Publish(s)
  PROVE  /\ TypeOK' /\ Others(s)
         /\ WorkerIs(s, "swapped", worker[s].req, None, slot[s].pub)
         /\ SlotIs(s, worker[s].sel, worker[s].req, slot[s].pending, slot[s].running)
<1> DEFINE w == [worker[s] EXCEPT !.pc = "swapped", !.sel = None, !.old = slot[s].pub]
           x == [slot[s] EXCEPT !.pub = worker[s].sel, !.of = worker[s].req]
<1>t. worker \in [Slots -> WorkerState] /\ slot \in [Slots -> SlotState] BY Zenon DEF TypeOK
<1>b. worker[s].sel \in Selectors BY Zenon, <1>t DEF GateInv, Publish, At, WorkerState
<1>u. worker[s] \in WorkerState /\ slot[s] \in SlotState BY Zenon, <1>t
<1>1. w \in WorkerState /\ w.pc = "swapped" /\ w.req = worker[s].req /\ w.sel = None /\ w.old = slot[s].pub
  BY Zenon, <1>t, <1>u, Zero DEF WorkerState, SlotState
<1>2. worker' = [worker EXCEPT ![s] = w] BY Zenon DEF Publish, Goto
<1>3. x \in SlotState /\ x.pub = worker[s].sel /\ x.of = worker[s].req /\ x.pending = slot[s].pending /\ x.running = slot[s].running
  BY Zenon, <1>t, <1>u, Zero, <1>b DEF SlotState, WorkerState
<1>4. slot' = [slot EXCEPT ![s] = x] BY Zenon DEF Publish
<1> HIDE DEF w, x
<1>5. slot' \in [Slots -> SlotState] /\ slot'[s] = x /\ \A t \in Slots : t # s => slot'[t] = slot[t]
  BY Zenon, <1>t, <1>3, <1>4, SetSlot
<1>6. worker' \in [Slots -> WorkerState] /\ worker'[s] = w /\ \A t \in Slots : t # s => worker'[t] = worker[t]
  BY Zenon, <1>t, <1>1, <1>2, SetWorker
<1>7. TypeOK' BY Zenon, <1>t, <1>6, <1>3, <1>5 DEF Publish, TypeOK, fixed, gate, memory
<1> QED BY Zenon, <1>1, <1>3, <1>5, <1>6, <1>7 DEF Others, WorkerIs, SlotIs

LEMMA RetireDoes ==
  ASSUME TypeOK, GateInv, NEW s \in Slots, Retire(s)
  PROVE  /\ TypeOK' /\ Others(s)
         /\ WorkerIs(s, "store", worker[s].req, worker[s].sel, None)
         /\ SlotIs(s, slot[s].pub, slot[s].of, slot[s].pending, slot[s].running)
<1> DEFINE w == [worker[s] EXCEPT !.pc = "store", !.old = None]
<1>t. worker \in [Slots -> WorkerState] /\ slot \in [Slots -> SlotState] BY Zenon DEF TypeOK
<1>b. worker[s].old \in Selectors BY Zenon, <1>t DEF GateInv, Retire, At, WorkerState
<1>u. worker[s] \in WorkerState /\ slot[s] \in SlotState BY Zenon, <1>t
<1>1. w \in WorkerState /\ w.pc = "store" /\ w.req = worker[s].req /\ w.sel = worker[s].sel /\ w.old = None
  BY Zenon, <1>t, <1>u, Zero DEF WorkerState
<1>2. worker' = [worker EXCEPT ![s] = w] BY Zenon DEF Retire, Goto
<1>3. slot' = slot BY Zenon DEF Retire
<1> HIDE DEF w
<1>6. worker' \in [Slots -> WorkerState] /\ worker'[s] = w /\ \A t \in Slots : t # s => worker'[t] = worker[t]
  BY Zenon, <1>t, <1>1, <1>2, SetWorker
<1>7. TypeOK' BY Zenon, <1>b, <1>t, <1>6, <1>3 DEF Retire, TypeOK, fixed, gate, memory
<1> QED BY Zenon, <1>1, <1>3, <1>6, <1>7 DEF Others, WorkerIs, SlotIs

LEMMA StoreGenerationDoes ==
  ASSUME TypeOK, NEW s \in Slots, StoreGeneration(s)
  PROVE  /\ TypeOK' /\ Others(s)
         /\ WorkerIs(s, "loop", 0, worker[s].sel, worker[s].old)
         /\ SlotIs(s, slot[s].pub, slot[s].of, slot[s].pending, slot[s].running)
<1> DEFINE w == [worker[s] EXCEPT !.pc = "loop", !.req = 0]
           x == [slot[s] EXCEPT !.gen = worker[s].req]
<1>t. worker \in [Slots -> WorkerState] /\ slot \in [Slots -> SlotState] BY Zenon DEF TypeOK
<1>u. worker[s] \in WorkerState /\ slot[s] \in SlotState BY Zenon, <1>t
<1>1. w \in WorkerState /\ w.pc = "loop" /\ w.req = 0 /\ w.sel = worker[s].sel /\ w.old = worker[s].old
  BY Zenon, <1>t, <1>u, Zero DEF WorkerState
<1>2. worker' = [worker EXCEPT ![s] = w] BY Zenon DEF StoreGeneration, Goto
<1>3. x \in SlotState /\ x.pub = slot[s].pub /\ x.of = slot[s].of /\ x.pending = slot[s].pending /\ x.running = slot[s].running
  BY Zenon, <1>t, <1>u, Zero DEF SlotState, WorkerState
<1>4. slot' = [slot EXCEPT ![s] = x] BY Zenon DEF StoreGeneration
<1> HIDE DEF w, x
<1>5. slot' \in [Slots -> SlotState] /\ slot'[s] = x /\ \A t \in Slots : t # s => slot'[t] = slot[t]
  BY Zenon, <1>t, <1>3, <1>4, SetSlot
<1>6. worker' \in [Slots -> WorkerState] /\ worker'[s] = w /\ \A t \in Slots : t # s => worker'[t] = worker[t]
  BY Zenon, <1>t, <1>1, <1>2, SetWorker
<1>7. TypeOK' BY <1>t, <1>6, <1>3, <1>5 DEF StoreGeneration, TypeOK, fixed, gate, memory, Holders
<1> QED BY Zenon, <1>1, <1>3, <1>5, <1>6, <1>7 DEF Others, WorkerIs, SlotIs

LEMMA BackoffEndsDoes ==
  ASSUME TypeOK, NEW s \in Slots, BackoffEnds(s)
  PROVE  /\ TypeOK' /\ Others(s)
         /\ WorkerIs(s, "loop", worker[s].req, worker[s].sel, worker[s].old)
         /\ SlotIs(s, slot[s].pub, slot[s].of, slot[s].pending, slot[s].running)
<1> DEFINE w == [worker[s] EXCEPT !.pc = "loop"]
<1>t. worker \in [Slots -> WorkerState] /\ slot \in [Slots -> SlotState] BY Zenon DEF TypeOK
<1>u. worker[s] \in WorkerState /\ slot[s] \in SlotState BY Zenon, <1>t
<1>1. w \in WorkerState /\ w.pc = "loop" /\ w.req = worker[s].req /\ w.sel = worker[s].sel /\ w.old = worker[s].old
  BY Zenon, <1>t, <1>u, Zero DEF WorkerState
<1>2. worker' = [worker EXCEPT ![s] = w] BY Zenon DEF BackoffEnds, Goto
<1>3. slot' = slot BY Zenon DEF BackoffEnds
<1> HIDE DEF w
<1>6. worker' \in [Slots -> WorkerState] /\ worker'[s] = w /\ \A t \in Slots : t # s => worker'[t] = worker[t]
  BY Zenon, <1>t, <1>1, <1>2, SetWorker
<1>7. TypeOK' BY Zenon, <1>t, <1>6, <1>3 DEF BackoffEnds, TypeOK, fixed, gate, memory
<1> QED BY Zenon, <1>1, <1>3, <1>6, <1>7 DEF Others, WorkerIs, SlotIs

LEMMA BackoffInterruptedDoes ==
  ASSUME TypeOK, NEW s \in Slots, BackoffInterrupted(s)
  PROVE  /\ TypeOK' /\ Others(s)
         /\ WorkerIs(s, "loop", worker[s].req, worker[s].sel, worker[s].old)
         /\ SlotIs(s, slot[s].pub, slot[s].of, slot[s].pending, slot[s].running)
<1> DEFINE w == [worker[s] EXCEPT !.pc = "loop"]
           x == [slot[s] EXCEPT !.interrupt = FALSE]
<1>t. worker \in [Slots -> WorkerState] /\ slot \in [Slots -> SlotState] BY Zenon DEF TypeOK
<1>u. worker[s] \in WorkerState /\ slot[s] \in SlotState BY Zenon, <1>t
<1>1. w \in WorkerState /\ w.pc = "loop" /\ w.req = worker[s].req /\ w.sel = worker[s].sel /\ w.old = worker[s].old
  BY Zenon, <1>t, <1>u, Zero DEF WorkerState
<1>2. worker' = [worker EXCEPT ![s] = w] BY Zenon DEF BackoffInterrupted, Goto
<1>3. x \in SlotState /\ x.pub = slot[s].pub /\ x.of = slot[s].of /\ x.pending = slot[s].pending /\ x.running = slot[s].running
  BY Zenon, <1>t, <1>u, Zero DEF SlotState
<1>4. slot' = [slot EXCEPT ![s] = x] BY Zenon DEF BackoffInterrupted
<1> HIDE DEF w, x
<1>5. slot' \in [Slots -> SlotState] /\ slot'[s] = x /\ \A t \in Slots : t # s => slot'[t] = slot[t]
  BY Zenon, <1>t, <1>3, <1>4, SetSlot
<1>6. worker' \in [Slots -> WorkerState] /\ worker'[s] = w /\ \A t \in Slots : t # s => worker'[t] = worker[t]
  BY Zenon, <1>t, <1>1, <1>2, SetWorker
<1>7. TypeOK' BY Zenon, <1>t, <1>6, <1>3, <1>5 DEF BackoffInterrupted, TypeOK, fixed, gate, memory
<1> QED BY Zenon, <1>1, <1>3, <1>5, <1>6, <1>7 DEF Others, WorkerIs, SlotIs

LEMMA FailedDoes ==
  ASSUME TypeOK, NEW s \in Slots, Failed(s)
  PROVE  /\ TypeOK' /\ Others(s)
         /\ \/ /\ slot[s].pending > worker[s].req
               /\ WorkerIs(s, "loop", 0, worker[s].sel, worker[s].old)
               /\ SlotIs(s, slot[s].pub, slot[s].of, slot[s].pending, slot[s].running)
            \/ /\ ~(slot[s].pending > worker[s].req)
               /\ WorkerIs(s, "backoff", 0, worker[s].sel, worker[s].old)
               /\ SlotIs(s, slot[s].pub, slot[s].of, worker[s].req, slot[s].running)
<1> DEFINE newer == slot[s].pending > worker[s].req
           w == [worker[s] EXCEPT !.pc = IF newer THEN "loop" ELSE "backoff", !.req = 0]
           x == IF newer THEN [slot[s] EXCEPT !.interrupt = FALSE]
                ELSE [slot[s] EXCEPT !.pending = worker[s].req]
<1>t. worker \in [Slots -> WorkerState] /\ slot \in [Slots -> SlotState] BY Zenon DEF TypeOK
<1>u. worker[s] \in WorkerState /\ slot[s] \in SlotState BY Zenon, <1>t
<1>2. worker' = [worker EXCEPT ![s] = w] /\ slot' = [slot EXCEPT ![s] = x] BY Zenon DEF Failed
<1> HIDE DEF newer
<1>1. /\ w \in WorkerState /\ w.pc = (IF newer THEN "loop" ELSE "backoff") /\ w.req = 0
      /\ w.sel = worker[s].sel /\ w.old = worker[s].old
  BY Zenon, <1>u, Zero DEF WorkerState
<1>3. /\ x \in SlotState /\ x.pub = slot[s].pub /\ x.of = slot[s].of
      /\ x.pending = (IF newer THEN slot[s].pending ELSE worker[s].req)
      /\ x.running = slot[s].running
  <2>1. worker[s].req \in Generations BY Zenon, <1>u DEF WorkerState
  <2> QED BY Zenon, <1>u, <2>1 DEF SlotState
<1> HIDE DEF w, x
<1>5. slot' \in [Slots -> SlotState] /\ slot'[s] = x /\ \A t \in Slots : t # s => slot'[t] = slot[t]
  BY Zenon, <1>t, <1>2, <1>3, SetSlot
<1>6. worker' \in [Slots -> WorkerState] /\ worker'[s] = w /\ \A t \in Slots : t # s => worker'[t] = worker[t]
  BY Zenon, <1>t, <1>1, <1>2, SetWorker
<1>7. TypeOK' BY Zenon, <1>5, <1>6 DEF Failed, TypeOK, fixed, memory, Holders
<1> QED BY Zenon, <1>1, <1>3, <1>5, <1>6, <1>7 DEF Others, WorkerIs, SlotIs, newer

LEMMA HoldersAre == Free \in Holders /\ \A o \in Selectors : Task(o) \in Holders
BY Zenon DEF Holders

LEMMA LoopDoes ==
  ASSUME TypeOK, NEW s \in Slots, Loop(s)
  PROVE  /\ TypeOK' /\ Others(s)
         /\ \/ Cancelled(s) /\ Stop(s, "none", Free)
            \/ /\ ~Cancelled(s) /\ slot[s].pending = 0 /\ permit' = permit
               /\ WorkerIs(s, "none", 0, None, None)
               /\ SlotIs(s, slot[s].pub, slot[s].of, slot[s].pending, FALSE)
            \/ /\ ~Cancelled(s) /\ slot[s].pending # 0 /\ permit' = permit
               /\ WorkerIs(s, "queue", worker[s].req, worker[s].sel, worker[s].old)
               /\ SlotIs(s, slot[s].pub, slot[s].of, slot[s].pending, slot[s].running)
<1>t. worker \in [Slots -> WorkerState] /\ slot \in [Slots -> SlotState] BY Zenon DEF TypeOK
<1>u. worker[s] \in WorkerState /\ slot[s] \in SlotState BY Zenon, <1>t
<1>1. CASE Cancelled(s) /\ Stop(s, "none", Free)
  <2>1. /\ slot' \in [Slots -> SlotState] /\ worker' \in [Slots -> WorkerState]
        /\ permit' \in Holders /\ wake' \subseteq Groups /\ Others(s)
    BY Zenon, <1>1, StopDoes, HoldersAre
  <2>2. TypeOK' BY Zenon, <2>1 DEF Loop, TypeOK, fixed, memory
  <2> QED BY Zenon, <1>1, <2>1, <2>2
<1>2. CASE /\ ~Cancelled(s) /\ slot[s].pending = 0
           /\ slot' = [slot EXCEPT ![s].running = FALSE]
           /\ worker' = [worker EXCEPT ![s] = Idle]
           /\ UNCHANGED <<permit, wake>>
  <2> DEFINE x == [slot[s] EXCEPT !.running = FALSE]
  <2>1. /\ x \in SlotState /\ x.pub = slot[s].pub /\ x.of = slot[s].of /\ x.pending = slot[s].pending
        /\ x.running = FALSE
    BY Zenon, <1>u DEF SlotState
  <2>2. slot' = [slot EXCEPT ![s] = x] BY Zenon, <1>2
  <2> HIDE DEF x
  <2>3. slot' \in [Slots -> SlotState] /\ slot'[s] = x /\ \A t \in Slots : t # s => slot'[t] = slot[t]
    BY Zenon, <1>t, <2>1, <2>2, SetSlot
  <2>4. worker' \in [Slots -> WorkerState] /\ worker'[s] = Idle /\ \A t \in Slots : t # s => worker'[t] = worker[t]
    BY Zenon, <1>t, <1>2, IdleTyped, SetWorker
  <2>5. TypeOK' BY Zenon, <1>2, <2>3, <2>4 DEF Loop, TypeOK, fixed, memory
  <2> QED BY Zenon, <1>2, <2>1, <2>3, <2>4, <2>5 DEF Others, WorkerIs, SlotIs, Idle
<1>3. CASE /\ ~Cancelled(s) /\ slot[s].pending # 0
           /\ Goto(s, "queue")
           /\ UNCHANGED <<slot, permit, wake>>
  <2> DEFINE w == [worker[s] EXCEPT !.pc = "queue"]
  <2>1. /\ w \in WorkerState /\ w.pc = "queue" /\ w.req = worker[s].req /\ w.sel = worker[s].sel
        /\ w.old = worker[s].old
    BY Zenon, <1>u DEF WorkerState
  <2>2. worker' = [worker EXCEPT ![s] = w] BY Zenon, <1>3 DEF Goto
  <2> HIDE DEF w
  <2>4. worker' \in [Slots -> WorkerState] /\ worker'[s] = w /\ \A t \in Slots : t # s => worker'[t] = worker[t]
    BY Zenon, <1>t, <2>1, <2>2, SetWorker
  <2>5. TypeOK' BY Zenon, <1>3, <2>4 DEF Loop, TypeOK, fixed, memory
  <2> QED BY Zenon, <1>3, <2>1, <2>4, <2>5 DEF Others, WorkerIs, SlotIs
<1> QED BY Zenon, <1>1, <1>2, <1>3 DEF Loop

\* The three ways a task ends early.
StopsAt(s, pc, h) ==
  /\ Stop(s, pc, h) /\ h \in Holders /\ pc \in {"none", "gone"}
  /\ UNCHANGED <<group, generation, cancelled, retired, reader, run>>

LEMMA WaitCancelledDoes ==
  ASSUME TypeOK, NEW s \in Slots, WaitCancelled(s)
  PROVE  TypeOK' /\ StopsAt(s, "none", Free) /\ UNCHANGED <<dropping, orphans>>
<1>1. Stop(s, "none", Free) BY Zenon DEF WaitCancelled
<1>2. /\ slot' \in [Slots -> SlotState] /\ worker' \in [Slots -> WorkerState]
      /\ permit' \in Holders /\ wake' \subseteq Groups
  BY Zenon, <1>1, StopDoes, HoldersAre
<1> QED BY Zenon, <1>1, <1>2, HoldersAre DEF WaitCancelled, StopsAt, TypeOK, fixed, memory

LEMMA TaskDroppedDoes ==
  ASSUME TypeOK, GateInv, NEW s \in Slots, TaskDropped(s)
  PROVE  /\ TypeOK' /\ StopsAt(s, "gone", Free) /\ UNCHANGED dropping
         /\ orphans' = IF At(s, "build") THEN orphans \union {worker[s].sel} ELSE orphans
<1>1. Stop(s, "gone", Free) BY Zenon DEF TaskDropped
<1>2. /\ slot' \in [Slots -> SlotState] /\ worker' \in [Slots -> WorkerState]
      /\ permit' \in Holders /\ wake' \subseteq Groups
  BY Zenon, <1>1, StopDoes, HoldersAre
<1>3. At(s, "build") => worker[s].sel \in Selectors BY Zenon DEF TypeOK, GateInv, At, WorkerState
<1>4. drops' \in 0..MaxDrops BY BoundsAssumption DEF TaskDropped, TypeOK
<1>5. orphans' \subseteq Selectors BY Zenon, <1>3 DEF TaskDropped, TypeOK
<1> QED BY Zenon, <1>1, <1>2, <1>4, <1>5, HoldersAre DEF TaskDropped, StopsAt, TypeOK, fixed

LEMMA DiscardDoes ==
  ASSUME TypeOK, GateInv, NEW s \in Slots, Discard(s)
  PROVE  /\ TypeOK' /\ UNCHANGED orphans
         /\ \/ /\ At(s, "built") /\ StopsAt(s, "none", Task(worker[s].sel))
               /\ dropping' = dropping \union {worker[s].sel}
            \/ At(s, "failed") /\ StopsAt(s, "none", Free) /\ dropping' = dropping
<1>1. At(s, "built") => worker[s].sel \in Selectors BY Zenon DEF TypeOK, GateInv, At, WorkerState
<1>2. At(s, "failed") => ~At(s, "built") BY Zenon DEF At
<1>3. PICK h \in Holders : /\ Stop(s, "none", h)
                           /\ h = IF At(s, "built") THEN Task(worker[s].sel) ELSE Free
  BY Zenon, <1>1, HoldersAre DEF Discard
<1>4. /\ slot' \in [Slots -> SlotState] /\ worker' \in [Slots -> WorkerState]
      /\ permit' \in Holders /\ wake' \subseteq Groups
  BY Zenon, <1>3, StopDoes
<1>5. TypeOK' BY Zenon, <1>1, <1>4 DEF Discard, TypeOK, fixed
<1> QED BY Zenon, <1>2, <1>3, <1>5 DEF Discard, StopsAt, fixed

LEMMA SetRun ==
  ASSUME run \in [Groups -> RunState], NEW g \in Groups, NEW x \in RunState,
         run' = [run EXCEPT ![g] = x]
  PROVE  /\ run' \in [Groups -> RunState] /\ run'[g] = x
         /\ \A h \in Groups : h # g => run'[h] = run[h]
BY Zenon

OtherRuns(g) == \A h \in Groups : h # g => run'[h] = run[h]

\* Everything a worker, a request or the gate has to do with.
apart == <<group, generation, slot, worker, permit, retired, dropping, orphans, reader>>

LEMMA UpdateChangedDoes ==
  ASSUME TypeOK, NEW g \in Groups, UpdateChanged(g)
  PROVE  /\ TypeOK' /\ OtherRuns(g) /\ run'[g].pc = "schedule" /\ run'[g].todo = SlotsOf(g)
         /\ generation'[g] = generation[g] + 1
         /\ \A h \in Groups : h # g => generation'[h] = generation[h]
         /\ UNCHANGED <<group, cancelled, slot, worker, permit, retired, dropping, orphans, reader>>
<1> DEFINE x == [run[g] EXCEPT !.pc = "schedule", !.todo = SlotsOf(g)]
<1>t. run \in [Groups -> RunState] /\ generation \in [Groups -> Generations] /\ limit \in Generations
  BY Zenon DEF TypeOK
<1>1. x \in RunState /\ x.pc = "schedule" /\ x.todo = SlotsOf(g) BY Zenon, <1>t DEF RunState, SlotsOf
<1>2. run' = [run EXCEPT ![g] = x] BY Zenon DEF UpdateChanged
<1> HIDE DEF x
<1>3. run' \in [Groups -> RunState] /\ run'[g] = x /\ OtherRuns(g)
  BY Zenon, <1>t, <1>1, <1>2, SetRun DEF OtherRuns
<1>4. generation[g] + 1 \in Generations
  BY <1>t, BoundsAssumption DEF UpdateChanged, Generations
<1>5. /\ generation' \in [Groups -> Generations] /\ generation'[g] = generation[g] + 1
      /\ \A h \in Groups : h # g => generation'[h] = generation[h]
  BY Zenon, <1>t, <1>4 DEF UpdateChanged
<1>6. TypeOK' BY Zenon, <1>3, <1>5 DEF UpdateChanged, TypeOK, fixed, gate, memory
<1> QED BY Zenon, <1>1, <1>3, <1>5, <1>6 DEF UpdateChanged, fixed, gate, memory

LEMMA ScheduleDoes ==
  ASSUME TypeOK, NEW g \in Groups, ScheduleSelectorRebuild(g)
  PROVE  \E s \in Slots :
           /\ s \in run[g].todo /\ g \notin cancelled /\ run[g].pc = "schedule"
           /\ TypeOK' /\ Others(s) /\ OtherRuns(g)
           /\ run'[g].pc = "schedule" /\ run'[g].todo = run[g].todo \ {s}
           /\ SlotIs(s, slot[s].pub, slot[s].of, generation[g], TRUE)
           /\ \/ slot[s].running /\ worker'[s] = worker[s]
              \/ ~slot[s].running /\ WorkerIs(s, "loop", 0, None, None)
           /\ UNCHANGED <<group, generation, cancelled, permit, retired, dropping, orphans, reader>>
<1> DEFINE s == First(run[g].todo)
<1>s. s \in run[g].todo /\ s \in Slots /\ g \notin cancelled /\ run[g].pc = "schedule"
  BY Zenon, FirstOf DEF ScheduleSelectorRebuild, Runs
<1>0. /\ slot' = [slot EXCEPT ![s].pending = generation[g], ![s].running = TRUE]
      /\ worker' = IF slot[s].running THEN worker
                   ELSE [worker EXCEPT ![s] = [Idle EXCEPT !.pc = "loop"]]
      /\ run' = [run EXCEPT ![g].todo = run[g].todo \ {s},
                             ![g].notify = IF slot[s].running THEN s ELSE None]
  BY Zenon DEF ScheduleSelectorRebuild, TypeOK
<1> HIDE DEF s
<1>t. /\ worker \in [Slots -> WorkerState] /\ slot \in [Slots -> SlotState]
      /\ run \in [Groups -> RunState] /\ generation[g] \in Generations
  BY Zenon DEF TypeOK
<1> DEFINE x == [slot[s] EXCEPT !.pending = generation[g], !.running = TRUE]
           w == [Idle EXCEPT !.pc = "loop"]
           n == IF slot[s].running THEN s ELSE None
           r == [run[g] EXCEPT !.todo = run[g].todo \ {s}, !.notify = n]
<1>1. /\ x \in SlotState /\ x.pub = slot[s].pub /\ x.of = slot[s].of
      /\ x.pending = generation[g] /\ x.running = TRUE
  BY Zenon, <1>t, <1>s DEF SlotState
<1>2. w \in WorkerState /\ w.pc = "loop" /\ w.req = 0 /\ w.sel = None /\ w.old = None
  BY Zenon, IdleTyped DEF Idle
<1>3. slot' = [slot EXCEPT ![s] = x] /\ run' = [run EXCEPT ![g] = r] BY Zenon, <1>0
<1>n. n \in Slots \union {None} BY Zenon, <1>s
<1> HIDE DEF n
<1>4. r \in RunState /\ r.pc = "schedule" /\ r.todo = run[g].todo \ {s}
  <2>1. run[g] \in RunState BY Zenon, <1>t
  <2> QED BY Zenon, <2>1, <1>s, <1>n DEF RunState
<1> HIDE DEF x, r
<1>5. slot' \in [Slots -> SlotState] /\ slot'[s] = x /\ \A t \in Slots : t # s => slot'[t] = slot[t]
  BY Zenon, <1>t, <1>s, <1>1, <1>3, SetSlot
<1>6. run' \in [Groups -> RunState] /\ run'[g] = r /\ OtherRuns(g)
  BY Zenon, <1>t, <1>3, <1>4, SetRun DEF OtherRuns
<1>7. /\ worker' \in [Slots -> WorkerState] /\ \A t \in Slots : t # s => worker'[t] = worker[t]
      /\ \/ slot[s].running /\ worker'[s] = worker[s]
         \/ ~slot[s].running /\ WorkerIs(s, "loop", 0, None, None)
  <2>1. CASE slot[s].running BY Zenon, <2>1, <1>0, <1>t
  <2>2. CASE ~slot[s].running
    <3>1. worker' = [worker EXCEPT ![s] = w] BY Zenon, <2>2, <1>0
    <3> HIDE DEF w
    <3> QED BY Zenon, <2>2, <3>1, <1>2, <1>t, <1>s, SetWorker DEF WorkerIs
  <2> QED BY Zenon, <2>1, <2>2
<1>8. TypeOK' BY Zenon, <1>5, <1>6, <1>7 DEF ScheduleSelectorRebuild, TypeOK, fixed, gate, memory
<1>9. Others(s) /\ SlotIs(s, slot[s].pub, slot[s].of, generation[g], TRUE)
  BY Zenon, <1>1, <1>5, <1>7 DEF Others, SlotIs
<1>10. UNCHANGED <<group, generation, cancelled, permit, retired, dropping, orphans, reader>>
  BY Zenon DEF ScheduleSelectorRebuild, fixed, gate, memory
<1>11. run'[g].pc = "schedule" /\ run'[g].todo = run[g].todo \ {s} BY Zenon, <1>4, <1>6
<1> QED BY Zenon, <1>s, <1>6, <1>7, <1>8, <1>9, <1>10, <1>11

LEMMA InterruptDoes ==
  ASSUME TypeOK, NEW g \in Groups, InterruptRetry(g)
  PROVE  /\ TypeOK' /\ OtherRuns(g) /\ run'[g].pc = run[g].pc /\ run'[g].todo = run[g].todo
         /\ \A s \in Slots : SlotIs(s, slot[s].pub, slot[s].of, slot[s].pending, slot[s].running)
         /\ UNCHANGED <<group, generation, cancelled, worker, permit, retired, dropping, orphans, reader>>
<1> DEFINE s == run[g].notify
           x == [slot[s] EXCEPT !.interrupt = TRUE]
           r == [run[g] EXCEPT !.notify = None]
<1>t. slot \in [Slots -> SlotState] /\ run \in [Groups -> RunState] BY Zenon DEF TypeOK
<1>s. s \in Slots BY Zenon, <1>t DEF InterruptRetry, RunState
<1>0. slot' = [slot EXCEPT ![s] = x] /\ run' = [run EXCEPT ![g] = r] BY Zenon DEF InterruptRetry
<1>1. r \in RunState /\ r.pc = run[g].pc /\ r.todo = run[g].todo BY Zenon, <1>t DEF RunState
<1> HIDE DEF s
<1>2. /\ x \in SlotState /\ x.pub = slot[s].pub /\ x.of = slot[s].of
      /\ x.pending = slot[s].pending /\ x.running = slot[s].running
  BY Zenon, <1>t, <1>s DEF SlotState
<1> HIDE DEF x, r
<1>3. slot' \in [Slots -> SlotState] /\ slot'[s] = x /\ \A t \in Slots : t # s => slot'[t] = slot[t]
  BY Zenon, <1>t, <1>s, <1>0, <1>2, SetSlot
<1>4. run' \in [Groups -> RunState] /\ run'[g] = r /\ OtherRuns(g)
  BY Zenon, <1>t, <1>0, <1>1, SetRun DEF OtherRuns
<1>5. TypeOK' BY Zenon, <1>3, <1>4 DEF InterruptRetry, TypeOK, fixed, gate, memory
<1> QED BY Zenon, <1>1, <1>2, <1>3, <1>4, <1>5 DEF SlotIs, InterruptRetry, fixed, gate, memory

\* A step of run() that leaves the schedule.
Continues(g) ==
  /\ TypeOK' /\ OtherRuns(g) /\ run'[g].pc # "schedule"
  /\ run[g].pc = "schedule" => run[g].todo = {}
  /\ UNCHANGED apart

LEMMA RunDoes ==
  ASSUME TypeOK, NEW g \in Groups,
         \/ UpdateDone(g) \/ CheckReady(g) \/ RebuildNotified(g) \/ UpdateDue(g) \/ ShuttingDown(g)
         \/ \E failed \in BOOLEAN : UpdateUnchanged(g, failed)
  PROVE  Continues(g) /\ UNCHANGED cancelled
<1>t. run \in [Groups -> RunState] /\ generation[g] \in Generations /\ run[g] \in RunState
  BY Zenon DEF TypeOK
<1> DEFINE goes(x) == x \in RunState /\ x.pc # "schedule" /\ run' = [run EXCEPT ![g] = x]
<1>1. ASSUME UpdateDone(g) PROVE \E x : goes(x)
  <2> DEFINE n == IF run[g].ready THEN run[g].target ELSE generation[g]
             x == [run[g] EXCEPT !.pc = "check", !.target = n]
  <2>1. n \in Generations \union {None} BY Zenon, <1>t DEF RunState
  <2>2. run' = [run EXCEPT ![g] = x] BY Zenon, <1>1 DEF UpdateDone
  <2> HIDE DEF n
  <2>3. x \in RunState /\ x.pc # "schedule" BY Zenon, <2>1, <1>t DEF RunState
  <2> QED BY Zenon, <2>2, <2>3
<1>2. ASSUME NEW failed \in BOOLEAN, UpdateUnchanged(g, failed) PROVE \E x : goes(x)
  <2> DEFINE n == IF failed \/ run[g].ready THEN run[g].target ELSE generation[g]
             x == [run[g] EXCEPT !.pc = "check", !.target = n]
  <2>1. n \in Generations \union {None} BY Zenon, <1>t DEF RunState
  <2>2. run' = [run EXCEPT ![g] = x] BY Zenon, <1>2 DEF UpdateUnchanged
  <2> HIDE DEF n
  <2>3. x \in RunState /\ x.pc # "schedule" BY Zenon, <2>1, <1>t DEF RunState
  <2> QED BY Zenon, <2>2, <2>3
<1>3. ASSUME CheckReady(g) PROVE \E x : goes(x)
  <2> DEFINE b == \/ run[g].ready
                  \/ run[g].target # None /\ SelectorsReadyFor(g, run[g].target)
             y == IF b /\ g \notin periodic THEN "done" ELSE "wait"
             x == [run[g] EXCEPT !.ready = b, !.pc = y]
  <2>1. run' = [run EXCEPT ![g] = x] BY Zenon, <1>3 DEF CheckReady
  <2>2. b \in BOOLEAN /\ y \in {"done", "wait"} BY Zenon, <1>t DEF RunState
  <2> HIDE DEF b, y
  <2>3. x \in RunState /\ x.pc # "schedule" BY Zenon, <2>2, <1>t DEF RunState
  <2> QED BY Zenon, <2>1, <2>3
<1>4. ASSUME RebuildNotified(g) \/ UpdateDue(g) \/ ShuttingDown(g) PROVE \E x : goes(x)
  <2>1. PICK y \in {"check", "update", "done"} : run' = [run EXCEPT ![g] = [run[g] EXCEPT !.pc = y]]
    BY Zenon, <1>4 DEF RebuildNotified, UpdateDue, ShuttingDown
  <2>2. [run[g] EXCEPT !.pc = y] \in RunState /\ [run[g] EXCEPT !.pc = y].pc # "schedule"
    BY Zenon, <1>t DEF RunState
  <2> QED BY Zenon, <2>1, <2>2
<1>5. PICK x : goes(x) BY Zenon, <1>1, <1>2, <1>3, <1>4
<1>6. run' \in [Groups -> RunState] /\ OtherRuns(g) /\ run'[g].pc # "schedule"
  BY Zenon, <1>5, <1>t, SetRun DEF OtherRuns
<1>7. /\ UNCHANGED <<apart, cancelled, periodic, limit, drops>> /\ wake' \subseteq Groups
      /\ run[g].pc = "schedule" => run[g].todo = {}
  BY Zenon DEF UpdateDone, CheckReady, RebuildNotified, UpdateDue, ShuttingDown, UpdateUnchanged, Runs,
         apart, fixed, gate, memory, TypeOK
<1>8. TypeOK' BY Zenon, <1>6, <1>7 DEF TypeOK, apart
<1> QED BY Zenon, <1>6, <1>7, <1>8 DEF Continues

LEMMA DropGroupDoes ==
  ASSUME TypeOK, NEW g \in Groups, DropGroup(g)
  PROVE  /\ Continues(g) /\ cancelled' = cancelled \union {g}
         /\ \A r \in Requests : reader[r].slot \notin SlotsOf(g)
<1>t. run \in [Groups -> RunState] BY Zenon DEF TypeOK
<1>1. Started \in RunState /\ Started.pc # "schedule" BY Zenon DEF Started, RunState
<1>2. run' \in [Groups -> RunState] /\ OtherRuns(g) /\ run'[g].pc # "schedule"
  BY Zenon, <1>t, <1>1, SetRun DEF DropGroup, OtherRuns
<1>3. /\ UNCHANGED <<apart, periodic, limit, drops, wake>> /\ run[g].pc # "schedule"
      /\ cancelled' \subseteq Groups
  BY Zenon DEF DropGroup, Runs, apart, fixed, gate, memory, TypeOK
<1>4. TypeOK' BY Zenon, <1>2, <1>3 DEF TypeOK, apart
<1> QED BY Zenon, <1>2, <1>3, <1>4 DEF Continues, DropGroup

-----------------------------------------------------------------------------
(* The selectors, the permit and the retired one.                         *)

LEMMA HoldersApart ==
  /\ \A s, t \in Slots : Worker(s) = Worker(t) => s = t
  /\ \A o, q \in Selectors : Task(o) = Task(q) => o = q
  /\ \A s \in Slots, o \in Selectors : Worker(s) # Task(o)
  /\ \A s \in Slots : Worker(s) # Free
  /\ \A o \in Selectors : Task(o) # Free
BY Zenon DEF Worker, Task, Free

LEMMA NotAlive ==
  ASSUME NEW o, o \notin Alive, o # None
  PROVE  /\ o \notin dropping /\ o \notin orphans
         /\ \A s \in Slots : /\ worker[s].sel # o /\ worker[s].old # o
                             /\ Live(s) => slot[s].pub # o
         /\ \A r \in Requests : reader[r].sel # o
<1>1. \A s \in Slots : Live(s) => slot[s].pub \in Published BY Zenon DEF Published, Live, Off, Cancelled
<1> QED BY Zenon, <1>1 DEF Alive

\* A step that moves no selector and nobody through the gate.
LEMMA MemoryFrame ==
  ASSUME MemoryInv, UNCHANGED <<permit, retired, dropping, orphans, reader>>,
         \A s \in Slots :
           /\ slot'[s].pub = slot[s].pub
           /\ worker'[s].sel = worker[s].sel /\ worker'[s].old = worker[s].old
           /\ Live(s)' <=> Live(s)
           /\ Cancelled(s)' <=> Cancelled(s)
           /\ ~slot'[s].running => Off(s)'
           /\ Inside(s)' <=> Inside(s)
           /\ worker'[s].pc \in {"build", "built"} <=> worker[s].pc \in {"build", "built"}
           /\ worker'[s].pc = "swapped" <=> worker[s].pc = "swapped"
           /\ worker'[s].pc \in {"gate", "store"} <=> worker[s].pc \in {"gate", "store"}
  PROVE  MemoryInv'
<1>1. GateInv' BY SMTT(30) DEF MemoryInv, GateInv
<1>2. PublishedApart' BY SMTT(30) DEF MemoryInv, PublishedApart
<1>3. ReadersApart' BY SMTT(30) DEF MemoryInv, ReadersApart
<1>4. BuildsApart' /\ Accounted' BY SMTT(30) DEF MemoryInv, BuildsApart, Accounted, ReadersApart
<1> QED BY Zenon, <1>1, <1>2, <1>3, <1>4 DEF MemoryInv

\* A step of the worker inside the gate, or of the one that enters it.
LEMMA GateStep ==
  ASSUME TypeOK, GateInv, NEW s \in Slots, Others(s), permit \in {Free, Worker(s)},
         permit' \in {Free, Worker(s)}, Inside(s)' <=> permit' = Worker(s),
         ~slot'[s].running => Off(s)',
         worker'[s].sel # None <=> worker'[s].pc \in {"build", "built"},
         worker'[s].old # None <=> worker'[s].pc = "swapped",
         retired' # None => permit' = Free \/ worker'[s].pc \in {"gate", "store"}
  PROVE  /\ GateInv'
         /\ \A t \in Slots : t # s => worker[t].sel = None /\ worker[t].old = None
<1> USE HoldersApart
<1>1. \A t \in Slots : t # s => ~Inside(t) BY SMTT(30) DEF GateInv
<1>2. \A t \in Slots : t # s => worker[t].sel = None /\ worker[t].old = None
  BY Zenon, <1>1 DEF GateInv, Inside
<1>3. \A t \in Slots : t # s => (Inside(t)' <=> Inside(t)) /\ (Off(t)' <=> Off(t))
  BY Zenon DEF Others, Inside, Off
<1>4. \A t \in Slots : Inside(t)' <=> permit' = Worker(t) BY Zenon, <1>1, <1>3
<1>5. \A t \in Slots : /\ ~slot'[t].running => Off(t)'
                       /\ worker'[t].sel # None <=> worker'[t].pc \in {"build", "built"}
                       /\ worker'[t].old # None <=> worker'[t].pc = "swapped"
  BY SMTT(30), <1>3 DEF GateInv, Others
<1>6. retired' # None =>
        \/ permit' = Free
        \/ \E t \in Slots : permit' = Worker(t) /\ worker'[t].pc \in {"gate", "store"}
  BY Zenon
<1>7. \A o \in Selectors : permit' # Task(o) BY Zenon
<1> QED BY Zenon, <1>2, <1>4, <1>5, <1>6, <1>7 DEF GateInv

\* Nothing is published, and nothing changes but slot s and its worker.
Unmoved(s) ==
  /\ UNCHANGED <<group, cancelled, reader, orphans>>
  /\ \A t \in Slots : /\ Live(t)' <=> Live(t)
                      /\ slot'[t].pub = slot[t].pub /\ slot[t].pub # None
                      /\ t # s => worker'[t] = worker[t]

LEMMA PublishedFrame ==
  ASSUME PublishedApart, NEW s \in Slots, Unmoved(s),
         \/ worker'[s].sel \in {worker[s].sel, None}
         \/ \A t \in Slots : Live(t) => slot[t].pub # worker'[s].sel,
         worker'[s].old \in {worker[s].old, None},
         dropping' \subseteq dropping \union {worker[s].old}
  PROVE  PublishedApart'
<1> SUFFICES ASSUME NEW t \in Slots, Live(t)
             PROVE  /\ slot[t].pub \notin dropping' /\ slot[t].pub \notin orphans
                    /\ \A u \in Slots : /\ Live(u) /\ u # t => slot[u].pub # slot[t].pub
                                        /\ worker'[u].sel # slot[t].pub
                                        /\ worker'[u].old # slot[t].pub
  BY SMTT(30) DEF PublishedApart, Unmoved
<1>1. /\ slot[t].pub \notin dropping /\ slot[t].pub \notin orphans
      /\ \A u \in Slots : /\ Live(u) /\ u # t => slot[u].pub # slot[t].pub
                          /\ worker[u].sel # slot[t].pub /\ worker[u].old # slot[t].pub
  BY Zenon DEF PublishedApart
<1>2. \A u \in Slots : u # s => worker'[u] = worker[u] BY Zenon DEF Unmoved
<1>3. slot[t].pub # None BY Zenon DEF Unmoved
<1>4. /\ slot[t].pub \notin dropping' /\ slot[t].pub \notin orphans
      /\ worker'[s].sel # slot[t].pub /\ worker'[s].old # slot[t].pub
  BY Zenon, <1>1, <1>3
<1> QED BY Zenon, <1>1, <1>2, <1>4

LEMMA ReadersFrame ==
  ASSUME ReadersApart, NEW s \in Slots, Unmoved(s),
         \A r \in Requests : reader[r] # NoSelector => permit' # Task(reader[r].sel),
         \/ worker'[s].sel \in {worker[s].sel, None}
         \/ \A r \in Requests : reader[r].sel # worker'[s].sel
  PROVE  ReadersApart'
<1> SUFFICES ASSUME NEW r \in Requests, reader[r] # NoSelector
             PROVE  /\ reader[r].slot \in Slots /\ ~Cancelled(reader[r].slot)
                    /\ reader[r].sel # None /\ reader[r].sel \notin orphans
                    /\ permit' # Task(reader[r].sel)
                    /\ \A t \in Slots :
                         /\ worker'[t].sel # reader[r].sel
                         /\ Live(t) /\ t # reader[r].slot => slot[t].pub # reader[r].sel
  BY SMTT(30) DEF ReadersApart, Cancelled, Unmoved
<1>1. /\ reader[r].slot \in Slots /\ ~Cancelled(reader[r].slot)
      /\ reader[r].sel # None /\ reader[r].sel \notin orphans
      /\ \A t \in Slots : /\ worker[t].sel # reader[r].sel
                          /\ Live(t) /\ t # reader[r].slot => slot[t].pub # reader[r].sel
  BY Zenon DEF ReadersApart
<1> QED BY Zenon, <1>1 DEF Unmoved

LEMMA BuildsFrame ==
  ASSUME BuildsApart, NEW s \in Slots, Unmoved(s), UNCHANGED dropping,
         None \notin dropping \union orphans,
         \/ worker'[s].sel \in {worker[s].sel, None}
         \/ worker'[s].sel \notin dropping \union orphans,
         worker'[s].old \in {worker[s].old, None}
  PROVE  BuildsApart'
BY Zenon DEF BuildsApart, Unmoved

LEMMA AccountedFrame ==
  ASSUME Accounted, ReadersApart, NEW s \in Slots, Unmoved(s), worker'[s].old = worker[s].old,
         \A o \in dropping' : o = retired' \/ permit' = Task(o),
         retired' = retired \/ \A r \in Requests : reader[r] # NoSelector => reader[r].sel # retired
  PROVE  Accounted'
<1>1. \A t \in Slots : worker'[t].old = worker[t].old BY Zenon DEF Unmoved
<1>2. ASSUME NEW r \in Requests, reader[r] # NoSelector
      PROVE  /\ reader[r].slot \in Slots
             /\ \/ reader[r].sel \in {slot[reader[r].slot].pub, retired}
                \/ \E t \in Slots : worker[t].old = reader[r].sel
  BY Zenon, <1>2 DEF ReadersApart, Accounted
<1>3. ASSUME NEW r \in Requests, reader[r] # NoSelector
      PROVE  \/ reader[r].sel \in {slot'[reader[r].slot].pub, retired'}
             \/ \E t \in Slots : worker'[t].old = reader[r].sel
  BY SMTT(30), <1>1, <1>2, <1>3 DEF Unmoved
<1> QED BY Zenon, <1>3 DEF Accounted, Unmoved

LEMMA MemoryParts ==
  ASSUME TypeOK, MemoryInv, NEW s \in Slots
  PROVE  /\ GateInv /\ PublishedApart /\ ReadersApart /\ BuildsApart /\ Accounted
         /\ Inside(s) <=> permit = Worker(s)
         /\ ~slot[s].running => Off(s)
         /\ worker[s].sel # None <=> worker[s].pc \in {"build", "built"}
         /\ worker[s].old # None <=> worker[s].pc = "swapped"
         /\ \A t \in Slots : slot[t].pub # None
         /\ None \notin dropping \union orphans
         /\ dropping \subseteq Selectors
<1>1. GateInv /\ PublishedApart /\ ReadersApart /\ BuildsApart /\ Accounted BY Zenon DEF MemoryInv
<1>2. (\A t \in Slots : slot[t].pub # None) /\ dropping \subseteq Selectors
      /\ None \notin dropping \union orphans
  BY Zenon, NoneIsApart DEF TypeOK, SlotState
<1> QED BY Zenon, <1>1, <1>2 DEF GateInv

\* Where a worker is tells whether it is inside the gate.
LEMMA Places ==
  ASSUME NEW s \in Slots
  PROVE  /\ worker[s].pc \in {"gate", "taken", "build", "built", "failed", "swapped", "store"} =>
              Inside(s) /\ ~Off(s)
         /\ worker[s].pc \in {"loop", "queue", "backoff"} => ~Inside(s) /\ ~Off(s)
         /\ worker[s].pc \in {"none", "gone"} => ~Inside(s) /\ Off(s)
BY Zenon DEF Inside, Off

LEMMA ReadersHoldSelectors ==
  ASSUME TypeOK, ReadersApart, NEW r \in Requests, reader[r] # NoSelector
  PROVE  reader[r].sel \in Selectors
BY Zenon DEF TypeOK, ReadersApart

\* With the permit free or a worker's, no task holds it.
LEMMA NoTask ==
  ASSUME TypeOK, ReadersApart, Accounted, NEW s \in Slots, NEW p \in {Free, Worker(s)}
  PROVE  /\ \A r \in Requests : reader[r] # NoSelector => p # Task(reader[r].sel)
         /\ permit = p => \A o \in dropping : o = retired
<1>1. dropping \subseteq Selectors BY Zenon DEF TypeOK
<1>2. \A o \in Selectors : p # Task(o) BY Zenon, HoldersApart
<1> QED BY Zenon, <1>1, <1>2, ReadersHoldSelectors DEF Accounted

\* A retired selector is waited for by a worker at the gate, or by nobody yet.
LEMMA NothingRetired ==
  ASSUME GateInv, NEW s \in Slots, permit = Worker(s), worker[s].pc \notin {"gate", "store"}
  PROVE  retired = None
<1>1. \A t \in Slots : Worker(t) = Worker(s) => t = s BY Zenon, HoldersApart
<1>2. Worker(s) # Free BY Zenon, HoldersApart
<1> QED BY Zenon, <1>1, <1>2 DEF GateInv

LEMMA StaysUnmoved ==
  ASSUME NEW s \in Slots, Others(s), slot'[s].pub = slot[s].pub,
         \A t \in Slots : slot[t].pub # None,
         Off(s)' <=> Off(s), UNCHANGED <<group, cancelled, reader, orphans>>
  PROVE  Unmoved(s)
BY Zenon DEF Unmoved, Others, Live, Cancelled, Off

\* A step of the worker that holds the permit, or takes or returns it, and
\* publishes nothing.
LEMMA GateMoves ==
  ASSUME TypeOK, MemoryInv, NEW s \in Slots, Others(s), slot'[s].pub = slot[s].pub,
         slot'[s].running = slot[s].running, UNCHANGED <<group, cancelled, reader, orphans, dropping>>,
         permit \in {Free, Worker(s)}, permit' \in {Free, Worker(s)}, Inside(s)' <=> permit' = Worker(s),
         ~Off(s), ~Off(s)', worker'[s].old = worker[s].old,
         worker[s].pc # "swapped", worker'[s].pc # "swapped",
         \/ worker'[s].pc \notin {"build", "built"} /\ worker'[s].sel = None
         \/ worker'[s].pc = "build" /\ worker'[s].sel \in Selectors \ Alive,
         retired' # None => retired' = retired /\ (permit' = Free \/ worker'[s].pc \in {"gate", "store"}),
         retired' # retired => retired \notin Alive
  PROVE  MemoryInv'
<1>m. GateInv /\ PublishedApart /\ ReadersApart /\ BuildsApart /\ Accounted BY Zenon DEF MemoryInv
<1>n. /\ ~slot[s].running => Off(s)
      /\ worker[s].old # None <=> worker[s].pc = "swapped"
      /\ \A t \in Slots : slot[t].pub # None
      /\ None \notin dropping \union orphans
  BY Zenon, MemoryParts
<1>1. Unmoved(s) BY Zenon, <1>n, StaysUnmoved
<1>2. worker'[s].sel # None <=> worker'[s].pc \in {"build", "built"} BY Zenon, NoneIsApart
<1>3. GateInv' BY Zenon, <1>m, <1>n, <1>2, GateStep
<1>4. \/ worker'[s].sel = None
      \/ /\ worker'[s].sel \notin dropping \union orphans
         /\ \A t \in Slots : Live(t) => slot[t].pub # worker'[s].sel
         /\ \A r \in Requests : reader[r].sel # worker'[s].sel
  BY Zenon, NotAlive, NoneIsApart
<1>5. /\ \A r \in Requests : reader[r] # NoSelector => permit' # Task(reader[r].sel)
      /\ \A o \in dropping : o = retired
  BY Zenon, <1>m, NoTask
<1>6. retired' # retired =>
        retired \notin dropping /\ \A r \in Requests : reader[r] # NoSelector => reader[r].sel # retired
  <2>1. retired # None => (retired' # retired => retired \notin dropping
                           /\ \A r \in Requests : reader[r].sel # retired)
    BY Zenon, NotAlive
  <2>2. \A r \in Requests : reader[r] # NoSelector => reader[r].sel # None BY Zenon, <1>m DEF ReadersApart
  <2> QED BY Zenon, <2>1, <2>2, <1>n
<1>7. \A o \in dropping : o = retired' BY Zenon, <1>5, <1>6
<1>8. PublishedApart' BY Zenon, <1>1, <1>4, <1>m, PublishedFrame
<1>9. ReadersApart' BY Zenon, <1>1, <1>4, <1>5, <1>m, ReadersFrame
<1>10. BuildsApart' BY Zenon, <1>1, <1>4, <1>m, <1>n, BuildsFrame
<1>11. Accounted' BY Zenon, <1>1, <1>6, <1>7, <1>m, AccountedFrame
<1> QED BY Zenon, <1>3, <1>8, <1>9, <1>10, <1>11 DEF MemoryInv

\* A worker enters the gate, or leaves it and returns the permit.
LEMMA EntersOrLeaves ==
  ASSUME TypeOK, MemoryInv, NEW s \in Slots, Acquire(s) \/ StoreGeneration(s) \/ Failed(s)
  PROVE  MemoryInv'
<1>1. /\ Others(s) /\ slot'[s].pub = slot[s].pub /\ slot'[s].running = slot[s].running
      /\ worker'[s].sel = worker[s].sel /\ worker'[s].old = worker[s].old
      /\ \/ /\ worker[s].pc = "queue" /\ worker'[s].pc = "gate"
            /\ permit = Free /\ permit' = Worker(s)
         \/ /\ worker[s].pc \in {"store", "failed"} /\ worker'[s].pc \in {"loop", "backoff"}
            /\ permit' = Free
      /\ UNCHANGED <<group, cancelled, reader, retired, dropping, orphans>>
  <2>1. CASE Acquire(s)
    BY Zenon, <2>1, AcquireDoes DEF Acquire, At, SlotIs, WorkerIs, memory, fixed
  <2>2. CASE StoreGeneration(s)
    BY Zenon, <2>2, StoreGenerationDoes DEF StoreGeneration, At, SlotIs, WorkerIs, memory, fixed
  <2>3. CASE Failed(s)
    BY Zenon, <2>3, FailedDoes DEF Failed, At, SlotIs, WorkerIs, memory, fixed
  <2> QED BY Zenon, <2>1, <2>2, <2>3
<1>2. worker[s].sel = None /\ (Inside(s) <=> permit = Worker(s)) BY Zenon, <1>1, MemoryParts
<1>3. /\ worker'[s].pc = "gate" => Inside(s)' /\ ~Off(s)'
      /\ worker'[s].pc \in {"loop", "backoff"} => ~Inside(s)' /\ ~Off(s)'
  BY Zenon DEF Inside, Off
<1>4. /\ ~Off(s) /\ ~Off(s)' /\ (Inside(s)' <=> permit' = Worker(s))
      /\ permit \in {Free, Worker(s)} /\ permit' \in {Free, Worker(s)}
  <2>1. Worker(s) # Free BY Zenon, HoldersApart
  <2> QED BY Zenon, <1>1, <1>2, <1>3, <2>1, Places
<1> QED BY Zenon, <1>1, <1>2, <1>4, GateMoves

\* The gate opens: the retired selector is gone.
LEMMA Passes ==
  ASSUME TypeOK, MemoryInv, NEW s \in Slots, AwaitRelease(s)
  PROVE  MemoryInv'
<1>1. /\ Others(s) /\ slot'[s].pub = slot[s].pub /\ slot'[s].running = slot[s].running
      /\ worker'[s].sel = worker[s].sel /\ worker'[s].old = worker[s].old
      /\ worker[s].pc = "gate" /\ worker'[s].pc = "taken"
      /\ UNCHANGED <<group, cancelled, reader, permit, dropping, orphans>> /\ retired' = None
      /\ retired # None => retired \notin Alive
  BY Zenon, AwaitReleaseDoes DEF AwaitRelease, At, SlotIs, WorkerIs, memory, fixed, Released
<1>2. worker[s].sel = None /\ (Inside(s) <=> permit = Worker(s)) BY Zenon, <1>1, MemoryParts
<1>3. permit = Worker(s) /\ ~Off(s) BY Zenon, <1>1, <1>2, Places
<1>4. ~Off(s)' /\ Inside(s)' BY Zenon, <1>1 DEF Inside, Off
<1> QED BY Zenon, <1>1, <1>2, <1>3, <1>4, GateMoves

\* A build starts on a selector nobody has.
LEMMA StartsBuild ==
  ASSUME TypeOK, MemoryInv, NEW s \in Slots, StartBuild(s)
  PROVE  MemoryInv'
<1>1. /\ Others(s) /\ slot'[s].pub = slot[s].pub /\ slot'[s].running = slot[s].running
      /\ worker'[s].sel = New /\ worker'[s].old = worker[s].old
      /\ worker[s].pc = "taken" /\ worker'[s].pc = "build"
      /\ UNCHANGED <<group, cancelled, reader, permit, retired, dropping, orphans>>
  BY Zenon, StartBuildDoes DEF StartBuild, At, SlotIs, WorkerIs, gate, fixed
<1>2. worker'[s].sel \in Selectors \ Alive BY Zenon, <1>1, Fresh DEF StartBuild
<1>3. GateInv /\ (Inside(s) <=> permit = Worker(s)) BY Zenon, MemoryParts
<1>4. permit = Worker(s) /\ ~Off(s) BY Zenon, <1>1, <1>3, Places
<1>5. ~Off(s)' /\ Inside(s)' BY Zenon, <1>1 DEF Inside, Off
<1>6. retired = None BY Zenon, <1>1, <1>3, <1>4, NothingRetired
<1> QED BY Zenon, <1>1, <1>2, <1>4, <1>5, <1>6, GateMoves

\* A build that panics leaves no selector.
LEMMA PanicsBuild ==
  ASSUME TypeOK, MemoryInv, NEW s \in Slots, BuildPanics(s)
  PROVE  MemoryInv'
<1>1. /\ Others(s) /\ slot'[s].pub = slot[s].pub /\ slot'[s].running = slot[s].running
      /\ worker'[s].sel = None /\ worker'[s].old = worker[s].old
      /\ worker[s].pc = "build" /\ worker'[s].pc = "failed"
      /\ UNCHANGED <<group, cancelled, reader, permit, retired, dropping, orphans>>
  BY Zenon, BuildPanicsDoes DEF BuildPanics, At, SlotIs, WorkerIs, gate, memory, fixed
<1>2. GateInv /\ (Inside(s) <=> permit = Worker(s)) BY Zenon, MemoryParts
<1>3. permit = Worker(s) /\ ~Off(s) BY Zenon, <1>1, <1>2, Places
<1>4. ~Off(s)' /\ Inside(s)' BY Zenon, <1>1 DEF Inside, Off
<1>5. retired = None BY Zenon, <1>1, <1>2, <1>3, NothingRetired
<1> QED BY Zenon, <1>1, <1>3, <1>4, <1>5, GateMoves

\* The selector that was built is published, and the published one swapped out.
LEMMA Publishes ==
  ASSUME TypeOK, MemoryInv, NEW s \in Slots, Publish(s)
  PROVE  MemoryInv'
<1>m. /\ GateInv /\ PublishedApart /\ ReadersApart /\ BuildsApart /\ Accounted
      /\ Inside(s) <=> permit = Worker(s)
      /\ ~slot[s].running => Off(s)
      /\ worker[s].sel # None <=> worker[s].pc \in {"build", "built"}
      /\ worker[s].old # None <=> worker[s].pc = "swapped"
      /\ \A t \in Slots : slot[t].pub # None
      /\ None \notin dropping \union orphans
  BY Zenon, MemoryParts
<1>1. /\ Others(s) /\ slot'[s].pub = worker[s].sel /\ slot'[s].running = slot[s].running
      /\ worker'[s].sel = None /\ worker'[s].old = slot[s].pub
      /\ worker[s].pc = "built" /\ worker'[s].pc = "swapped" /\ ~Cancelled(s)
      /\ UNCHANGED <<group, cancelled, reader, permit, retired, dropping, orphans>>
  BY Zenon, <1>m, PublishDoes DEF Publish, At, SlotIs, WorkerIs, gate, memory, fixed
<1>2. permit = Worker(s) /\ ~Off(s) BY Zenon, <1>1, <1>m, Places
<1>3. ~Off(s)' /\ Inside(s)' BY Zenon, <1>1 DEF Inside, Off
<1>l. Live(s) /\ \A t \in Slots : Live(t)' <=> Live(t)
  BY Zenon, <1>1, <1>2, <1>3 DEF Live, Cancelled, Off, Others
<1>5. retired = None BY Zenon, <1>1, <1>2, <1>m, NothingRetired
<1>6. GateInv' /\ \A t \in Slots : t # s => worker[t].sel = None /\ worker[t].old = None
  <2>1. /\ worker'[s].sel # None <=> worker'[s].pc \in {"build", "built"}
        /\ worker'[s].old # None <=> worker'[s].pc = "swapped"
        /\ ~slot'[s].running => Off(s)'
    BY Zenon, <1>1, <1>2, <1>m
  <2> QED BY Zenon, <1>1, <1>2, <1>3, <1>5, <1>m, <2>1, GateStep
<1>s. worker[s].sel # None /\ worker[s].old = None BY Zenon, <1>1, <1>m
<1>7. PublishedApart'
  <2>1. SUFFICES ASSUME NEW t \in Slots, Live(t)
                 PROVE  /\ slot'[t].pub \notin dropping /\ slot'[t].pub \notin orphans
                        /\ \A u \in Slots : /\ Live(u) /\ u # t => slot'[u].pub # slot'[t].pub
                                            /\ worker'[u].sel # slot'[t].pub
                                            /\ worker'[u].old # slot'[t].pub
    BY Zenon, <1>1, <1>l DEF PublishedApart
  <2>2. CASE t = s
    <3>1. /\ worker[s].sel \notin dropping /\ worker[s].sel \notin orphans
          /\ \A u \in Slots : Live(u) => slot[u].pub # worker[s].sel
      BY Zenon, <1>m DEF BuildsApart, PublishedApart
    <3>2. /\ slot'[t].pub = worker[s].sel
          /\ \A u \in Slots : u # s => /\ slot'[u].pub = slot[u].pub
                                       /\ worker'[u].sel = None /\ worker'[u].old = None
      BY Zenon, <2>2, <1>1, <1>6 DEF Others
    <3> QED BY Zenon, <2>2, <3>1, <3>2, <1>1, <1>s, <1>l
  <2>3. CASE t # s
    <3>1. /\ slot[t].pub \notin dropping /\ slot[t].pub \notin orphans
          /\ \A u \in Slots : /\ Live(u) /\ u # t => slot[u].pub # slot[t].pub
                              /\ worker[u].sel # slot[t].pub /\ worker[u].old # slot[t].pub
      BY Zenon, <2>1, <1>m DEF PublishedApart
    <3>2. \A u \in Slots : u # s => slot'[u] = slot[u] /\ worker'[u] = worker[u]
      BY Zenon, <1>1 DEF Others
    <3> QED BY SMTT(30), <2>3, <3>1, <3>2, <1>1, <1>l, <1>m
  <2> QED BY Zenon, <2>2, <2>3
<1>8. ReadersApart'
  <2>1. SUFFICES ASSUME NEW r \in Requests, reader[r] # NoSelector
                 PROVE  /\ reader[r].slot \in Slots /\ ~Cancelled(reader[r].slot)
                        /\ reader[r].sel # None /\ reader[r].sel \notin orphans
                        /\ permit # Task(reader[r].sel)
                        /\ \A t \in Slots :
                             /\ worker'[t].sel # reader[r].sel
                             /\ Live(t) /\ t # reader[r].slot => slot'[t].pub # reader[r].sel
    BY Zenon, <1>1, <1>l DEF ReadersApart, Cancelled
  <2>2. /\ reader[r].slot \in Slots /\ ~Cancelled(reader[r].slot)
        /\ reader[r].sel # None /\ reader[r].sel \notin orphans
        /\ permit # Task(reader[r].sel)
        /\ \A t \in Slots :
             /\ worker[t].sel # reader[r].sel
             /\ Live(t) /\ t # reader[r].slot => slot[t].pub # reader[r].sel
    BY Zenon, <2>1, <1>m DEF ReadersApart
  <2>3. \A t \in Slots : t # s => slot'[t] = slot[t] /\ worker'[t] = worker[t] BY Zenon, <1>1 DEF Others
  <2> QED BY Zenon, <2>2, <2>3, <1>1
<1>9. BuildsApart'
  <2>1. slot[s].pub \notin orphans BY Zenon, <1>l, <1>m DEF PublishedApart
  <2> QED BY Zenon, <1>1, <1>m, <2>1 DEF BuildsApart, Others
<1>10. Accounted'
  <2>1. SUFFICES ASSUME NEW r \in Requests, reader[r] # NoSelector
                 PROVE  \/ reader[r].sel = slot'[reader[r].slot].pub
                        \/ \E t \in Slots : worker'[t].old = reader[r].sel
    BY Zenon, <1>1, <1>m DEF Accounted
  <2>2. reader[r].slot \in Slots /\ reader[r].sel # None BY Zenon, <2>1, <1>m DEF ReadersApart
  <2>3. \A t \in Slots : worker[t].old = None BY Zenon, <1>6, <1>s
  <2>4. reader[r].sel = slot[reader[r].slot].pub
    BY Zenon, <2>1, <2>2, <2>3, <1>5, <1>m DEF Accounted
  <2>5. reader[r].slot # s => slot'[reader[r].slot] = slot[reader[r].slot]
    BY Zenon, <2>2, <1>1 DEF Others
  <2> QED BY Zenon, <1>1, <2>2, <2>4, <2>5
<1> QED BY Zenon, <1>6, <1>7, <1>8, <1>9, <1>10 DEF MemoryInv

\* The selector swapped out is retired, and a task is to drop it.
LEMMA Retires ==
  ASSUME TypeOK, MemoryInv, NEW s \in Slots, Retire(s)
  PROVE  MemoryInv'
<1>m. /\ GateInv /\ PublishedApart /\ ReadersApart /\ BuildsApart /\ Accounted
      /\ Inside(s) <=> permit = Worker(s)
      /\ ~slot[s].running => Off(s)
      /\ worker[s].sel # None <=> worker[s].pc \in {"build", "built"}
      /\ worker[s].old # None <=> worker[s].pc = "swapped"
      /\ \A t \in Slots : slot[t].pub # None
      /\ None \notin dropping \union orphans
  BY Zenon, MemoryParts
<1>1. /\ Others(s) /\ slot'[s].pub = slot[s].pub /\ slot'[s].running = slot[s].running
      /\ worker'[s].sel = worker[s].sel /\ worker'[s].old = None
      /\ worker[s].pc = "swapped" /\ worker'[s].pc = "store"
      /\ retired' = worker[s].old /\ dropping' = dropping \union {worker[s].old}
      /\ UNCHANGED <<group, cancelled, reader, permit, orphans>>
  BY Zenon, <1>m, RetireDoes DEF Retire, At, SlotIs, WorkerIs, fixed
<1>2. permit = Worker(s) /\ ~Off(s) BY Zenon, <1>1, <1>m, Places
<1>3. ~Off(s)' /\ Inside(s)' BY Zenon, <1>1 DEF Inside, Off
<1>4. Unmoved(s) BY Zenon, <1>1, <1>2, <1>3, <1>m, StaysUnmoved
<1>5. retired = None BY Zenon, <1>1, <1>2, <1>m, NothingRetired
<1>6. GateInv' /\ \A t \in Slots : t # s => worker[t].sel = None /\ worker[t].old = None
  <2>1. /\ worker'[s].sel # None <=> worker'[s].pc \in {"build", "built"}
        /\ worker'[s].old # None <=> worker'[s].pc = "swapped"
        /\ ~slot'[s].running => Off(s)'
    BY Zenon, <1>1, <1>2, <1>m
  <2> QED BY Zenon, <1>1, <1>2, <1>3, <1>m, <2>1, GateStep
<1>s. worker[s].old # None /\ worker[s].sel = None BY Zenon, <1>1, <1>m
<1>7. /\ \A r \in Requests : reader[r] # NoSelector => permit' # Task(reader[r].sel)
      /\ \A o \in dropping : o = retired
  BY Zenon, <1>1, <1>2, <1>m, NoTask
<1>8. dropping' = {worker[s].old} BY Zenon, <1>1, <1>5, <1>7, <1>m
<1>9. PublishedApart' BY Zenon, <1>1, <1>4, <1>m, PublishedFrame
<1>10. ReadersApart' BY Zenon, <1>1, <1>4, <1>7, <1>m, ReadersFrame
<1>11. BuildsApart'
  <2>1. worker[s].old \notin orphans BY Zenon, <1>m DEF BuildsApart
  <2>2. \A t \in Slots : worker'[t].sel = None /\ worker'[t].old = None
    BY Zenon, <1>1, <1>6, <1>s DEF Others
  <2> QED BY Zenon, <1>1, <1>8, <1>m, <1>s, <2>1, <2>2 DEF BuildsApart
<1>12. Accounted'
  <2>1. ASSUME NEW r \in Requests, reader[r] # NoSelector
        PROVE  reader[r].slot \in Slots /\ reader[r].sel \in {slot[reader[r].slot].pub, worker[s].old}
    <3>1. reader[r].slot \in Slots /\ reader[r].sel # None BY Zenon, <2>1, <1>m DEF ReadersApart
    <3>2. \/ reader[r].sel \in {slot[reader[r].slot].pub, retired}
          \/ \E t \in Slots : worker[t].old = reader[r].sel
      BY Zenon, <2>1, <1>m DEF Accounted
    <3> QED BY Zenon, <3>1, <3>2, <1>5, <1>6
  <2>2. \A t \in Slots : slot'[t].pub = slot[t].pub BY Zenon, <1>4 DEF Unmoved
  <2> QED BY Zenon, <1>1, <1>8, <2>1, <2>2 DEF Accounted
<1> QED BY Zenon, <1>6, <1>9, <1>10, <1>11, <1>12 DEF MemoryInv

\* A worker that takes, holds or returns the gate's permit.
LEMMA GateMemory ==
  ASSUME TypeOK, MemoryInv, NEW s \in Slots,
         \/ Acquire(s) \/ StoreGeneration(s) \/ Failed(s) \/ AwaitRelease(s) \/ StartBuild(s)
         \/ BuildPanics(s) \/ Publish(s) \/ Retire(s)
  PROVE  MemoryInv'
BY Zenon, EntersOrLeaves, Passes, StartsBuild, PanicsBuild, Publishes, Retires

-----------------------------------------------------------------------------
(* The requests of a slot.                                                 *)

LEMMA InitLatest == Init => LatestInv
<1> SUFFICES ASSUME Init PROVE LatestInv BY Zenon
<1>1. \A s \in Slots : /\ group[s] \in Groups /\ Latest(s) = 0 /\ slot[s].of = 0 /\ slot[s].pending = 0
                       /\ worker[s].req = 0 /\ worker[s].pc = "none"
  <2>1. TypeOK BY Zenon, InitTypeOK
  <2>2. \A s \in Slots : group[s] \in Groups BY Zenon, <2>1 DEF TypeOK
  <2> QED BY Zenon, <2>2 DEF Init, Idle, Latest
<1>2. Scheduled BY Zenon DEF Init, Scheduled, Started
<1> QED BY SMTT(30), <1>1, <1>2 DEF LatestInv, RequestedAt, InOrder, Awaited

LEMMA RequestNumbers ==
  ASSUME TypeOK, NEW s \in Slots
  PROVE  /\ slot[s].of \in Nat /\ slot[s].pending \in Nat /\ worker[s].req \in Nat
         /\ group[s] \in Groups /\ Latest(s) \in Nat
<1>1. slot[s].of \in Generations /\ slot[s].pending \in Generations BY Zenon DEF TypeOK, SlotState
<1>2. worker[s].req \in Generations BY Zenon DEF TypeOK, WorkerState
<1>3. group[s] \in Groups /\ Latest(s) \in Generations BY Zenon DEF TypeOK, Latest
<1> QED BY <1>1, <1>2, <1>3, BoundsAssumption DEF Generations

\* A request, the later of the two or the one there is, as it moves from the
\* slot to the worker, to the published selector or back to the slot: the latest
\* one is still among them.
LEMMA EndsInOrder ==
  ASSUME NEW last \in Nat, NEW of \in Nat, NEW pending \in Nat, NEW req \in Nat,
         InOrder(last, of, pending, req, "loop")
  PROVE  /\ InOrder(last, of, pending, 0, "none")
         /\ last \in {of, req, pending} => last \in {of, 0, pending}
BY Zenon DEF InOrder

LEMMA ResumesInOrder ==
  ASSUME NEW last \in Nat, NEW of \in Nat, NEW pending \in Nat, NEW req \in Nat,
         InOrder(last, of, pending, req, "backoff")
  PROVE  /\ InOrder(last, of, pending, req, "loop")
         /\ last \in {of, req, pending} => last \in {of, req, pending}
BY Zenon DEF InOrder

LEMMA QueuesInOrder ==
  ASSUME NEW last \in Nat, NEW of \in Nat, NEW pending \in Nat, NEW req \in Nat,
         InOrder(last, of, pending, req, "loop"), pending # 0
  PROVE  /\ InOrder(last, of, pending, req, "queue")
         /\ last \in {of, req, pending} => last \in {of, req, pending}
BY Zenon DEF InOrder

LEMMA EntersInOrder ==
  ASSUME NEW last \in Nat, NEW of \in Nat, NEW pending \in Nat, NEW req \in Nat,
         InOrder(last, of, pending, req, "queue")
  PROVE  /\ InOrder(last, of, pending, req, "gate")
         /\ last \in {of, req, pending} => last \in {of, req, pending}
BY Zenon DEF InOrder

LEMMA TakenInOrder ==
  ASSUME NEW last \in Nat, NEW of \in Nat, NEW pending \in Nat, NEW req \in Nat,
         InOrder(last, of, pending, req, "gate")
  PROVE  /\ InOrder(last, of, 0, pending, "taken")
         /\ last \in {of, req, pending} => last \in {of, pending, 0}
BY Zenon DEF InOrder

LEMMA BuildsInOrder ==
  ASSUME NEW last \in Nat, NEW of \in Nat, NEW pending \in Nat, NEW req \in Nat,
         InOrder(last, of, pending, req, "taken")
  PROVE  /\ InOrder(last, of, pending, req, "build")
         /\ last \in {of, req, pending} => last \in {of, req, pending}
BY Zenon DEF InOrder

LEMMA BuiltInOrder ==
  ASSUME NEW last \in Nat, NEW of \in Nat, NEW pending \in Nat, NEW req \in Nat,
         InOrder(last, of, pending, req, "build")
  PROVE  /\ InOrder(last, of, pending, req, "built")
         /\ last \in {of, req, pending} => last \in {of, req, pending}
BY Zenon DEF InOrder

LEMMA PanicsInOrder ==
  ASSUME NEW last \in Nat, NEW of \in Nat, NEW pending \in Nat, NEW req \in Nat,
         InOrder(last, of, pending, req, "build")
  PROVE  /\ InOrder(last, of, pending, req, "failed")
         /\ last \in {of, req, pending} => last \in {of, req, pending}
BY Zenon DEF InOrder

LEMMA RetiresInOrder ==
  ASSUME NEW last \in Nat, NEW of \in Nat, NEW pending \in Nat, NEW req \in Nat,
         InOrder(last, of, pending, req, "swapped")
  PROVE  /\ InOrder(last, of, pending, req, "store")
         /\ last \in {of, req, pending} => last \in {of, req, pending}
BY Zenon DEF InOrder

LEMMA StoresInOrder ==
  ASSUME NEW last \in Nat, NEW of \in Nat, NEW pending \in Nat, NEW req \in Nat,
         InOrder(last, of, pending, req, "store")
  PROVE  /\ InOrder(last, of, pending, 0, "loop")
         /\ last \in {of, req, pending} => last \in {of, 0, pending}
BY DEF InOrder

\* A published request is the latest if the latest was published, taken or pending before.
LEMMA PublishInOrder ==
  ASSUME NEW last \in Nat, NEW of \in Nat, NEW pending \in Nat, NEW req \in Nat,
         InOrder(last, of, pending, req, "built")
  PROVE  /\ InOrder(last, req, pending, req, "swapped")
         /\ last \in {of, req, pending} => last \in {req, req, pending}
BY DEF InOrder

\* A failed request is dropped only for a later one.
LEMMA FailInOrder ==
  ASSUME NEW last \in Nat, NEW of \in Nat, NEW pending \in Nat, NEW req \in Nat,
         InOrder(last, of, pending, req, "failed")
  PROVE  /\ pending > req => /\ InOrder(last, of, pending, 0, "loop")
                             /\ last \in {of, req, pending} => last \in {of, 0, pending}
         /\ ~(pending > req) => /\ InOrder(last, of, req, 0, "backoff")
                                /\ last \in {of, req, pending} => last \in {of, 0, req}
<1>1. CASE pending > req BY <1>1 DEF InOrder
<1>2. CASE ~(pending > req) BY <1>2 DEF InOrder
<1> QED BY Zenon, <1>1, <1>2

LEMMA ScheduleInOrder ==
  ASSUME NEW last \in Nat, NEW of \in Nat, NEW pending \in Nat, NEW req \in Nat, NEW pc,
         InOrder(last, of, pending, req, pc), last # 0
  PROVE  InOrder(last, of, last, req, pc) /\ InOrder(last, of, last, 0, "loop")
BY DEF InOrder

LEMMA Requested ==
  ASSUME TypeOK, LatestInv, NEW s \in Slots
  PROVE  /\ slot[s].of \in Nat /\ slot[s].pending \in Nat /\ worker[s].req \in Nat /\ Latest(s) \in Nat
         /\ InOrder(Latest(s), slot[s].of, slot[s].pending, worker[s].req, worker[s].pc)
         /\ ~Cancelled(s) => Awaited(s)
BY Zenon, RequestNumbers DEF LatestInv, RequestedAt

\* A step of one worker: its slot keeps the latest request.
LEMMA WorkerLatest ==
  ASSUME LatestInv, NEW s \in Slots, Others(s), UNCHANGED <<group, generation, cancelled, run>>,
         InOrder(Latest(s), slot'[s].of, slot'[s].pending, worker'[s].req, worker'[s].pc),
         Latest(s) \in {slot[s].of, worker[s].req, slot[s].pending} =>
           Latest(s) \in {slot'[s].of, worker'[s].req, slot'[s].pending}
  PROVE  LatestInv'
<1>0. \A t \in Slots : Latest(t)' = Latest(t) BY Zenon DEF Latest
<1>1. RequestedAt(s)' BY Zenon, <1>0 DEF RequestedAt
<1>2. ~Cancelled(s) => Awaited(s)'
  <2>1. ~Cancelled(s) => Awaited(s) BY Zenon DEF LatestInv
  <2> QED BY Zenon, <1>0, <2>1 DEF Awaited
<1>3. ASSUME NEW t \in Slots, t # s PROVE RequestedAt(t)' /\ (~Cancelled(t) => Awaited(t)')
  <2>1. RequestedAt(t) /\ (~Cancelled(t) => Awaited(t)) BY Zenon DEF LatestInv
  <2>2. slot'[t] = slot[t] /\ worker'[t] = worker[t] BY Zenon, <1>3 DEF Others
  <2>3. RequestedAt(t)' BY Zenon, <1>0, <2>1, <2>2 DEF RequestedAt
  <2>4. ~Cancelled(t) => Awaited(t)' BY Zenon, <1>0, <2>1, <2>2 DEF Awaited
  <2> QED BY Zenon, <2>3, <2>4
<1>4. Scheduled' BY Zenon DEF LatestInv, Scheduled
<1>5. \A t \in Slots : Cancelled(t)' <=> Cancelled(t) BY Zenon DEF Cancelled
<1> QED BY Zenon, <1>1, <1>2, <1>3, <1>4, <1>5 DEF LatestInv

LEMMA StopLatest ==
  ASSUME TypeOK, LatestInv, NEW s \in Slots, NEW pc \in {"none", "gone"}, NEW h \in Holders,
         Stop(s, pc, h), worker[s].pc \notin {"swapped", "store"},
         UNCHANGED <<group, generation, cancelled, run>>
  PROVE  LatestInv'
<1> DEFINE left == IF worker[s].req >= slot[s].pending THEN worker[s].req ELSE slot[s].pending
<1>1. Others(s) /\ WorkerIs(s, pc, 0, None, None) /\ SlotIs(s, slot[s].pub, slot[s].of, left, FALSE)
  BY Zenon, StopDoes
<1>2. worker[s].pc \in {"none", "gone", "loop", "queue", "gate", "backoff", "taken", "build", "built", "failed"}
  BY Zenon DEF TypeOK, WorkerState
<1>r. /\ slot[s].of \in Nat /\ slot[s].pending \in Nat /\ worker[s].req \in Nat /\ Latest(s) \in Nat
      /\ InOrder(Latest(s), slot[s].of, slot[s].pending, worker[s].req, worker[s].pc)
  BY Zenon, Requested
<1>l. \/ worker[s].req >= slot[s].pending /\ left = worker[s].req
      \/ ~(worker[s].req >= slot[s].pending) /\ left = slot[s].pending
  BY Zenon
<1> HIDE DEF left
<1>3. /\ InOrder(Latest(s), slot[s].of, left, 0, pc)
      /\ Latest(s) \in {slot[s].of, worker[s].req, slot[s].pending} => Latest(s) \in {slot[s].of, 0, left}
  <2> DEFINE last == Latest(s)
             of == slot[s].of
             pending == slot[s].pending
             req == worker[s].req
             at == worker[s].pc
  <2>0. /\ last \in Nat /\ of \in Nat /\ pending \in Nat /\ req \in Nat
        /\ InOrder(last, of, pending, req, at) /\ pc \in {"none", "gone"}
        /\ at \in {"none", "gone", "loop", "queue", "gate", "backoff", "taken", "build", "built", "failed"}
        /\ (req >= pending /\ left = req) \/ (~(req >= pending) /\ left = pending)
    BY Zenon, <1>r, <1>l, <1>2
  <2> SUFFICES InOrder(last, of, left, 0, pc) /\ (last \in {of, req, pending} => last \in {of, 0, left})
    BY Zenon
  <2> HIDE DEF last, of, pending, req, at
  <2>1. CASE req >= pending /\ left = req
    <3>1. InOrder(last, of, req, 0, pc) BY <2>0, <2>1 DEF InOrder
    <3>2. last \in {of, req, pending} => last \in {of, 0, req} BY <2>0, <2>1 DEF InOrder
    <3> QED BY Zenon, <3>1, <3>2, <2>1
  <2>2. CASE ~(req >= pending) /\ left = pending
    <3>1. InOrder(last, of, pending, 0, pc) BY <2>0, <2>2 DEF InOrder
    <3>2. last \in {of, req, pending} => last \in {of, 0, pending} BY Zenon, <2>0, <2>2 DEF InOrder
    <3> QED BY Zenon, <3>1, <3>2, <2>2
  <2> QED BY Zenon, <2>0, <2>1, <2>2
<1>4. /\ slot'[s].of = slot[s].of /\ slot'[s].pending = left
      /\ worker'[s].req = 0 /\ worker'[s].pc = pc
  BY Zenon, <1>1 DEF WorkerIs, SlotIs
<1> QED BY Zenon, <1>1, <1>3, <1>4, WorkerLatest

\* A step of the run() of a group that leaves its slots alone.
LEMMA RunLatest ==
  ASSUME TypeOK, LatestInv, NEW g \in Groups, OtherRuns(g), cancelled \subseteq cancelled',
         UNCHANGED <<group, generation, worker>>,
         \A s \in Slots : slot'[s].of = slot[s].of /\ slot'[s].pending = slot[s].pending,
         \/ run'[g].pc = run[g].pc /\ run'[g].todo = run[g].todo
         \/ run'[g].pc # "schedule" /\ (run[g].pc = "schedule" => run[g].todo = {})
  PROVE  LatestInv'
<1>1. Scheduled' BY SMTT(30) DEF LatestInv, Scheduled, OtherRuns
<1>2. ASSUME NEW s \in Slots PROVE RequestedAt(s)' /\ (~Cancelled(s)' => Awaited(s)')
  <2>0. RequestedAt(s) /\ (~Cancelled(s) => Awaited(s)) BY Zenon DEF LatestInv
  <2>1. Latest(s)' = Latest(s) /\ group[s] \in Groups BY Zenon, RequestNumbers DEF Latest
  <2>2. RequestedAt(s)' BY Zenon, <2>0, <2>1 DEF RequestedAt
  <2>3. ~Cancelled(s)' => Awaited(s) BY Zenon, <2>0 DEF Cancelled
  <2>4. Awaited(s) => Awaited(s)'
    <3>1. CASE group[s] = g BY Zenon, <3>1, <2>1 DEF Awaited
    <3>2. CASE group[s] # g
      <4>1. run'[group[s]] = run[group[s]] BY Zenon, <3>2, <2>1 DEF OtherRuns
      <4> QED BY Zenon, <4>1, <2>1 DEF Awaited
    <3> QED BY Zenon, <3>1, <3>2
  <2> QED BY Zenon, <2>2, <2>3, <2>4
<1> QED BY Zenon, <1>1, <1>2 DEF LatestInv

\* update() found another membership: every slot of the group is to be scheduled.
LEMMA ChangedLatest ==
  ASSUME TypeOK, LatestInv, NEW g \in Groups, UpdateChanged(g)
  PROVE  LatestInv'
<1>1. /\ OtherRuns(g) /\ run'[g].pc = "schedule" /\ run'[g].todo = SlotsOf(g)
      /\ generation'[g] = generation[g] + 1
      /\ \A h \in Groups : h # g => generation'[h] = generation[h]
      /\ UNCHANGED <<group, cancelled, slot, worker>>
  BY Zenon, UpdateChangedDoes
<1>2. generation[g] \in Nat BY BoundsAssumption DEF TypeOK, Generations
<1>3. Scheduled' BY SMTT(30), <1>1, <1>2 DEF LatestInv, Scheduled, OtherRuns, SlotsOf
<1>4. ASSUME NEW s \in Slots PROVE RequestedAt(s)' /\ (~Cancelled(s)' => Awaited(s)')
  <2>0. RequestedAt(s) /\ (~Cancelled(s) => Awaited(s)) /\ group[s] \in Groups
    BY Zenon, RequestNumbers DEF LatestInv
  <2>1. CASE group[s] = g
    <3>1. Latest(s) = generation[g] /\ Latest(s)' = generation[g] + 1 BY Zenon, <2>1, <1>1 DEF Latest
    <3>2. InOrder(generation[g], slot[s].of, slot[s].pending, worker[s].req, worker[s].pc)
      BY Zenon, <2>0, <3>1 DEF RequestedAt
    <3>3. InOrder(generation[g] + 1, slot[s].of, slot[s].pending, worker[s].req, worker[s].pc)
      BY SMTT(30), <3>2, <1>2, RequestNumbers DEF InOrder
    <3>4. RequestedAt(s)' BY Zenon, <3>1, <3>3, <1>1 DEF RequestedAt
    <3>5. Awaited(s)' BY Zenon, <2>1, <1>1 DEF Awaited, SlotsOf
    <3> QED BY Zenon, <3>4, <3>5
  <2>2. CASE group[s] # g
    <3>1. Latest(s)' = Latest(s) /\ run'[group[s]] = run[group[s]]
      BY Zenon, <2>0, <2>2, <1>1 DEF Latest, OtherRuns
    <3>2. RequestedAt(s)' BY Zenon, <2>0, <3>1, <1>1 DEF RequestedAt
    <3>3. Cancelled(s)' <=> Cancelled(s) BY Zenon, <1>1 DEF Cancelled
    <3>4. Awaited(s) => Awaited(s)' BY Zenon, <3>1, <1>1 DEF Awaited
    <3> QED BY Zenon, <2>0, <3>2, <3>3, <3>4
  <2> QED BY Zenon, <2>1, <2>2
<1> QED BY Zenon, <1>3, <1>4 DEF LatestInv

\* schedule() of one slot.
LEMMA ScheduledLatest ==
  ASSUME TypeOK, LatestInv, NEW g \in Groups, ScheduleSelectorRebuild(g)
  PROVE  LatestInv'
<1>1. PICK s \in Slots :
        /\ s \in run[g].todo /\ run[g].pc = "schedule" /\ Others(s) /\ OtherRuns(g)
        /\ run'[g].pc = "schedule" /\ run'[g].todo = run[g].todo \ {s}
        /\ SlotIs(s, slot[s].pub, slot[s].of, generation[g], TRUE)
        /\ \/ worker'[s] = worker[s]
           \/ WorkerIs(s, "loop", 0, None, None)
        /\ UNCHANGED <<group, generation, cancelled>>
  BY Zenon, ScheduleDoes
<1>2. group[s] = g /\ generation[g] # 0 BY Zenon, <1>1 DEF LatestInv, Scheduled
<1>3. Scheduled' BY Zenon, <1>1 DEF LatestInv, Scheduled, OtherRuns
<1>l. \A t \in Slots : (Latest(t)' = Latest(t)) /\ (Cancelled(t)' <=> Cancelled(t))
  BY Zenon, <1>1 DEF Latest, Cancelled
<1>4. RequestedAt(s)' /\ Awaited(s)'
  <2>1. Latest(s) = generation[g] /\ Latest(s)' = generation[g] BY Zenon, <1>2, <1>l DEF Latest
  <2>2. slot'[s].of = slot[s].of /\ slot'[s].pending = generation[g] BY Zenon, <1>1 DEF SlotIs
  <2>3. \/ worker'[s].req = worker[s].req /\ worker'[s].pc = worker[s].pc
        \/ worker'[s].req = 0 /\ worker'[s].pc = "loop"
    BY Zenon, <1>1 DEF WorkerIs
  <2>4. Latest(s) # 0 BY Zenon, <1>2, <2>1
  <2>5. /\ InOrder(Latest(s), slot[s].of, Latest(s), worker[s].req, worker[s].pc)
        /\ InOrder(Latest(s), slot[s].of, Latest(s), 0, "loop")
    BY Zenon, <2>4, Requested, ScheduleInOrder
  <2>6. RequestedAt(s)' BY Zenon, <2>1, <2>2, <2>3, <2>5 DEF RequestedAt
  <2> QED BY Zenon, <2>1, <2>2, <2>6 DEF Awaited
<1>5. ASSUME NEW t \in Slots, t # s PROVE RequestedAt(t)' /\ (~Cancelled(t)' => Awaited(t)')
  <2>0. RequestedAt(t) /\ (~Cancelled(t) => Awaited(t)) /\ group[t] \in Groups
    BY Zenon, RequestNumbers DEF LatestInv
  <2>1. slot'[t] = slot[t] /\ worker'[t] = worker[t] BY Zenon, <1>1, <1>5 DEF Others
  <2>2. RequestedAt(t)' BY Zenon, <2>0, <2>1, <1>l DEF RequestedAt
  <2>3. /\ group[t] # g => run'[group[t]] = run[group[t]]
        /\ group[t] = g => run'[group[t]].pc = run[group[t]].pc
                           /\ (t \in run[group[t]].todo => t \in run'[group[t]].todo)
    BY Zenon, <2>0, <1>1, <1>5 DEF OtherRuns
  <2>4. Awaited(t) => Awaited(t)' BY Zenon, <2>1, <2>3, <1>1, <1>l DEF Awaited
  <2> QED BY Zenon, <2>0, <2>2, <2>4, <1>l
<1> QED BY Zenon, <1>3, <1>4, <1>5 DEF LatestInv

\* What a step of a worker that does not stop leaves in its slot.
Leaves(s, of, pending, req, pc) ==
  /\ Others(s) /\ UNCHANGED <<group, generation, cancelled, run>>
  /\ slot'[s].of = of /\ slot'[s].pending = pending /\ worker'[s].req = req /\ worker'[s].pc = pc

\* The steps of a worker that does not stop.
LEMMA GoesOnLatest ==
  ASSUME TypeOK, GateInv, LatestInv, NEW s \in Slots,
         \/ AwaitRelease(s) \/ StartBuild(s) \/ Publish(s) \/ Retire(s) \/ StoreGeneration(s)
         \/ Failed(s) \/ BackoffEnds(s) \/ Acquire(s) \/ BuildReturns(s) \/ BuildPanics(s)
         \/ BackoffInterrupted(s)
  PROVE  LatestInv'
<1> DEFINE last == Latest(s)
           was == last \in {slot[s].of, worker[s].req, slot[s].pending}
<1>0. /\ slot[s].of \in Nat /\ slot[s].pending \in Nat /\ worker[s].req \in Nat /\ last \in Nat
      /\ InOrder(last, slot[s].of, slot[s].pending, worker[s].req, worker[s].pc)
  BY Zenon, Requested
<1>w. ASSUME NEW of, NEW pending, NEW req, NEW pc, Leaves(s, of, pending, req, pc),
             InOrder(last, of, pending, req, pc), was => last \in {of, req, pending}
      PROVE  LatestInv'
  BY Zenon, <1>w, WorkerLatest DEF Leaves
<1> HIDE DEF last
<1>1. CASE AwaitRelease(s)
  <2>1. Leaves(s, slot[s].of, 0, slot[s].pending, "taken") /\ worker[s].pc = "gate"
    BY Zenon, <1>1, AwaitReleaseDoes DEF AwaitRelease, At, fixed, Leaves, WorkerIs, SlotIs
  <2>2. InOrder(last, slot[s].of, 0, slot[s].pending, "taken") /\ (was => last \in {slot[s].of, slot[s].pending, 0})
    BY SMTT(30), <1>0, <2>1, TakenInOrder
  <2> QED BY Zenon, <1>w, <2>1, <2>2
<1>2. CASE StartBuild(s)
  <2>1. Leaves(s, slot[s].of, slot[s].pending, worker[s].req, "build") /\ worker[s].pc = "taken"
    BY Zenon, <1>2, StartBuildDoes DEF StartBuild, At, fixed, Leaves, WorkerIs, SlotIs
  <2>2. InOrder(last, slot[s].of, slot[s].pending, worker[s].req, "build") /\ (was => last \in {slot[s].of, worker[s].req, slot[s].pending})
    BY SMTT(30), <1>0, <2>1, BuildsInOrder
  <2> QED BY Zenon, <1>w, <2>1, <2>2
<1>3. CASE Publish(s)
  <2>1. Leaves(s, worker[s].req, slot[s].pending, worker[s].req, "swapped") /\ worker[s].pc = "built"
    BY Zenon, <1>3, PublishDoes DEF Publish, At, fixed, Leaves, WorkerIs, SlotIs
  <2>2. InOrder(last, worker[s].req, slot[s].pending, worker[s].req, "swapped") /\ (was => last \in {worker[s].req, worker[s].req, slot[s].pending})
    BY SMTT(30), <1>0, <2>1, PublishInOrder
  <2> QED BY Zenon, <1>w, <2>1, <2>2
<1>4. CASE Retire(s)
  <2>1. Leaves(s, slot[s].of, slot[s].pending, worker[s].req, "store") /\ worker[s].pc = "swapped"
    BY Zenon, <1>4, RetireDoes DEF Retire, At, fixed, Leaves, WorkerIs, SlotIs
  <2>2. InOrder(last, slot[s].of, slot[s].pending, worker[s].req, "store") /\ (was => last \in {slot[s].of, worker[s].req, slot[s].pending})
    BY SMTT(30), <1>0, <2>1, RetiresInOrder
  <2> QED BY Zenon, <1>w, <2>1, <2>2
<1>5. CASE StoreGeneration(s)
  <2>1. Leaves(s, slot[s].of, slot[s].pending, 0, "loop") /\ worker[s].pc = "store"
    BY Zenon, <1>5, StoreGenerationDoes DEF StoreGeneration, At, fixed, Leaves, WorkerIs, SlotIs
  <2>2. InOrder(last, slot[s].of, slot[s].pending, 0, "loop") /\ (was => last \in {slot[s].of, 0, slot[s].pending})
    BY SMTT(30), <1>0, <2>1, StoresInOrder
  <2> QED BY Zenon, <1>w, <2>1, <2>2
<1>6. CASE BackoffEnds(s)
  <2>1. Leaves(s, slot[s].of, slot[s].pending, worker[s].req, "loop") /\ worker[s].pc = "backoff"
    BY Zenon, <1>6, BackoffEndsDoes DEF BackoffEnds, At, fixed, Leaves, WorkerIs, SlotIs
  <2>2. InOrder(last, slot[s].of, slot[s].pending, worker[s].req, "loop") /\ (was => last \in {slot[s].of, worker[s].req, slot[s].pending})
    BY SMTT(30), <1>0, <2>1, ResumesInOrder
  <2> QED BY Zenon, <1>w, <2>1, <2>2
<1>7. CASE BackoffInterrupted(s)
  <2>1. Leaves(s, slot[s].of, slot[s].pending, worker[s].req, "loop") /\ worker[s].pc = "backoff"
    BY Zenon, <1>7, BackoffInterruptedDoes DEF BackoffInterrupted, At, fixed, Leaves, WorkerIs, SlotIs
  <2>2. InOrder(last, slot[s].of, slot[s].pending, worker[s].req, "loop") /\ (was => last \in {slot[s].of, worker[s].req, slot[s].pending})
    BY SMTT(30), <1>0, <2>1, ResumesInOrder
  <2> QED BY Zenon, <1>w, <2>1, <2>2
<1>8. CASE Acquire(s)
  <2>1. Leaves(s, slot[s].of, slot[s].pending, worker[s].req, "gate") /\ worker[s].pc = "queue"
    BY Zenon, <1>8, AcquireDoes DEF Acquire, At, fixed, Leaves, WorkerIs, SlotIs
  <2>2. InOrder(last, slot[s].of, slot[s].pending, worker[s].req, "gate") /\ (was => last \in {slot[s].of, worker[s].req, slot[s].pending})
    BY SMTT(30), <1>0, <2>1, EntersInOrder
  <2> QED BY Zenon, <1>w, <2>1, <2>2
<1>9. CASE BuildReturns(s)
  <2>1. Leaves(s, slot[s].of, slot[s].pending, worker[s].req, "built") /\ worker[s].pc = "build"
    BY Zenon, <1>9, BuildReturnsDoes DEF BuildReturns, At, fixed, Leaves, WorkerIs, SlotIs
  <2>2. InOrder(last, slot[s].of, slot[s].pending, worker[s].req, "built") /\ (was => last \in {slot[s].of, worker[s].req, slot[s].pending})
    BY SMTT(30), <1>0, <2>1, BuiltInOrder
  <2> QED BY Zenon, <1>w, <2>1, <2>2
<1>10. CASE BuildPanics(s)
  <2>1. Leaves(s, slot[s].of, slot[s].pending, worker[s].req, "failed") /\ worker[s].pc = "build"
    BY Zenon, <1>10, BuildPanicsDoes DEF BuildPanics, At, fixed, Leaves, WorkerIs, SlotIs
  <2>2. InOrder(last, slot[s].of, slot[s].pending, worker[s].req, "failed") /\ (was => last \in {slot[s].of, worker[s].req, slot[s].pending})
    BY SMTT(30), <1>0, <2>1, PanicsInOrder
  <2> QED BY Zenon, <1>w, <2>1, <2>2
<1>11. CASE Failed(s)
  <2>1. /\ worker[s].pc = "failed"
        /\ \/ /\ slot[s].pending > worker[s].req
              /\ Leaves(s, slot[s].of, slot[s].pending, 0, "loop")
           \/ /\ ~(slot[s].pending > worker[s].req)
              /\ Leaves(s, slot[s].of, worker[s].req, 0, "backoff")
    BY Zenon, <1>11, FailedDoes DEF Failed, At, fixed, Leaves, WorkerIs, SlotIs
  <2>2. CASE slot[s].pending > worker[s].req
    <3>1. InOrder(last, slot[s].of, slot[s].pending, 0, "loop")
          /\ (was => last \in {slot[s].of, 0, slot[s].pending})
      BY SMTT(30), <1>0, <2>1, <2>2, FailInOrder
    <3> QED BY Zenon, <1>w, <2>1, <2>2, <3>1
  <2>3. CASE ~(slot[s].pending > worker[s].req)
    <3>1. InOrder(last, slot[s].of, worker[s].req, 0, "backoff")
          /\ (was => last \in {slot[s].of, 0, worker[s].req})
      BY SMTT(30), <1>0, <2>1, <2>3, FailInOrder
    <3> QED BY Zenon, <1>w, <2>1, <2>3, <3>1
  <2> QED BY Zenon, <2>2, <2>3
<1> QED BY Zenon, <1>1, <1>2, <1>3, <1>4, <1>5, <1>6, <1>7, <1>8, <1>9, <1>10, <1>11

\* The steps in which a worker stops.
LEMMA StopsLatest ==
  ASSUME TypeOK, GateInv, LatestInv, NEW s \in Slots,
         Loop(s) \/ Discard(s) \/ WaitCancelled(s) \/ TaskDropped(s)
  PROVE  LatestInv'
<1> DEFINE was == Latest(s) \in {slot[s].of, worker[s].req, slot[s].pending}
<1>1. CASE Loop(s)
  <2>u. UNCHANGED <<group, generation, cancelled, run>> /\ worker[s].pc = "loop"
    BY Zenon, <1>1 DEF Loop, At, fixed
  <2>0. /\ slot[s].of \in Nat /\ slot[s].pending \in Nat /\ worker[s].req \in Nat /\ Latest(s) \in Nat
        /\ InOrder(Latest(s), slot[s].of, slot[s].pending, worker[s].req, worker[s].pc)
    BY Zenon, Requested
  <2>1. CASE Cancelled(s) /\ Stop(s, "none", Free) BY Zenon, <2>u, <2>1, StopLatest, HoldersAre
  <2>2. CASE slot[s].pending = 0 /\ ~(Cancelled(s) /\ Stop(s, "none", Free))
    <3>1. /\ Others(s) /\ WorkerIs(s, "none", 0, None, None)
          /\ SlotIs(s, slot[s].pub, slot[s].of, slot[s].pending, FALSE)
      BY Zenon, <1>1, <2>2, LoopDoes
    <3>2. InOrder(Latest(s), slot[s].of, slot[s].pending, 0, "none")
          /\ (was => Latest(s) \in {slot[s].of, 0, slot[s].pending})
      BY SMTT(30), <2>u, <2>0, EndsInOrder
    <3>3. /\ slot'[s].of = slot[s].of /\ slot'[s].pending = slot[s].pending
          /\ worker'[s].req = 0 /\ worker'[s].pc = "none"
      BY Zenon, <3>1 DEF WorkerIs, SlotIs
    <3> QED BY Zenon, <2>u, <3>1, <3>2, <3>3, WorkerLatest
  <2>3. CASE slot[s].pending # 0 /\ ~(Cancelled(s) /\ Stop(s, "none", Free))
    <3>1. /\ Others(s) /\ WorkerIs(s, "queue", worker[s].req, worker[s].sel, worker[s].old)
          /\ SlotIs(s, slot[s].pub, slot[s].of, slot[s].pending, slot[s].running)
      BY Zenon, <1>1, <2>3, LoopDoes
    <3>2. InOrder(Latest(s), slot[s].of, slot[s].pending, worker[s].req, "queue")
          /\ (was => Latest(s) \in {slot[s].of, worker[s].req, slot[s].pending})
      BY SMTT(30), <2>u, <2>0, <2>3, QueuesInOrder
    <3>3. /\ slot'[s].of = slot[s].of /\ slot'[s].pending = slot[s].pending
          /\ worker'[s].req = worker[s].req /\ worker'[s].pc = "queue"
      BY Zenon, <3>1 DEF WorkerIs, SlotIs
    <3> QED BY Zenon, <2>u, <3>1, <3>2, <3>3, WorkerLatest
  <2> QED BY Zenon, <2>1, <2>2, <2>3
<1>2. CASE Discard(s)
  <2>1. UNCHANGED <<group, generation, cancelled, run>> BY Zenon, <1>2 DEF Discard, fixed
  <2>2. worker[s].pc \notin {"swapped", "store"} BY Zenon, <1>2 DEF Discard, At
  <2>3. \E h \in Holders : Stop(s, "none", h) BY Zenon, <1>2, DiscardDoes DEF StopsAt
  <2> QED BY Zenon, <2>1, <2>2, <2>3, StopLatest
<1>3. CASE WaitCancelled(s)
  <2>1. UNCHANGED <<group, generation, cancelled, run>> BY Zenon, <1>3 DEF WaitCancelled, fixed
  <2>2. worker[s].pc \notin {"swapped", "store"} BY Zenon, <1>3 DEF WaitCancelled
  <2>3. \E h \in Holders : Stop(s, "none", h) BY Zenon, <1>3, HoldersAre DEF WaitCancelled
  <2> QED BY Zenon, <2>1, <2>2, <2>3, StopLatest
<1>4. CASE TaskDropped(s)
  <2>1. UNCHANGED <<group, generation, cancelled, run>> BY Zenon, <1>4 DEF TaskDropped, fixed
  <2>2. worker[s].pc \notin {"swapped", "store"} BY Zenon, <1>4 DEF TaskDropped
  <2>3. \E h \in Holders : Stop(s, "gone", h) BY Zenon, <1>4, HoldersAre DEF TaskDropped
  <2> QED BY Zenon, <2>1, <2>2, <2>3, StopLatest
<1> QED BY Zenon, <1>1, <1>2, <1>3, <1>4

LEMMA NextLatest == TypeOK /\ GateInv /\ LatestInv /\ [Next]_vars => LatestInv'
<1> SUFFICES ASSUME TypeOK, GateInv, LatestInv, [Next]_vars PROVE LatestInv' BY Zenon
<1>same. ASSUME UNCHANGED <<group, generation, cancelled, run, slot, worker>> PROVE LatestInv'
  BY Zenon, <1>same DEF LatestInv, RequestedAt, Awaited, Latest, Cancelled, Scheduled
<1>g. ASSUME NEW g \in Groups,
             \/ RunStep(g) \/ UpdateDue(g) \/ ShuttingDown(g) \/ DropGroup(g)
             \/ \E failed \in BOOLEAN : UpdateUnchanged(g, failed)
      PROVE  LatestInv'
  <2>1. CASE UpdateChanged(g) BY Zenon, <2>1, ChangedLatest
  <2>2. CASE ScheduleSelectorRebuild(g) BY Zenon, <2>2, ScheduledLatest
  <2>3. CASE InterruptRetry(g)
    <3>1. /\ OtherRuns(g) /\ run'[g].pc = run[g].pc /\ run'[g].todo = run[g].todo
          /\ \A s \in Slots : SlotIs(s, slot[s].pub, slot[s].of, slot[s].pending, slot[s].running)
          /\ UNCHANGED <<group, generation, cancelled, worker>>
      BY Zenon, <2>3, InterruptDoes
    <3>2. \A s \in Slots : slot'[s].of = slot[s].of /\ slot'[s].pending = slot[s].pending
      BY Zenon, <3>1 DEF SlotIs
    <3> QED BY Zenon, <3>1, <3>2, RunLatest
  <2>4. ASSUME Continues(g), cancelled \subseteq cancelled' PROVE LatestInv'
    <3>1. /\ OtherRuns(g) /\ run'[g].pc # "schedule" /\ (run[g].pc = "schedule" => run[g].todo = {})
          /\ UNCHANGED <<group, generation, slot, worker>>
      BY Zenon, <2>4 DEF Continues, apart
    <3> QED BY Zenon, <2>4, <3>1, RunLatest
  <2>5. CASE DropGroup(g) BY Zenon, <2>4, <2>5, DropGroupDoes
  <2> QED BY Zenon, <1>g, <2>1, <2>2, <2>3, <2>4, <2>5, RunDoes DEF RunStep
<1>s. ASSUME NEW s \in Slots,
             \/ WorkerStep(s) \/ Acquire(s) \/ BuildReturns(s) \/ BuildPanics(s)
             \/ BackoffInterrupted(s) \/ TaskDropped(s)
      PROVE  LatestInv'
  BY Zenon, <1>s, GoesOnLatest, StopsLatest DEF WorkerStep
<1>o. ASSUME NEW o \in Selectors, DropTask(o) \/ OrphanEnds(o) PROVE LatestInv'
  BY Zenon, <1>o, <1>same DEF DropTask, OrphanEnds, fixed
<1>r. ASSUME NEW r \in Requests, SelectReturns(r) \/ \E s \in Slots : Select(r, s) PROVE LatestInv'
  BY Zenon, <1>r, <1>same DEF SelectReturns, Select, fixed
<1>f. CASE Finished \/ UNCHANGED vars BY Zenon, <1>f, <1>same DEF Finished, vars
<1> QED BY Zenon, <1>g, <1>s, <1>o, <1>r, <1>f DEF Next


LEMMA InitMemory == Init => MemoryInv
<1> SUFFICES ASSUME Init PROVE MemoryInv BY Zenon
<1>1. \A s \in Slots : /\ slot[s].pub = s /\ worker[s].pc = "none"
                       /\ worker[s].sel = None /\ worker[s].old = None
  BY Zenon DEF Init, Idle
<1>2. GateInv BY Zenon, <1>1, HoldersApart DEF Init, GateInv, Off, Inside
<1>3. PublishedApart BY Zenon, <1>1, NoneIsApart DEF Init, PublishedApart
<1>4. ReadersApart /\ BuildsApart /\ Accounted
  BY Zenon, <1>1 DEF Init, ReadersApart, BuildsApart, Accounted
<1> QED BY Zenon, <1>2, <1>3, <1>4 DEF MemoryInv

LEMMA StopMemory ==
  ASSUME TypeOK, MemoryInv, NEW s \in Slots, NEW pc \in {"none", "gone"}, NEW h \in Holders,
         Stop(s, pc, h), UNCHANGED <<group, cancelled, retired, reader>>,
         worker[s].pc \notin {"swapped", "store"},
         \/ /\ worker[s].pc \notin {"build", "built"} /\ h = Free
            /\ UNCHANGED <<dropping, orphans>>
         \/ /\ worker[s].pc = "built" /\ h = Task(worker[s].sel)
            /\ dropping' = dropping \union {worker[s].sel} /\ UNCHANGED orphans
         \/ /\ worker[s].pc = "build" /\ h = Free
            /\ orphans' = orphans \union {worker[s].sel} /\ UNCHANGED dropping
  PROVE  MemoryInv'
<1> USE HoldersApart, NoneIsApart
<1>1. /\ Others(s) /\ WorkerIs(s, pc, 0, None, None)
      /\ slot'[s].pub = slot[s].pub
      /\ permit' = (IF permit = Worker(s) THEN h ELSE permit)
  BY Zenon, StopDoes DEF SlotIs
<1>2. worker[s].sel # None => worker[s].sel \in Selectors BY Zenon DEF TypeOK, WorkerState
<1>3. Off(s)' /\ ~Inside(s)' /\ \A t \in Slots : Live(t)' => Live(t)
  BY Zenon, <1>1 DEF Off, Inside, WorkerIs, Others, Live, Cancelled
<1>4. \A t \in Slots : t # s => (Inside(t)' <=> Inside(t)) /\ (Off(t)' <=> Off(t))
  BY Zenon, <1>1 DEF Off, Inside, Others
<1>5. Inside(s) <=> permit = Worker(s) BY Zenon DEF MemoryInv, GateInv
<1>p. \A t \in Slots : slot[t].pub # None /\ slot'[t].pub = slot[t].pub
  BY SMTT(30), <1>1 DEF TypeOK, SlotState, Others
<1>6. GateInv'
  <2>1. ASSUME NEW t \in Slots
        PROVE  /\ ~slot'[t].running => Off(t)'
               /\ worker'[t].sel # None <=> worker'[t].pc \in {"build", "built"}
               /\ worker'[t].old # None <=> worker'[t].pc = "swapped"
    BY SMTT(30), <1>1, <1>3, <1>4 DEF MemoryInv, GateInv, WorkerIs, Others
  <2>2. ASSUME NEW t \in Slots PROVE Inside(t)' <=> permit' = Worker(t)
    <3>1. h # Worker(t) BY Zenon, <1>2, <1>5 DEF MemoryInv, GateInv
    <3>2. Inside(t) <=> permit = Worker(t) BY Zenon DEF MemoryInv, GateInv
    <3>3. CASE t = s BY Zenon, <3>3, <3>1, <1>1, <1>3, <1>5
    <3>4. CASE t # s BY Zenon, <3>4, <3>1, <3>2, <1>1, <1>4
    <3> QED BY Zenon, <3>3, <3>4
  <2>3. ASSUME retired' # None
        PROVE  \/ permit' = Free
               \/ \E t \in Slots : permit' = Worker(t) /\ worker'[t].pc \in {"gate", "store"}
    <3>1. \/ permit = Free
          \/ \E t \in Slots : permit = Worker(t) /\ worker[t].pc \in {"gate", "store"}
      BY Zenon, <2>3 DEF MemoryInv, GateInv
    <3>2. CASE permit = Free BY Zenon, <3>2, <1>1
    <3>3. ASSUME NEW t \in Slots, permit = Worker(t), worker[t].pc \in {"gate", "store"}
          PROVE  permit' = Free \/ (permit' = Worker(t) /\ worker'[t].pc \in {"gate", "store"})
      <4>1. CASE t = s
        <5>1. h = Free BY Zenon, <4>1, <3>3
        <5>2. permit = Worker(s) BY Zenon, <4>1, <3>3
        <5>3. permit' = h BY Zenon, <5>2, <1>1
        <5> QED BY Zenon, <5>1, <5>3
      <4>2. CASE t # s BY Zenon, <4>2, <3>3, <1>1 DEF Others
      <4> QED BY Zenon, <4>1, <4>2
    <3> QED BY Zenon, <3>1, <3>2, <3>3
  <2>4. ASSUME NEW o \in Selectors, permit' = Task(o) PROVE o \in dropping'
    <3>1. CASE permit = Worker(s)
      <4>1. h = Task(o) /\ h # Free BY Zenon, <3>1, <2>4, <1>1
      <4>2. h = Task(worker[s].sel) /\ dropping' = dropping \union {worker[s].sel} BY Zenon, <4>1
      <4>3. worker[s].sel # None BY Zenon, <4>1 DEF MemoryInv, GateInv
      <4> QED BY Zenon, <4>1, <4>2, <4>3, <1>2
    <3>2. CASE permit # Worker(s)
      <4>1. permit = Task(o) BY Zenon, <3>2, <2>4, <1>1
      <4>2. o \in dropping BY Zenon, <4>1 DEF MemoryInv, GateInv
      <4> QED BY Zenon, <4>2
    <3> QED BY Zenon, <3>1, <3>2
  <2> QED BY Zenon, <2>1, <2>2, <2>3, <2>4 DEF GateInv
<1>7. PublishedApart'
  <2>1. SUFFICES ASSUME NEW t \in Slots, Live(t)'
                 PROVE  /\ slot[t].pub \notin dropping' /\ slot[t].pub \notin orphans'
                        /\ \A u \in Slots : /\ Live(u)' /\ u # t => slot[u].pub # slot[t].pub
                                            /\ worker'[u].sel # slot[t].pub
                                            /\ worker'[u].old # slot[t].pub
    BY Zenon, <1>p DEF PublishedApart
  <2>2. Live(t) BY Zenon, <2>1, <1>3
  <2>3. slot[t].pub \notin dropping' /\ slot[t].pub \notin orphans'
    BY Zenon, <2>2 DEF MemoryInv, PublishedApart
  <2>4. \A u \in Slots : /\ Live(u) /\ u # t => slot[u].pub # slot[t].pub
                         /\ worker[u].sel # slot[t].pub /\ worker[u].old # slot[t].pub
    BY Zenon, <2>2 DEF MemoryInv, PublishedApart
  <2>5. /\ worker'[s].sel = None /\ worker'[s].old = None
        /\ \A u \in Slots : u # s => worker'[u] = worker[u]
    BY Zenon, <1>1 DEF WorkerIs, Others
  <2> QED BY SMTT(30), <2>3, <2>4, <2>5, <1>3, <1>p
<1>8. ReadersApart'
  <2>1. SUFFICES ASSUME NEW r \in Requests, reader[r] # NoSelector
                 PROVE  /\ reader[r].slot \in Slots /\ ~Cancelled(reader[r].slot)
                        /\ reader[r].sel # None /\ reader[r].sel \notin orphans'
                        /\ permit' # Task(reader[r].sel)
                        /\ \A t \in Slots :
                             /\ worker'[t].sel # reader[r].sel
                             /\ Live(t)' /\ t # reader[r].slot => slot'[t].pub # reader[r].sel
    BY Zenon DEF ReadersApart, Cancelled
  <2>2. /\ reader[r].slot \in Slots /\ ~Cancelled(reader[r].slot)
        /\ reader[r].sel # None /\ reader[r].sel \notin orphans /\ permit # Task(reader[r].sel)
        /\ \A t \in Slots : /\ worker[t].sel # reader[r].sel
                            /\ Live(t) /\ t # reader[r].slot => slot[t].pub # reader[r].sel
    BY Zenon, <2>1 DEF MemoryInv, ReadersApart
  <2>3. /\ worker'[s].sel = None /\ \A t \in Slots : t # s => worker'[t] = worker[t]
    BY Zenon, <1>1 DEF WorkerIs, Others
  <2>4. permit' # Task(reader[r].sel)
    <3>1. reader[r].sel \in Selectors BY Zenon, <2>2 DEF TypeOK
    <3>2. h = Free \/ (h = Task(worker[s].sel) /\ worker[s].sel # None)
      BY Zenon DEF MemoryInv, GateInv
    <3>3. h # Task(reader[r].sel) BY Zenon, <2>2, <3>1, <3>2, <1>2
    <3> QED BY Zenon, <3>3, <2>2, <1>1
  <2>5. reader[r].sel \notin orphans' BY Zenon, <2>2
  <2>6. \A t \in Slots : worker'[t].sel # reader[r].sel BY Zenon, <2>2, <2>3
  <2> QED BY Zenon, <2>2, <2>4, <2>5, <2>6, <1>3, <1>p
<1>9. BuildsApart'
  <2>1. worker[s].pc \in {"build", "built"} =>
          /\ worker[s].sel # None
          /\ \A t \in Slots : t # s => worker[t].sel = None /\ worker[t].old = None
    BY SMTT(30), <1>5 DEF MemoryInv, GateInv, Inside
  <2>2. None \notin dropping' /\ None \notin orphans' BY Zenon, <2>1 DEF TypeOK
  <2>3. orphans' \cap dropping' = {}
    <3>1. orphans \cap dropping = {} /\ worker[s].sel \notin dropping /\ worker[s].sel \notin orphans
      BY Zenon DEF MemoryInv, BuildsApart
    <3> QED BY Zenon, <3>1
  <2>4. ASSUME NEW t \in Slots
        PROVE  worker'[t].sel \notin dropping' \union orphans' /\ worker'[t].old \notin orphans'
    <3>1. CASE t = s BY Zenon, <3>1, <2>2, <1>1 DEF WorkerIs
    <3>2. CASE t # s BY Zenon, <3>2, <2>1, <2>2, <1>1 DEF Others, MemoryInv, BuildsApart
    <3> QED BY Zenon, <3>1, <3>2
  <2> QED BY Zenon, <2>3, <2>4 DEF BuildsApart
<1>10. Accounted'
  <2>1. ASSUME NEW o \in dropping' PROVE o = retired' \/ permit' = Task(o)
    <3>1. CASE o \in dropping
      <4>1. o \in Selectors /\ (o = retired \/ permit = Task(o))
        BY Zenon, <3>1 DEF MemoryInv, Accounted, TypeOK
      <4> QED BY Zenon, <4>1, <1>1
    <3>2. CASE o \notin dropping
      <4>1. worker[s].pc = "built" /\ h = Task(worker[s].sel) /\ o = worker[s].sel BY Zenon, <2>1, <3>2
      <4>2. permit = Worker(s) BY Zenon, <4>1, <1>5 DEF Inside
      <4> QED BY Zenon, <4>1, <4>2, <1>1
    <3> QED BY Zenon, <3>1, <3>2
  <2>2. worker[s].old = None BY Zenon DEF MemoryInv, GateInv
  <2>3. ASSUME NEW r \in Requests, reader'[r] # NoSelector
        PROVE  \/ reader'[r].sel \in {slot'[reader'[r].slot].pub, retired'}
               \/ \E t \in Slots : worker'[t].old = reader'[r].sel
    <3>1. /\ reader[r].sel # None /\ reader[r].slot \in Slots
          /\ \/ reader[r].sel \in {slot[reader[r].slot].pub, retired}
             \/ \E t \in Slots : worker[t].old = reader[r].sel
      BY Zenon, <2>3 DEF MemoryInv, Accounted, ReadersApart
    <3> QED BY Zenon, <3>1, <2>2, <1>1, <1>p DEF Others
  <2> QED BY Zenon, <2>1, <2>3 DEF Accounted
<1> QED BY Zenon, <1>6, <1>7, <1>8, <1>9, <1>10 DEF MemoryInv

\* Any other step of a worker.
LEMMA WorkerMemory ==
  ASSUME TypeOK, MemoryInv, NEW s \in Slots,
         \/ Loop(s) \/ BackoffEnds(s) \/ BackoffInterrupted(s) \/ BuildReturns(s)
         \/ Discard(s) \/ WaitCancelled(s) \/ TaskDropped(s)
  PROVE  MemoryInv'
<1>gate. GateInv BY Zenon DEF MemoryInv
<1>u. UNCHANGED <<group, cancelled, reader>>
  BY Zenon DEF Loop, BackoffEnds, BackoffInterrupted, BuildReturns, Discard, WaitCancelled,
         TaskDropped, fixed, memory
<1>i. Inside(s) <=> permit = Worker(s) BY Zenon DEF MemoryInv, GateInv
<1>t. /\ \A t \in Slots : slot[t].pub # None
      /\ None \notin dropping /\ None \notin orphans /\ None \notin dropping \union orphans
  BY Zenon, NoneIsApart DEF TypeOK, SlotState
<1>r. ASSUME NEW r \in Requests, reader[r] # NoSelector
      PROVE  reader[r].sel \in Selectors
  BY Zenon, <1>r DEF TypeOK, MemoryInv, ReadersApart
<1>1. CASE Loop(s)
  <2>1. CASE Cancelled(s) /\ Stop(s, "none", Free)
    <3>1. UNCHANGED <<retired, dropping, orphans>> BY Zenon, <1>1 DEF Loop, memory
    <3> QED BY Zenon, <1>1, <1>u, <2>1, <3>1, StopMemory, HoldersAre DEF Loop, At
  <2>2. CASE ~(Cancelled(s) /\ Stop(s, "none", Free))
    <3>1. /\ Others(s) /\ worker[s].pc = "loop" /\ ~Cancelled(s) /\ slot'[s].pub = slot[s].pub
          /\ \/ WorkerIs(s, "none", 0, None, None)
             \/ /\ WorkerIs(s, "queue", worker[s].req, worker[s].sel, worker[s].old)
                /\ slot'[s].running = slot[s].running
          /\ permit' = permit
      BY Zenon, <1>1, <2>2, LoopDoes DEF Loop, At, SlotIs
    <3>2. worker[s].sel = None /\ worker[s].old = None /\ slot[s].running
      BY Zenon, <3>1, <1>gate DEF GateInv, Off
    <3>3. UNCHANGED <<retired, dropping, orphans>> BY Zenon, <1>1 DEF Loop, memory
    <3>4. \A t \in Slots : t # s => (~slot[t].running => Off(t)) BY Zenon, <1>gate DEF GateInv
    <3>5. /\ worker'[s].sel = None /\ worker'[s].old = None /\ worker'[s].pc \in {"none", "queue"}
          /\ worker'[s].pc = "queue" => slot'[s].running
      BY Zenon, <3>1, <3>2 DEF WorkerIs
    <3>6. /\ \A t \in Slots : t # s => slot'[t] = slot[t] /\ worker'[t] = worker[t]
          /\ \A t \in Slots : Cancelled(t)' <=> Cancelled(t)
      BY Zenon, <1>u, <3>1 DEF Others, Cancelled
    <3>7. ASSUME NEW t \in Slots
          PROVE  /\ slot'[t].pub = slot[t].pub
                 /\ worker'[t].sel = worker[t].sel /\ worker'[t].old = worker[t].old
                 /\ Live(t)' <=> Live(t)
                 /\ Cancelled(t)' <=> Cancelled(t)
                 /\ ~slot'[t].running => Off(t)'
                 /\ Inside(t)' <=> Inside(t)
                 /\ worker'[t].pc \in {"build", "built"} <=> worker[t].pc \in {"build", "built"}
                 /\ worker'[t].pc = "swapped" <=> worker[t].pc = "swapped"
                 /\ worker'[t].pc \in {"gate", "store"} <=> worker[t].pc \in {"gate", "store"}
      <4>1. CASE t = s BY Zenon, <4>1, <3>1, <3>2, <3>5, <3>6 DEF Live, Off, Inside
      <4>2. CASE t # s BY Zenon, <4>2, <3>4, <3>6 DEF Live, Off, Inside
      <4> QED BY Zenon, <4>1, <4>2
    <3> QED BY Zenon, <1>u, <3>1, <3>3, <3>7, MemoryFrame
  <2> QED BY Zenon, <2>1, <2>2
<1>2. CASE BackoffEnds(s) \/ BackoffInterrupted(s) \/ BuildReturns(s)
  <2>1. /\ Others(s) /\ slot'[s].pub = slot[s].pub /\ slot'[s].running = slot[s].running
        /\ worker'[s].sel = worker[s].sel /\ worker'[s].old = worker[s].old
        /\ \/ worker[s].pc = "backoff" /\ worker'[s].pc = "loop"
           \/ worker[s].pc = "build" /\ worker'[s].pc = "built"
        /\ UNCHANGED <<permit, retired, dropping, orphans>>
    BY Zenon, <1>2, BackoffEndsDoes, BackoffInterruptedDoes, BuildReturnsDoes
       DEF BackoffEnds, BackoffInterrupted, BuildReturns, At, SlotIs, WorkerIs, gate, memory
  <2>2. \A t \in Slots : ~slot[t].running => Off(t) BY Zenon, <1>gate DEF GateInv
  <2> QED BY Zenon, <1>u, <2>1, <2>2, MemoryFrame DEF Live, Cancelled, Off, Inside, Others
<1>3. CASE Discard(s)
  BY Zenon, <1>3, <1>u, <1>gate, DiscardDoes, StopMemory DEF At, StopsAt
<1>4. CASE WaitCancelled(s)
  BY Zenon, <1>4, <1>u, WaitCancelledDoes, StopMemory DEF WaitCancelled, StopsAt
<1>5. CASE TaskDropped(s)
  BY Zenon, <1>5, <1>u, <1>gate, TaskDroppedDoes, StopMemory DEF TaskDropped, At, StopsAt
<1> QED BY Zenon, <1>1, <1>2, <1>3, <1>4, <1>5

LEMMA NewReader ==
  ASSUME TypeOK, NEW r \in Requests, SelectReturns(r) \/ \E s \in Slots : Select(r, s)
  PROVE  /\ reader' \in [Requests -> [slot : Slots \union {None}, sel : Selectors \union {None}]]
         /\ \A q \in Requests : q # r => reader'[q] = reader[q]
         /\ \/ reader'[r] = NoSelector
            \/ /\ reader'[r].slot \in Slots /\ ~Cancelled(reader'[r].slot)
               /\ reader'[r].sel = slot[reader'[r].slot].pub
<1> DEFINE R == [slot : Slots \union {None}, sel : Selectors \union {None}]
<1>t. reader \in [Requests -> R] BY Zenon DEF TypeOK
<1>1. ASSUME NEW v \in R, reader' = [reader EXCEPT ![r] = v]
      PROVE  reader' \in [Requests -> R] /\ reader'[r] = v
             /\ \A q \in Requests : q # r => reader'[q] = reader[q]
  <2> HIDE DEF R
  <2> QED BY Zenon, <1>t, <1>1
<1>2. CASE SelectReturns(r)
  <2>1. NoSelector \in R BY Zenon DEF NoSelector
  <2> QED BY Zenon, <1>1, <1>2, <2>1 DEF SelectReturns
<1>3. ASSUME NEW s \in Slots, Select(r, s)
      PROVE  /\ reader' \in [Requests -> R]
             /\ \A q \in Requests : q # r => reader'[q] = reader[q]
             /\ reader'[r].slot = s /\ reader'[r].sel = slot[s].pub /\ ~Cancelled(s)
  <2>1. slot[s].pub \in Selectors BY Zenon DEF TypeOK, SlotState
  <2>2. [slot |-> s, sel |-> slot[s].pub] \in R BY Zenon, <2>1
  <2> QED BY Zenon, <1>1, <1>3, <2>2 DEF Select
<1> QED BY Zenon, <1>2, <1>3

LEMMA NextMemory == TypeOK /\ LatestInv /\ MemoryInv /\ [Next]_vars => MemoryInv'
<1> SUFFICES ASSUME TypeOK, LatestInv, MemoryInv, [Next]_vars PROVE MemoryInv' BY Zenon
<1>gate. GateInv BY Zenon DEF MemoryInv
<1>g. ASSUME NEW g \in Groups,
             \/ RunStep(g) \/ UpdateDue(g) \/ ShuttingDown(g) \/ DropGroup(g)
             \/ \E failed \in BOOLEAN : UpdateUnchanged(g, failed)
      PROVE  MemoryInv'
  <2>1. CASE UpdateChanged(g)
    <3>1. UNCHANGED <<group, cancelled, slot, worker, permit, retired, dropping, orphans, reader>>
      BY Zenon, <2>1, UpdateChangedDoes
    <3> QED BY Zenon, <3>1, <1>gate, MemoryFrame DEF Live, Cancelled, Off, Inside, GateInv
  <2>2. CASE ScheduleSelectorRebuild(g)
    <3>1. PICK s \in Slots :
           /\ s \in run[g].todo /\ g \notin cancelled /\ run[g].pc = "schedule" /\ Others(s)
           /\ SlotIs(s, slot[s].pub, slot[s].of, generation[g], TRUE)
           /\ \/ slot[s].running /\ worker'[s] = worker[s]
              \/ ~slot[s].running /\ WorkerIs(s, "loop", 0, None, None)
           /\ UNCHANGED <<group, cancelled, permit, retired, dropping, orphans, reader>>
      BY Zenon, <2>2, ScheduleDoes
    <3>2. group[s] = g BY Zenon, <3>1 DEF LatestInv, Scheduled
    <3>3. ~slot[s].running =>
            worker[s].pc \in {"none", "gone"} /\ worker[s].sel = None /\ worker[s].old = None
      BY Zenon, <1>gate DEF GateInv, Off
    <3>4. ASSUME NEW t \in Slots
          PROVE  /\ slot'[t].pub = slot[t].pub
                 /\ worker'[t].sel = worker[t].sel /\ worker'[t].old = worker[t].old
                 /\ Live(t)' <=> Live(t)
                 /\ Cancelled(t)' <=> Cancelled(t)
                 /\ ~slot'[t].running => Off(t)'
                 /\ Inside(t)' <=> Inside(t)
                 /\ worker'[t].pc \in {"build", "built"} <=> worker[t].pc \in {"build", "built"}
                 /\ worker'[t].pc = "swapped" <=> worker[t].pc = "swapped"
                 /\ worker'[t].pc \in {"gate", "store"} <=> worker[t].pc \in {"gate", "store"}
      <4>1. CASE t = s
        BY Zenon, <4>1, <3>1, <3>2, <3>3 DEF Live, Cancelled, Off, Inside, SlotIs, WorkerIs
      <4>2. CASE t # s
        BY Zenon, <4>2, <3>1, <1>gate DEF Live, Cancelled, Off, Inside, Others, GateInv
      <4> QED BY Zenon, <4>1, <4>2
    <3> QED BY Zenon, <3>1, <3>4, MemoryFrame
  <2>3. CASE InterruptRetry(g)
    <3>1. /\ \A s \in Slots : SlotIs(s, slot[s].pub, slot[s].of, slot[s].pending, slot[s].running)
          /\ UNCHANGED <<group, cancelled, worker, permit, retired, dropping, orphans, reader>>
      BY Zenon, <2>3, InterruptDoes
    <3> QED BY Zenon, <3>1, <1>gate, MemoryFrame DEF Live, Cancelled, Off, Inside, GateInv, SlotIs
  <2>4. ASSUME Continues(g), UNCHANGED cancelled PROVE MemoryInv'
    BY Zenon, <2>4, <1>gate, MemoryFrame DEF Continues, apart, Live, Cancelled, Off, Inside, GateInv
  <2>5. CASE DropGroup(g)
    <3>1. /\ UNCHANGED apart /\ cancelled' = cancelled \union {g}
          /\ \A r \in Requests : reader[r].slot \notin SlotsOf(g)
      BY Zenon, <2>5, DropGroupDoes DEF Continues
    <3>2. \A s \in Slots : /\ Live(s)' => Live(s)
                           /\ Off(s)' <=> Off(s)
                           /\ Inside(s)' <=> Inside(s)
                           /\ Cancelled(s)' => Cancelled(s) \/ s \in SlotsOf(g)
      BY Zenon, <3>1 DEF apart, Live, Cancelled, Off, Inside, SlotsOf
    <3>3. GateInv' BY Zenon, <3>1, <3>2 DEF MemoryInv, GateInv, apart
    <3>4. PublishedApart' BY Zenon, <3>1, <3>2 DEF MemoryInv, PublishedApart, apart
    <3>5. ReadersApart' BY Zenon, <3>1, <3>2 DEF MemoryInv, ReadersApart, apart
    <3>6. BuildsApart' /\ Accounted' BY Zenon, <3>1 DEF MemoryInv, BuildsApart, Accounted, apart
    <3> QED BY Zenon, <3>3, <3>4, <3>5, <3>6 DEF MemoryInv
  <2> QED BY SMTT(30), <1>g, <2>1, <2>2, <2>3, <2>4, <2>5, RunDoes DEF RunStep
<1>s. ASSUME NEW s \in Slots,
             \/ WorkerStep(s) \/ Acquire(s) \/ BuildReturns(s) \/ BuildPanics(s)
             \/ BackoffInterrupted(s) \/ TaskDropped(s)
      PROVE  MemoryInv'
  BY Zenon, <1>s, GateMemory, WorkerMemory DEF WorkerStep
<1>o. ASSUME NEW o \in Selectors, DropTask(o) \/ OrphanEnds(o) PROVE MemoryInv'
  <2> USE HoldersApart, NoneIsApart
  <2>1. /\ UNCHANGED <<group, cancelled, slot, worker, retired, reader>>
        /\ \/ o \in dropping /\ dropping' = dropping \ {o} /\ UNCHANGED orphans
              /\ permit' = (IF permit = Task(o) THEN Free ELSE permit)
           \/ o \in orphans /\ orphans' = orphans \ {o} /\ UNCHANGED <<dropping, permit>>
    BY Zenon, <1>o DEF DropTask, OrphanEnds, fixed, gate
  <2>2. \A t \in Slots : /\ Live(t)' <=> Live(t)
                         /\ Inside(t)' <=> Inside(t)
                         /\ Off(t)' <=> Off(t)
    BY Zenon, <2>1 DEF Live, Cancelled, Off, Inside
  <2>3. /\ \A t \in Slots : permit' = Worker(t) <=> permit = Worker(t)
        /\ permit = Free => permit' = Free
        /\ \A q \in Selectors : permit' = Task(q) => permit = Task(q) /\ (q # o \/ o \in orphans)
    BY Zenon, <2>1 DEF TypeOK
  <2>4. GateInv' BY Zenon, <2>1, <2>2, <2>3 DEF MemoryInv, GateInv, BuildsApart
  <2>5. PublishedApart' BY Zenon, <2>1, <2>2 DEF MemoryInv, PublishedApart
  <2>6. ReadersApart'
    <3>1. ASSUME NEW r \in Requests, reader[r] # NoSelector PROVE permit' # Task(reader[r].sel)
      BY Zenon, <3>1, <2>3 DEF TypeOK, MemoryInv, ReadersApart
    <3> QED BY Zenon, <2>1, <2>2, <3>1 DEF MemoryInv, ReadersApart, Cancelled
  <2>7. BuildsApart' BY Zenon, <2>1 DEF MemoryInv, BuildsApart
  <2>8. Accounted' BY Zenon, <2>1 DEF MemoryInv, Accounted, TypeOK
  <2> QED BY Zenon, <2>4, <2>5, <2>6, <2>7, <2>8 DEF MemoryInv
<1>r. ASSUME NEW r \in Requests, SelectReturns(r) \/ \E s \in Slots : Select(r, s) PROVE MemoryInv'
  <2>1. /\ UNCHANGED <<group, cancelled, slot, worker, permit, retired, dropping, orphans>>
        /\ reader' \in [Requests -> [slot : Slots \union {None}, sel : Selectors \union {None}]]
        /\ \A q \in Requests : q # r => reader'[q] = reader[q]
        /\ \/ reader'[r] = NoSelector
           \/ /\ reader'[r].slot \in Slots /\ ~Cancelled(reader'[r].slot)
              /\ reader'[r].sel = slot[reader'[r].slot].pub
    BY Zenon, <1>r, NewReader DEF SelectReturns, Select, fixed, gate
  <2>2. \A t \in Slots : /\ Live(t)' <=> Live(t)
                         /\ Cancelled(t)' <=> Cancelled(t)
                         /\ Inside(t)' <=> Inside(t)
                         /\ Off(t)' <=> Off(t)
    BY Zenon, <2>1 DEF Live, Cancelled, Off, Inside
  <2>3. GateInv' BY Zenon, <2>1, <2>2 DEF MemoryInv, GateInv
  <2>4. PublishedApart' BY Zenon, <2>1, <2>2 DEF MemoryInv, PublishedApart
  <2>5. ReadersApart'
    <3> SUFFICES ASSUME NEW q \in Requests, reader'[q] # NoSelector
                 PROVE  /\ reader'[q].slot \in Slots /\ ~Cancelled(reader'[q].slot)
                        /\ reader'[q].sel # None /\ reader'[q].sel \notin orphans
                        /\ permit # Task(reader'[q].sel)
                        /\ \A t \in Slots :
                             /\ worker[t].sel # reader'[q].sel
                             /\ Live(t) /\ t # reader'[q].slot => slot[t].pub # reader'[q].sel
      BY Zenon, <2>1, <2>2 DEF ReadersApart
    <3>1. CASE q # r
      <4>1. reader'[q] = reader[q] BY Zenon, <3>1, <2>1
      <4>2. reader[q] # NoSelector BY Zenon, <4>1
      <4>3. /\ reader[q].slot \in Slots /\ ~Cancelled(reader[q].slot)
            /\ reader[q].sel # None /\ reader[q].sel \notin orphans /\ permit # Task(reader[q].sel)
            /\ \A t \in Slots : /\ worker[t].sel # reader[q].sel
                                /\ Live(t) /\ t # reader[q].slot => slot[t].pub # reader[q].sel
        BY Zenon, <4>2 DEF MemoryInv, ReadersApart
      <4> QED BY Zenon, <4>1, <4>3
    <3>2. CASE q = r
      <4> DEFINE t == reader'[r].slot
      <4>1. t \in Slots /\ Live(t) /\ ~Cancelled(t) /\ reader'[r].sel = slot[t].pub
        BY Zenon, <3>2, <2>1 DEF Live
      <4>2. slot[t].pub \in Selectors BY Zenon, <4>1 DEF TypeOK, SlotState
      <4>3. permit # Task(slot[t].pub)
        BY Zenon, <4>1, <4>2 DEF MemoryInv, PublishedApart, GateInv
      <4> QED BY Zenon, <3>2, <4>1, <4>2, <4>3, NoneIsApart DEF MemoryInv, PublishedApart
    <3> QED BY Zenon, <3>1, <3>2
  <2>6. BuildsApart' BY Zenon, <2>1 DEF MemoryInv, BuildsApart
  <2>7. Accounted' BY ZenonT(40), <2>1 DEF MemoryInv, Accounted
  <2> QED BY Zenon, <2>3, <2>4, <2>5, <2>6, <2>7 DEF MemoryInv
<1>f. CASE Finished \/ UNCHANGED vars
  BY Zenon, <1>f, <1>gate, MemoryFrame DEF Finished, vars, Live, Cancelled, Off, Inside, GateInv
<1> QED BY Zenon, <1>g, <1>s, <1>o, <1>r, <1>f DEF Next

-----------------------------------------------------------------------------
LEMMA NextTypeOK == TypeOK /\ GateInv /\ [Next]_vars => TypeOK'
<1> SUFFICES ASSUME TypeOK, GateInv, [Next]_vars PROVE TypeOK'
  BY Zenon
<1>g. ASSUME NEW g \in Groups,
             \/ RunStep(g) \/ UpdateDue(g) \/ ShuttingDown(g) \/ DropGroup(g)
             \/ \E failed \in BOOLEAN : UpdateUnchanged(g, failed)
      PROVE  TypeOK'
  <2>1. CASE UpdateChanged(g) BY Zenon, <2>1, UpdateChangedDoes
  <2>2. CASE ScheduleSelectorRebuild(g) BY Zenon, <2>2, ScheduleDoes
  <2>3. CASE InterruptRetry(g) BY Zenon, <2>3, InterruptDoes
  <2>4. CASE DropGroup(g) BY Zenon, <2>4, DropGroupDoes DEF Continues
  <2>5. CASE \/ UpdateDone(g) \/ CheckReady(g) \/ RebuildNotified(g) \/ UpdateDue(g)
             \/ ShuttingDown(g) \/ \E failed \in BOOLEAN : UpdateUnchanged(g, failed)
    BY Zenon, <2>5, RunDoes DEF Continues
  <2> QED BY Zenon, <1>g, <2>1, <2>2, <2>3, <2>4, <2>5 DEF RunStep
<1>s. ASSUME NEW s \in Slots,
             \/ WorkerStep(s) \/ Acquire(s) \/ BuildReturns(s) \/ BuildPanics(s)
             \/ BackoffInterrupted(s) \/ TaskDropped(s)
      PROVE  TypeOK'
  BY Zenon, <1>s, LoopDoes, AwaitReleaseDoes, StartBuildDoes, DiscardDoes, PublishDoes, RetireDoes,
     StoreGenerationDoes, FailedDoes, BackoffEndsDoes, WaitCancelledDoes, AcquireDoes,
     BuildReturnsDoes, BuildPanicsDoes, BackoffInterruptedDoes, TaskDroppedDoes DEF WorkerStep
<1>o. ASSUME NEW o \in Selectors, DropTask(o) \/ OrphanEnds(o) PROVE TypeOK'
  BY Zenon, <1>o, HoldersAre DEF DropTask, OrphanEnds, fixed, gate, TypeOK
<1>r. ASSUME NEW r \in Requests, SelectReturns(r) \/ \E s \in Slots : Select(r, s) PROVE TypeOK'
  <2>1. UNCHANGED <<group, periodic, limit, generation, cancelled, slot, worker, permit, retired,
                    dropping, orphans, run, wake, drops>>
    BY Zenon, <1>r DEF SelectReturns, Select, fixed, gate
  <2> QED BY SMTT(30), <1>r, <2>1, NewReader DEF TypeOK
<1>f. CASE Finished \/ UNCHANGED vars BY Zenon, <1>f DEF Finished, vars, TypeOK
<1> QED BY Zenon, <1>g, <1>s, <1>o, <1>r, <1>f DEF Next

Inv == TypeOK /\ LatestInv /\ MemoryInv

LEMMA Inductive == Spec => []Inv
<1>1. Init => Inv BY Zenon, InitTypeOK, InitLatest, InitMemory DEF Inv
<1>2. Inv /\ [Next]_vars => Inv'
  BY Zenon, NextTypeOK, NextLatest, NextMemory DEF Inv, MemoryInv
<1> QED BY <1>1, <1>2, PTL DEF Spec

\* The latest membership of a slot whose group lives is published, in flight,
\* pending or about to be scheduled: schedule() only replaces a pending request
\* by a later one, and Stop, Failed and Loop put back or keep the request they
\* hold.
THEOREM LatestNeverLost == Spec => []LatestNotLost
<1>1. Inv => LatestNotLost
  BY Zenon DEF Inv, LatestInv, LatestNotLost, Awaited, Latest
<1> QED BY <1>1, Inductive, PTL

\* Of the selectors that are neither published nor left to a dropped task's
\* build, there is one at most: the permit's holder is building it, has swapped
\* it out or is dropping it, or the gate waits for its last reader.
THEOREM OneExtraAlways == Spec => []OneExtraSelector
<1>1. ASSUME Inv PROVE OneExtraSelector
  <2> USE <1>1, HoldersApart, NoneIsApart
  <2> DEFINE By(o) == \/ o = retired
                      \/ o \in Selectors /\ permit = Task(o)
                      \/ \E s \in Slots : permit = Worker(s) /\ o \in {worker[s].sel, worker[s].old}
             E == Extra \ orphans
  <2>1. ASSUME NEW s \in Slots, NEW o \in {worker[s].sel, worker[s].old}, o # None
        PROVE  permit = Worker(s) /\ worker[s].pc \in {"build", "built", "swapped"}
    BY Zenon, <2>1 DEF Inv, MemoryInv, GateInv, Inside
  <2>2. ASSUME NEW o \in E PROVE o # None /\ By(o)
    <3>1. o # None /\ o \notin orphans /\ o \notin Published BY Zenon DEF Extra, Alive
    <3>2. CASE o \in dropping BY Zenon, <3>2, <3>1 DEF Inv, MemoryInv, Accounted, TypeOK
    <3>3. ASSUME NEW s \in Slots, o \in {worker[s].sel, worker[s].old} PROVE o # None /\ By(o)
      BY Zenon, <3>1, <3>3, <2>1
    <3>4. ASSUME NEW r \in Requests, o = reader[r].sel PROVE o # None /\ By(o)
      <4>1. reader[r] # NoSelector BY <3>1, <3>4 DEF NoSelector
      <4>2. reader[r].slot \in Slots /\ ~Cancelled(reader[r].slot)
        BY Zenon, <4>1 DEF Inv, MemoryInv, ReadersApart
      <4>3. slot[reader[r].slot].pub \in Published BY Zenon, <4>2 DEF Published, Cancelled
      <4>4. o = retired \/ \E s \in Slots : worker[s].old = o
        BY Zenon, <3>1, <3>4, <4>1, <4>3 DEF Inv, MemoryInv, Accounted
      <4> QED BY Zenon, <3>1, <3>3, <4>4
    <3> QED BY Zenon, <3>1, <3>2, <3>3, <3>4 DEF Extra, Alive
  <2>3. ASSUME NEW o \in E, NEW q \in E PROVE o = q
    <3>1. o # None /\ By(o) /\ q # None /\ By(q) BY Zenon, <2>2
    <3>2. \A s \in Slots : worker[s].sel = None \/ worker[s].old = None
      BY Zenon DEF Inv, MemoryInv, GateInv
    <3>3. retired # None => /\ \A t \in Slots : worker[t].sel = None /\ worker[t].old = None
                            /\ \A e \in Selectors : permit # Task(e)
      <4>1. SUFFICES ASSUME retired # None,
                            permit = Free \/ \E s \in Slots : /\ permit = Worker(s)
                                                              /\ worker[s].pc \in {"gate", "store"}
                     PROVE  /\ \A t \in Slots : worker[t].sel = None /\ worker[t].old = None
                            /\ \A e \in Selectors : permit # Task(e)
        BY Zenon DEF Inv, MemoryInv, GateInv
      <4> QED BY Zenon, <4>1, <2>1
    <3> QED BY Zenon, <3>1, <3>2, <3>3
  <2> QED BY Zenon, <2>3 DEF OneExtraSelector
<1> QED BY <1>1, Inductive, PTL
=============================================================================
