---------------------------- MODULE BackendView ----------------------------
(***************************************************************************)
(* Backends of load balancers: the membership a view discovers, the flag   *)
(* that enables each backend in the view, and the health that the views of *)
(* one HealthRegistry share and HealthCheckService probes:                 *)
(* pingora-load-balancing/src/lib.rs, health_check.rs and background.rs.   *)
(*                                                                         *)
(* A view belongs to a LoadBalancer, whose selector is replaced inside the *)
(* update and asks the view for readiness, or to a LoadBalancerGroup,      *)
(* whose selectors are replaced later (SelectorRebuild) and carry the      *)
(* readiness they were built with.  A flag is an Arc<AtomicBool> and a     *)
(* handle a Health; both are freed when no snapshot holds them, and the    *)
(* view remembers a flag by a weak reference only.                         *)
(***************************************************************************)
EXTENDS Integers, FiniteSets, FiniteSetsExt, Functions

CONSTANTS Views, Backends,
          InGroup,        \* the views that belong to a group
          Key,            \* the registry's equivalence_key
          Flags, Handles, \* numbers for the allocated flags and handles
          Requests,
          Threshold,      \* health_threshold()
          Setups,         \* the changes of membership of each view, and the service's mode
          None

\* What the constants are taken to be.
ConstantsOK ==
  /\ InGroup \subseteq Views /\ None \notin Views
  /\ Backends \subseteq DOMAIN Key
  /\ Flags \subseteq Nat /\ Handles \subseteq Nat
  /\ Threshold \in Nat \ {0} /\ Setups \subseteq [limit : [Views -> Nat], periodic : BOOLEAN]

VARIABLES registry,    \* HealthRegistry: its views, health by key, queued removals, wakeups
          state,       \* BackendViewState: membership and readiness
          upd,         \* the update of each view, where it is
          updates,     \* the changes of membership still to come
          weak,        \* enablement_handles
          enabled,     \* the value of each flag
          health,      \* the value of each handle
          selector,    \* the published selector, with its readiness in a group
          pending,     \* the BackendUpdate a group still has to build from
          req,         \* select() of each request
          svc          \* HealthCheckService::run, and whether it has a frequency

vars == <<registry, state, upd, updates, weak, enabled, health, selector, pending, req, svc>>

Empty == [x \in {} |-> None]
Nothing == [members |-> {}, ready |-> Empty]
Idle == [pc |-> "idle", new |-> {}, over |-> Empty, map |-> Empty, ready |-> Empty,
         drained |-> {}]
NoRequest == [view |-> None, sel |-> Nothing, left |-> {}]
Healthy == [healthy |-> TRUE, counter |-> 0]

Init ==
  /\ registry = [views |-> [v \in Views |-> {}], health |-> Empty, queue |-> {},
                 available |-> FALSE, removed |-> FALSE]
  /\ state = [v \in Views |-> Nothing]
  /\ upd = [v \in Views |-> Idle]
  /\ weak = [v \in Views |-> Empty]
  /\ enabled = [v \in Views |-> [f \in Flags |-> TRUE]]
  /\ health = [h \in Handles |-> Healthy]
  /\ selector = [v \in Views |-> Nothing]
  /\ pending = [v \in Views |-> None]
  /\ req = [r \in Requests |-> NoRequest]
  /\ \E c \in Setups :
       /\ updates = c.limit
       /\ svc = [pc |-> "start", then |-> "count", drained |-> {}, left |-> Empty,
                 periodic |-> c.periodic]
-----------------------------------------------------------------------------
\* The snapshots of readiness somebody holds, by view.
Snapshots(v) ==
  {state[v].ready, upd[v].ready, selector[v].ready}
  \union (IF pending[v] = None THEN {} ELSE {pending[v].ready})
  \union {req[r].sel.ready : r \in {q \in Requests : req[q].view = v}}

LiveFlags(v) == UNION {{s[b].flag : b \in DOMAIN s} : s \in Snapshots(v)}

LiveHandles ==
  Range(registry.health) \union Range(svc.left)
  \union UNION {Range(upd[v].map) : v \in Views}
  \union UNION {UNION {{s[b].health : b \in DOMAIN s} : s \in Snapshots(v)} : v \in Views}

\* Some free numbers for the elements of S.
Fresh(S, free) == CHOOSE f \in Injection(S, free) : TRUE

Keys(reg) == {Key[b] : b \in UNION Range(reg.views)}

\* Mutant: health starts anew at every change.
Reconcile_Forgets(reg) ==
  LET new == Fresh(Keys(reg), Handles \ LiveHandles) IN
    [reg EXCEPT !.health = new, !.available = @ \/ (DOMAIN reg.health = {} /\ Keys(reg) # {})]

\* reconcile(): the targets are the keys of all views; a key keeps its handle.
\* The first target leaves a wakeup, for a service that waits or is about to.
Reconcile(reg) ==
  LET old == DOMAIN reg.health
      new == Fresh(Keys(reg) \ old, Handles \ LiveHandles)
  IN [reg EXCEPT !.health = [k \in Keys(reg) |-> IF k \in old THEN @[k] ELSE new[k]],
                 !.available = @ \/ (old = {} /\ Keys(reg) # {})]

\* Store the reconciled state; a handle that nobody holds yet is healthy.
StoreRegistry(reg) ==
  /\ registry' = Reconcile(reg)
  /\ health' = [h \in Handles |-> IF h \in LiveHandles THEN health[h] ELSE Healthy]

\* apply_pending_view_removals(): the queue is drained by whoever comes first,
\* who removes those views in a second critical section.
Undrained == registry.queue # {}
DrainQueue == registry' = [registry EXCEPT !.queue = {}]
RemoveViews(ids) ==
  StoreRegistry([registry EXCEPT !.views = [v \in Views |-> IF v \in ids THEN {} ELSE @[v]]])
-----------------------------------------------------------------------------
(* Backends::update and do_update                                          *)

\* Discovery returns; with the membership as before, only the enablement it
\* gives is stored.
Discover(v, members, over) ==
  /\ upd[v].pc = "idle"
  /\ IF members = state[v].members
       THEN /\ LET ready == state[v].ready
                   set == DOMAIN over \intersect DOMAIN ready
               IN enabled' = [enabled EXCEPT ![v] =
                    [f \in Flags |-> IF \E b \in set : ready[b].flag = f
                                       THEN over[CHOOSE b \in set : ready[b].flag = f] ELSE @[f]]]
            /\ UNCHANGED <<upd, updates>>
       ELSE /\ updates[v] > 0
            /\ updates' = [updates EXCEPT ![v] = @ - 1]
            /\ upd' = [upd EXCEPT ![v].pc = "drain", ![v].new = members, ![v].over = over]
            /\ UNCHANGED enabled
  /\ UNCHANGED <<registry, state, weak, health, selector, pending, req, svc>>

Drain(v) ==
  /\ upd[v].pc = "drain"
  /\ IF Undrained
       THEN DrainQueue /\ upd' = [upd EXCEPT ![v].pc = "remove", ![v].drained = registry.queue]
       ELSE upd' = [upd EXCEPT ![v].pc = "view"] /\ UNCHANGED registry
  /\ UNCHANGED <<state, updates, weak, enabled, health, selector, pending, req, svc>>

Remove(v) ==
  /\ upd[v].pc = "remove"
  /\ RemoveViews(upd[v].drained)
  /\ upd' = [upd EXCEPT ![v].pc = "view", ![v].drained = {}]
  /\ UNCHANGED <<state, updates, weak, enabled, selector, pending, req, svc>>

\* update_view(): the registry's state as reconciled is what the update uses.
UpdateView(v) ==
  /\ upd[v].pc = "view"
  /\ StoreRegistry([registry EXCEPT !.views[v] = upd[v].new])
  /\ upd' = [upd EXCEPT ![v].pc = "readiness",
                        ![v].map = Restrict(registry'.health, {Key[b] : b \in upd[v].new})]
  /\ UNCHANGED <<state, updates, weak, enabled, selector, pending, req, svc>>

\* The flag of each backend: the one it has, or one that a snapshot still
\* holds, or a new one.
FlagsOf(v) ==
  LET new == upd[v].new
      old == state[v].ready
      held == {b \in DOMAIN weak[v] : weak[v][b] \in LiveFlags(v)}
      known == DOMAIN old \union held
      fresh == Fresh(new \ known, Flags \ LiveFlags(v))
  IN [b \in new |-> IF b \in DOMAIN old THEN old[b].flag
                    ELSE IF b \in held THEN weak[v][b] ELSE fresh[b]]

\* Readiness while the selector is replaced: that of the old membership,
\* with that of the new one laid over it.
Transition(old, new) ==
  [b \in DOMAIN old \union DOMAIN new |-> IF b \in DOMAIN new THEN new[b] ELSE old[b]]

BuildReadiness(v) ==
  /\ upd[v].pc = "readiness"
  /\ LET flag == FlagsOf(v)
         over == upd[v].over
         ready == [b \in upd[v].new |-> [flag |-> flag[b], health |-> upd[v].map[Key[b]]]]
         held == {b \in DOMAIN weak[v] : weak[v][b] \in LiveFlags(v)}
     IN /\ weak' = [weak EXCEPT ![v] = [b \in held \union upd[v].new |->
                                          IF b \in upd[v].new THEN flag[b] ELSE @[b]]]
        /\ enabled' = [enabled EXCEPT ![v] = [f \in Flags |->
             LET of == {b \in upd[v].new : flag[b] = f} IN
               IF of \intersect DOMAIN over # {} THEN over[CHOOSE b \in of : TRUE]
               ELSE f \in LiveFlags(v) => @[f]]]
        /\ state' = [state EXCEPT ![v].ready = Transition(@, ready)]
        /\ upd' = [upd EXCEPT ![v].pc = IF v \in InGroup THEN "store" ELSE "callback",
                              ![v].ready = ready, ![v].map = Empty, ![v].over = Empty]
  /\ UNCHANGED <<registry, updates, health, selector, pending, req, svc>>

\* LoadBalancer::update: the callback builds and stores the selector.
Callback(v) ==
  /\ upd[v].pc = "callback"
  /\ selector' = [selector EXCEPT ![v].members = upd[v].new]
  /\ upd' = [upd EXCEPT ![v].pc = "store"]
  /\ UNCHANGED <<registry, state, updates, weak, enabled, health, pending, req, svc>>

\* The new membership and its readiness are published; a group schedules the
\* rebuild of its selectors from them.
StoreState(v) ==
  /\ upd[v].pc = "store"
  /\ LET new == [members |-> upd[v].new, ready |-> upd[v].ready] IN
       /\ state' = [state EXCEPT ![v] = new]
       /\ pending' = IF v \in InGroup THEN [pending EXCEPT ![v] = new] ELSE pending
  /\ upd' = [upd EXCEPT ![v] = Idle]
  /\ UNCHANGED <<registry, updates, weak, enabled, health, selector, req, svc>>

\* A selector of the group is rebuilt and published (SelectorRebuild).
PublishSelector(v) ==
  /\ pending[v] # None
  /\ selector' = [selector EXCEPT ![v] = pending[v]]
  /\ pending' = [pending EXCEPT ![v] = None]
  /\ UNCHANGED <<registry, state, upd, updates, weak, enabled, health, req, svc>>

\* set_enable(): by the current state, or by the weak handle.
SetEnable(v, b, on) ==
  /\ upd[v].pc # "dropped"
  /\ \E f \in LiveFlags(v) :
       /\ IF b \in DOMAIN state[v].ready THEN f = state[v].ready[b].flag
          ELSE b \in DOMAIN weak[v] /\ f = weak[v][b]
       /\ enabled' = [enabled EXCEPT ![v][f] = on]
  /\ UNCHANGED <<registry, state, upd, updates, weak, health, selector, pending, req, svc>>

\* Drop of the view: its removal is queued and the service woken.
DropView(v) ==
  /\ upd[v].pc = "idle" /\ \A r \in Requests : req[r].view # v
  /\ upd' = [upd EXCEPT ![v].pc = "dropped"]
  /\ registry' = [registry EXCEPT !.queue = @ \union {v}, !.removed = TRUE]
  /\ state' = [state EXCEPT ![v] = Nothing]
  /\ selector' = [selector EXCEPT ![v] = Nothing]
  /\ pending' = [pending EXCEPT ![v] = None]
  /\ weak' = [weak EXCEPT ![v] = Empty]
  /\ enabled' = [enabled EXCEPT ![v] = [f \in Flags |-> TRUE]]
  /\ UNCHANGED <<updates, health, req, svc>>
-----------------------------------------------------------------------------
(* select_with() of a load balancer or of a group                          *)

Select(r, v) ==
  /\ req[r] = NoRequest /\ upd[v].pc # "dropped" /\ selector[v].members # {}
  /\ req' = [req EXCEPT ![r] = [view |-> v, sel |-> selector[v], left |-> selector[v].members]]
  /\ UNCHANGED <<registry, state, upd, updates, weak, enabled, health, selector, pending, svc>>

Ready(r, b) ==
  LET v == req[r].view
      ready == IF v \in InGroup THEN req[r].sel.ready ELSE state[v].ready
  IN b \in DOMAIN ready /\ enabled[v][ready[b].flag] /\ health[ready[b].health].healthy

\* The next candidate is ready and returned, or passed over.
TryBackend(r, b) ==
  /\ b \in req[r].left
  /\ req' = [req EXCEPT ![r] = IF Ready(r, b) THEN NoRequest ELSE [@ EXCEPT !.left = @ \ {b}]]
  /\ UNCHANGED <<registry, state, upd, updates, weak, enabled, health, selector, pending, svc>>

SelectNone(r) ==
  /\ req[r] # NoRequest /\ req[r].left = {}
  /\ req' = [req EXCEPT ![r] = NoRequest]
  /\ UNCHANGED <<registry, state, upd, updates, weak, enabled, health, selector, pending, svc>>
-----------------------------------------------------------------------------
(* HealthCheckService::run                                                 *)

SvcGoto(pc) == svc' = [svc EXCEPT !.pc = pc]
\* target_count() and run_health_check() apply the queued removals first.
SvcApply(then) == svc' = [svc EXCEPT !.pc = "drain", !.then = then]
others == <<state, upd, updates, weak, enabled, selector, pending, req>>

\* One-shot mode waits for a target before its pass; periodic mode starts
\* with one.
SvcStart ==
  /\ svc.pc = "start"
  /\ SvcApply(IF svc.periodic THEN "pass" ELSE "count")
  /\ UNCHANGED <<registry, health, others>>

SvcDrain ==
  /\ svc.pc = "drain"
  /\ IF Undrained
       THEN DrainQueue /\ svc' = [svc EXCEPT !.pc = "remove", !.drained = registry.queue]
       ELSE SvcGoto(svc.then) /\ UNCHANGED registry
  /\ UNCHANGED <<health, others>>

SvcRemove ==
  /\ svc.pc = "remove"
  /\ RemoveViews(svc.drained)
  /\ svc' = [svc EXCEPT !.pc = svc.then, !.drained = {}]
  /\ UNCHANGED others

\* With targets: the single pass, or the wait for the next one.  Without:
\* wait_for_targets(), which registered before it counted.
SvcCount ==
  /\ svc.pc = "count"
  /\ CASE DOMAIN registry.health = {} -> SvcGoto("none")
       [] DOMAIN registry.health # {} /\ svc.periodic -> SvcGoto("sleep")
       [] DOMAIN registry.health # {} /\ ~svc.periodic -> SvcApply("pass")
  /\ UNCHANGED <<registry, health, others>>

SvcAwait ==
  /\ svc.pc = "none"
  /\ SvcGoto("await")
  /\ UNCHANGED <<registry, health, others>>

SvcTargets ==
  /\ svc.pc = "await" /\ registry.available
  /\ registry' = [registry EXCEPT !.available = FALSE]
  /\ SvcApply("count")
  /\ UNCHANGED <<health, others>>

SvcTimer ==
  /\ svc.pc = "sleep"
  /\ SvcApply("pass")
  /\ UNCHANGED <<registry, health, others>>

\* wait_for_view_removal(), in periodic mode only: count again.
SvcViewRemoved ==
  /\ svc.periodic /\ svc.pc \in {"await", "sleep"} /\ registry.removed
  /\ registry' = [registry EXCEPT !.removed = FALSE]
  /\ SvcApply("count")
  /\ UNCHANGED <<health, others>>

\* The pass is over the state of this moment.
SvcPass ==
  /\ svc.pc = "pass"
  /\ svc' = [svc EXCEPT !.pc = "probe", !.left = registry.health]
  /\ UNCHANGED <<registry, health, others>>

\* observe_health(): Threshold results in a row that differ flip the health.
Observed(h, ok) ==
  CASE h.healthy = ok -> [h EXCEPT !.counter = 0]
    [] h.healthy # ok /\ h.counter + 1 >= Threshold -> [healthy |-> ok, counter |-> 0]
    [] OTHER -> [h EXCEPT !.counter = @ + 1]

Probe(k, ok) ==
  /\ svc.pc = "probe" /\ k \in DOMAIN svc.left
  /\ health' = [health EXCEPT ![svc.left[k]] = Observed(@, ok)]
  /\ svc' = [svc EXCEPT !.left = Restrict(@, DOMAIN @ \ {k})]
  /\ UNCHANGED <<registry, others>>

PassEnds ==
  /\ svc.pc = "probe" /\ DOMAIN svc.left = {}
  /\ IF svc.periodic THEN SvcApply("count") ELSE SvcGoto("done")
  /\ UNCHANGED <<registry, health, others>>

\* Shutdown, which also drops a pass.
SvcShutdown ==
  /\ svc.pc \in {"await", "sleep", "probe"}
  /\ svc' = [svc EXCEPT !.pc = "done", !.left = Empty]
  /\ UNCHANGED <<registry, health, others>>

SvcStep ==
  \/ SvcStart \/ SvcDrain \/ SvcRemove \/ SvcCount \/ SvcAwait \/ SvcTargets \/ SvcTimer
  \/ SvcViewRemoved \/ SvcPass \/ PassEnds
  \/ \E k \in DOMAIN svc.left, ok \in BOOLEAN : Probe(k, ok)

UpdateStep(v) ==
  \/ Drain(v) \/ Remove(v) \/ UpdateView(v) \/ BuildReadiness(v) \/ Callback(v) \/ StoreState(v)

Overrides == {Empty} \union {[x \in {b} |-> FALSE] : b \in Backends}

\* Every view is gone; a one-shot service may wait for ever.
Finished ==
  /\ \A v \in Views : upd[v].pc = "dropped"
  /\ svc.pc \in {"done", "await"}
  /\ UNCHANGED vars

Next ==
  \/ \E v \in Views :
       \/ UpdateStep(v) \/ PublishSelector(v) \/ DropView(v)
       \/ \E members \in SUBSET Backends, over \in Overrides : Discover(v, members, over)
       \/ \E b \in Backends, on \in BOOLEAN : SetEnable(v, b, on)
  \/ \E r \in Requests :
       \/ SelectNone(r)
       \/ \E v \in Views : Select(r, v)
       \/ \E b \in Backends : TryBackend(r, b)
  \/ SvcStep \/ SvcShutdown \/ Finished

Spec == Init /\ [][Next]_vars
-----------------------------------------------------------------------------
Readiness == UNION {[S -> [flag : Flags, health : Handles]] : S \in SUBSET Backends}
Snapshot == [members : SUBSET Backends, ready : Readiness]

\* The shape of the registry, of the views' snapshots and of the shared health.
TypeOK ==
  /\ registry.views \in [Views -> SUBSET Backends] /\ registry.queue \subseteq Views
  /\ Range(registry.health) \subseteq Handles
  /\ state \in [Views -> Snapshot] /\ selector \in [Views -> Snapshot]
  /\ \A v \in Views : pending[v] # None => pending[v] \in Snapshot
  /\ enabled \in [Views -> [Flags -> BOOLEAN]]
  /\ health \in [Handles -> [healthy : BOOLEAN, counter : 0..(Threshold - 1)]]

\* However backends come and go, all snapshots of a view that still name a
\* backend share its flag, and set_enable() reaches that flag: disabling a
\* backend takes effect in selectors of every generation.
OneFlag ==
  \A v \in Views : \A s, t \in Snapshots(v) : \A b \in DOMAIN s \intersect DOMAIN t :
    s[b].flag = t[b].flag

\* Every backend a view has registered is a target, and the view reads the
\* health that the probes of the registry write, which all views share.
HealthShared ==
  \A v \in Views : \A b \in registry.views[v] :
    /\ Key[b] \in DOMAIN registry.health
    /\ b \in DOMAIN state[v].ready => state[v].ready[b].health = registry.health[Key[b]]

\* The selector that a load balancer publishes yields only backends that its
\* view knows, in the middle of an update too.
SelectorKnown ==
  \A v \in Views \ InGroup : selector[v].members \subseteq DOMAIN state[v].ready

\* What the update is meant to keep for a request that loaded the selector
\* earlier: it does not lose every candidate.
SelectionKnown ==
  \A r \in Requests : req[r] # NoRequest /\ req[r].view \notin InGroup
                        => req[r].sel.members \intersect DOMAIN state[req[r].view].ready # {}

\* What the comment on BackendReadiness says: health observations `remain
\* visible through it, including through a snapshot retained by an older
\* selector`.
ObservedEverywhere ==
  \A v \in Views : \A s \in Snapshots(v) : \A b \in DOMAIN s :
    Key[b] \in DOMAIN registry.health => s[b].health = registry.health[Key[b]]

\* A service that waits has a wakeup coming when there is something to do: a
\* target, or in periodic mode a removal to apply.
NoLostWakeup ==
  /\ svc.pc = "await" /\ DOMAIN registry.health # {} => registry.available
  /\ svc.pc \in {"await", "sleep"} /\ svc.periodic /\ registry.queue # {} => registry.removed
=============================================================================
