--------------------------- MODULE MC_Background ---------------------------
(***************************************************************************)
(* Small instances of the components whose work is done by tasks behind    *)
(* the calls: selectors rebuilt after discovery, and the actors of the     *)
(* asynchronous LRU.  They do not interact: `part' says which of them runs *)
(* in a behaviour, and the other stays in an initial state.                *)
(***************************************************************************)
EXTENDS SelectorRebuild, TLC

VARIABLES part,
          calls, at, queue, batch, state, todo, map, weight, len, trigger, evictor,
          dispatch, stopped, running

-----------------------------------------------------------------------------
(* A group of two selectors and two groups of one selector with one update *)
(* each, and one selector with updates.                                    *)
Together == [group |-> (1 :> "g" @@ 2 :> "g"), live |-> {"g"}, periodic |-> {}, limit |-> 1]
Apart == [group |-> (1 :> "g" @@ 2 :> "h"), live |-> {"g", "h"}, periodic |-> {}, limit |-> 1]
Updated == [group |-> (1 :> "g" @@ 2 :> "h"), live |-> {"g"}, periodic |-> {"g"}, limit |-> 2]

AllSetups == {Together, Apart, Updated}

(* Admissions over the limit on both shards, with the calls that race them. *)
CallOf(op, key, w) == [op |-> op, key |-> key, weight |-> w, max |-> 3]

Racing ==
    {<<CallOf("admit", 0, 4), c>> : c \in {CallOf("increment", 0, 1), CallOf("remove", 0, 0)}}
      \union
    {<<CallOf("admit", 0, 2), CallOf("admit", k, 2)>> : k \in {1, 2}}
      \union
    {<<CallOf("insert_tail", 0, 4), CallOf("trigger", 0, 0)>>,
     <<CallOf("access", 0, 4), CallOf("promote", 0, 0)>>}

Lru == INSTANCE AsyncLru
         WITH worker <- evictor, N <- 2, WeightLimit <- 3, Watermark <- 2, DRAIN_BATCH <- 2,
              MaxEvicts <- 1, MayShutDown <- TRUE, Calls <- Racing

lruVars == <<calls, at, queue, batch, state, todo, map, weight, len, trigger, evictor,
             dispatch, stopped, running>>

ASSUME Lru!ConstantsOK
-----------------------------------------------------------------------------
SumInit ==
    /\ part \in {"rebuild", "lru"}
    /\ Init /\ (part # "rebuild" => group = Apart.group /\ limit = Updated.limit)
    /\ Lru!Init /\ (part # "lru" => calls[1].op = "access")

SumNext ==
    \/ part = "rebuild" /\ Next /\ UNCHANGED <<part, lruVars>>
    \/ part = "lru" /\ Lru!Next /\ UNCHANGED <<part, vars>>

\* The fairness of each component: see their modules.
SumFairness ==
    /\ \A g \in Groups :
         WF_vars(part = "rebuild" /\ (RunStep(g) \/ \E failed \in BOOLEAN : UpdateUnchanged(g, failed)))
    /\ \A s \in Slots :
         /\ WF_vars(part = "rebuild" /\ WorkerStep(s))
         /\ SF_vars(part = "rebuild" /\ Acquire(s))
         /\ SF_vars(part = "rebuild" /\ BuildReturns(s))
         /\ WF_vars(part = "rebuild" /\ (BuildReturns(s) \/ BuildPanics(s)))
    /\ \A o \in Selectors :
         WF_vars(part = "rebuild" /\ DropTask(o)) /\ WF_vars(part = "rebuild" /\ OrphanEnds(o))
    /\ \A r \in Requests : WF_vars(part = "rebuild" /\ SelectReturns(r))
    /\ WF_lruVars(part = "lru" /\ Lru!WorkerWakes) /\ WF_lruVars(part = "lru" /\ Lru!WorkerDone)
    /\ WF_lruVars(part = "lru" /\ Lru!CallbackWorker)
    /\ \A s \in {0, 1} :
         /\ WF_lruVars(part = "lru" /\ (Lru!RecvMany(s) \/ Lru!ProcessMsg(s) \/ Lru!UpdateTotals(s)))
         /\ SF_lruVars(part = "lru" /\ Lru!WorkerEvicts(s))

SumSpec == SumInit /\ [][SumNext]_<<part, vars, lruVars>> /\ SumFairness
-----------------------------------------------------------------------------
(* The components' properties: see their modules.                          *)
ViewsExact == Lru!ViewsExact

\* The tasks catch up: every selector is of the latest membership in the end and
\* the group ready, and the LRU is within its limits.
TasksCatchUp ==
    /\ part = "rebuild" => Converges
    /\ part = "lru" => Lru!SettlesWithinLimit
=============================================================================
