----------------------------- MODULE MC_Control -----------------------------
(***************************************************************************)
(* Small instances of the components that change what a running server     *)
(* serves: the shard files a restart finds, the backends of its load       *)
(* balancers and the upgrade of its process.  They do not interact: `part' *)
(* says which of them runs in a behaviour, and the others stay in their    *)
(* initial states.                                                         *)
(***************************************************************************)
EXTENDS ShardFiles, TLC

CONSTANTS None, Old, New, Clients

VARIABLES part,
          registry, view, update, updates, weak, enabled, health, selector, pending, req, service,
          setup, main, shutdown, table, expected, open, listener, path, inbox, conn, crashes

-----------------------------------------------------------------------------
(* The view of a group and that of a load balancer, over one backend.      *)

Often == [limit |-> ("v" :> 3 @@ "w" :> 0), periodic |-> FALSE]
Both == [limit |-> ("v" :> 1 @@ "w" :> 2), periodic |-> TRUE]

View == INSTANCE BackendView
          WITH state <- view, upd <- update, svc <- service,
               Views <- {"v", "w"}, InGroup <- {"v"}, Backends <- {"a"}, Key <- ("a" :> 1),
               Flags <- {1, 2}, Handles <- 1..4, Requests <- {1}, Threshold <- 1,
               Setups <- {Often, Both}

viewVars == <<registry, view, update, updates, weak, enabled, health, selector, pending, req, service>>
-----------------------------------------------------------------------------
(* Upgrades of a server with one or two addresses.                         *)

Claims(old, new) == Old :> old @@ New :> new

\* The new version drops an address, adds one, or keeps what the old one had.  Two
\* addresses fit the buffers of the transfer, or their names or descriptors do not.
Upgrades ==
    {u \in [mode : {"before", "service"}, signals : {{"quit", "term", "int"}}, up : {FALSE},
            names : {1, 2}, fds : {1, 2},
            claims : {Claims({"a"}, {"a"}), Claims({"a", "b"}, {"a"}), Claims({"a"}, {"a", "b"}),
                      Claims({}, {"a"})}] :
        u.names + u.fds >= (IF u.claims[Old] = {"a", "b"} THEN 3 ELSE 4)}

Upgrade == INSTANCE ServerUpgrade
             WITH svc <- listener, Addresses <- {"a", "b"}, Setups <- Upgrades,
                  MAX_RETRY <- 1, TCP_LISTENER_MAX_TRY <- 2, MaxCrashes <- 1

upgradeVars == <<setup, main, shutdown, table, expected, open, listener, path, inbox, conn, crashes>>

ASSUME View!ConstantsOK /\ Upgrade!ConstantsOK
-----------------------------------------------------------------------------
SumInit ==
    /\ part \in {"files", "view", "upgrade"}
    /\ Init
    /\ View!Init /\ (part # "view" => service.periodic)
    /\ Upgrade!Init
    /\ part # "upgrade" => /\ setup.mode = "before" /\ setup.names = 2 /\ setup.fds = 2
                           /\ setup.claims = Claims({"a"}, {"a"})

SumNext ==
    \/ part = "files" /\ Next /\ UNCHANGED <<part, viewVars, upgradeVars>>
    \/ part = "view" /\ View!Next /\ UNCHANGED <<part, vars, upgradeVars>>
    \/ part = "upgrade" /\ Upgrade!Next /\ UNCHANGED <<part, vars, viewVars>>

\* The fairness of ServerUpgrade: see FairSpec there.
Fairness ==
    \A p \in {Old, New} :
       /\ WF_upgradeVars(part = "upgrade" /\ Upgrade!MainStep(p))
       /\ \A a \in {"a", "b"} :
             /\ WF_upgradeVars(part = "upgrade" /\ Upgrade!ServiceStep(p, a))
             /\ \A c \in Clients : WF_upgradeVars(part = "upgrade" /\ Upgrade!AcceptClient(p, a, c))

SumSpec == SumInit /\ [][SumNext]_<<part, vars, viewVars, upgradeVars>> /\ Fairness
-----------------------------------------------------------------------------
(* The components' properties: see their modules.                          *)

\* A view's snapshots agree: on the flag and the health of a backend, between the
\* selector and the view, and its health service is woken when there is work.
ViewsAgree == View!OneFlag /\ View!HealthShared /\ View!SelectorKnown /\ View!NoLostWakeup

\* An upgrade keeps the listening sockets: they are in the table of the process that
\* uses them, one that was handed over refuses nobody, and what is queued on one
\* does not stay there.
SocketsKept ==
    /\ []Upgrade!TableKnowsListeners
    /\ Upgrade!TransferredStaysOpen
    /\ part = "upgrade" => Upgrade!QueuedLeaves
=============================================================================
