----------------------------- MODULE SingleFlight -----------------------------
(***************************************************************************)
(* What the cache lock of pingora-cache promises its callers, without the  *)
(* lock table and the semaphore that provide it.                           *)
(*                                                                         *)
(* Requests for one key are elected as writers or join a writer and wait.  *)
(* As long as no lock has outlived its age_timeout there is one writer at  *)
(* a time, a reader is woken only by what became of the writer it joined,  *)
(* and the only thing that can take back an outcome is such an age         *)
(* timeout.  CacheLock implements this specification; ProxyCache is built  *)
(* on it.                                                                  *)
(***************************************************************************)

CONSTANTS Requests, NoLock

VARIABLES role,          \* "out", "reader", "writer", "leaving" or "done"
          on,            \* the lock a reader has joined, named by its writer
          outcome,       \* how a lock ended: "Waiting" until it has
          aged           \* some lock has outlived its age_timeout

vars == <<role, on, outcome, aged>>

Outcome == {"Done", "TransientError", "GiveUp", "Dangling", "AgeTimeout"}

Init ==
  /\ role = [r \in Requests |-> "out"]
  /\ on = [r \in Requests |-> NoLock]
  /\ outcome = [r \in Requests |-> "Waiting"]
  /\ aged = FALSE

Become(r, l) == role' = [role EXCEPT ![r] = l]

\* lock() hands out a write permit.
Elect(r) ==
  /\ role[r] = "out"
  /\ aged \/ \A q \in Requests : role[q] # "writer"
  /\ Become(r, "writer")
  /\ UNCHANGED <<on, outcome, aged>>

\* lock() hands out a read lock of c.
Join(r, c) ==
  /\ role[r] = "out"
  /\ role[c] \in {"writer", "leaving"} /\ outcome[c] = "Waiting"
  /\ Become(r, "reader")
  /\ on' = [on EXCEPT ![r] = c]
  /\ UNCHANGED <<outcome, aged>>

\* release(), or the drop of a permit: the next writer may be elected ...
Yield(c) ==
  /\ role[c] = "writer"
  /\ Become(c, "leaving")
  /\ UNCHANGED <<on, outcome, aged>>

\* ... the readers are told how the lock ended ...
Settle(c, s) ==
  /\ role[c] = "leaving"
  /\ outcome[c] = "Waiting" \/ aged
  /\ outcome' = [outcome EXCEPT ![c] = s]
  /\ UNCHANGED <<role, on, aged>>

\* ... and woken.
Retire(c) ==
  /\ role[c] = "leaving" /\ outcome[c] # "Waiting"
  /\ Become(c, "done")
  /\ UNCHANGED <<on, outcome, aged>>

\* The three at once, for a caller that cannot look in between.
Finish(c, s) ==
  /\ role[c] = "writer"
  /\ Become(c, "done")
  /\ outcome' = [outcome EXCEPT ![c] = IF @ = "Waiting" THEN s ELSE @]
  /\ UNCHANGED <<on, aged>>

\* Time passes.
Age ==
  /\ aged' = TRUE
  /\ UNCHANGED <<role, on, outcome>>

\* A reader ends the wait on a lock that is too old, for itself and the others.
TimeOut(r) ==
  /\ role[r] = "reader" /\ aged
  /\ outcome' = [outcome EXCEPT ![on[r]] = "AgeTimeout"]
  /\ UNCHANGED <<role, on, aged>>

\* A reader acts on how the lock ended: it competes again or it leaves.
Wake(r) ==
  /\ role[r] = "reader" /\ outcome[on[r]] # "Waiting"
  /\ \/ Become(r, "done")
     \/ outcome[on[r]] # "GiveUp" /\ Become(r, "out")
  /\ on' = [on EXCEPT ![r] = NoLock]
  /\ UNCHANGED <<outcome, aged>>

\* A reader leaves on its own: its wait timeout, or a fill it cannot use.
Leave(r) ==
  /\ role[r] = "reader"
  /\ Become(r, "done")
  /\ on' = [on EXCEPT ![r] = NoLock]
  /\ UNCHANGED <<outcome, aged>>

Next ==
  \/ \E r \in Requests :
       \/ Elect(r) \/ Yield(r) \/ Retire(r) \/ TimeOut(r) \/ Wake(r) \/ Leave(r)
       \/ \E c \in Requests : Join(r, c)
       \/ \E s \in Outcome : Settle(r, s) \/ Finish(r, s)
  \/ Age

Spec == Init /\ [][Next]_vars
===============================================================================
