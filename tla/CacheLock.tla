------------------------------ MODULE CacheLock ------------------------------
(***************************************************************************)
(* The cache lock of pingora-cache/src/lock.rs: concurrent requests for    *)
(* one cache key elect a writer, and the others wait for it as readers.    *)
(*                                                                         *)
(* The lock table maps each key to at most one lock and no operation       *)
(* touches two keys, so the model is the table slot of one key.  A request *)
(* obtains the write permit at most once (it then goes upstream and leaves *)
(* the lookup loop of proxy_cache), so a LockCore is named by the request  *)
(* that created it.  Who runs the writer's code after a permit was moved   *)
(* to a background subrequest makes no difference to the lock.             *)
(***************************************************************************)

CONSTANTS Requests,      \* the requests for this key, and the locks they create
          NoLock         \* an empty table slot, a free table guard

ASSUME NoLockAssumption == NoLock \notin Requests

VARIABLES entry,         \* the table slot: the lock stored under the key
          tableGuard,    \* the holder of the table's write guard across steps
          status,        \* LockCore.lock_status
          open,          \* LockCore.lock has been given its permits
          expired,       \* lock_start.elapsed() has reached age_timeout
          pc,            \* where each request is
          holds,         \* the lock a reader waits on
          reason         \* what a writer is about to store as the status

vars == <<entry, tableGuard, status, open, expired, pc, holds, reason>>

\* WaitTimeout is one of the enum that no LockCore ever stores, as unlock()'s
\* debug_assert says; TypeOK checks it.
LockStatus == {"Waiting", "Done", "TransientError", "GiveUp", "Dangling",
               "AgeTimeout"}

\* What HttpCache passes to release(): the outcome of the fill.
ReleaseReason == {"Done", "TransientError", "GiveUp"}

\* lock() hands out a new permit over an entry in one of these.
Replaceable == {"Dangling", "AgeTimeout"}

PC == {"idle", "lockw", "reader", "waiting", "aging", "result",
       "writer", "remove", "store", "wake", "done"}

Goto(r, l) == pc' = [pc EXCEPT ![r] = l]

Init ==
  /\ entry = NoLock
  /\ tableGuard = NoLock
  /\ status = [c \in Requests |-> "Waiting"]
  /\ open = [c \in Requests |-> FALSE]
  /\ expired = [c \in Requests |-> FALSE]
  /\ pc = [r \in Requests |-> "idle"]
  /\ holds = [r \in Requests |-> NoLock]
  /\ reason = [r \in Requests |-> "Waiting"]

\* The entry is one that new requests queue behind.
Taken == entry # NoLock /\ status[entry] \notin Replaceable

Join(r) ==
  /\ holds' = [holds EXCEPT ![r] = entry]
  /\ Goto(r, "reader")
  /\ UNCHANGED <<entry, tableGuard, status, open, expired, reason>>

\* lock(), first look, under the table's read guard.
LockRead(r) ==
  /\ pc[r] = "idle"
  /\ tableGuard = NoLock
  /\ \/ Taken /\ Join(r)
     \/ /\ ~Taken
        /\ Goto(r, "lockw")
        /\ UNCHANGED <<entry, tableGuard, status, open, expired, holds, reason>>

\* Mutant: no second look under the write guard.
LockWrite_NoRecheck(r) ==
  /\ pc[r] = "lockw"
  /\ tableGuard = NoLock
  /\ entry' = r
  /\ Goto(r, "writer")
  /\ UNCHANGED <<tableGuard, status, open, expired, holds, reason>>

\* lock(), second look, under the write guard: join the lock that appeared
\* meanwhile, or put a new one in the slot.
LockWrite(r) ==
  /\ pc[r] = "lockw"
  /\ tableGuard = NoLock
  /\ \/ Taken /\ Join(r)
     \/ /\ ~Taken
        /\ entry' = r
        /\ Goto(r, "writer")
        /\ UNCHANGED <<tableGuard, status, open, expired, holds, reason>>

\* The age of a lock reaches its age_timeout, while anybody still refers to it.
Expire(c) ==
  /\ \/ pc[c] \in {"writer", "remove", "store", "wake"}
     \/ \E r \in Requests : holds[r] = c
  /\ ~expired[c]
  /\ expired' = [expired EXCEPT ![c] = TRUE]
  /\ UNCHANGED <<entry, tableGuard, status, open, pc, holds, reason>>

\* available_permits() of an open semaphore is 0 while its permits are on their
\* way to queued readers.
SeesLocked(r, c) ==
  ~open[c] \/ \E q \in Requests \ {r} : pc[q] = "waiting" /\ holds[q] = c

\* wait_inner() up to its first await.
WaitStart(r) ==
  /\ pc[r] = "reader"
  /\ LET c == holds[r] IN
       \/ open[c] /\ Goto(r, "result")
       \/ SeesLocked(r, c) /\ expired[c] /\ Goto(r, "aging")
       \/ SeesLocked(r, c) /\ ~expired[c] /\ Goto(r, "waiting")
  /\ UNCHANGED <<entry, tableGuard, status, open, expired, holds, reason>>

\* writer_done(): the semaphore was acquired, and its permit is handed back.
Acquire(r) ==
  /\ pc[r] = "waiting"
  /\ open[holds[r]]
  /\ Goto(r, "result")
  /\ UNCHANGED <<entry, tableGuard, status, open, expired, holds, reason>>

\* writer_done(): the acquire is pending and the timer has fired.
AgeFire(r) ==
  /\ pc[r] = "waiting"
  /\ SeesLocked(r, holds[r])
  /\ expired[holds[r]]
  /\ Goto(r, "aging")
  /\ UNCHANGED <<entry, tableGuard, status, open, expired, holds, reason>>

\* Mutant: the reader gives up without aging the lock.
StoreAge_NoStore(r) ==
  /\ pc[r] = "aging"
  /\ Goto(r, "result")
  /\ UNCHANGED <<entry, tableGuard, status, open, expired, holds, reason>>

\* The reader stores AgeTimeout, whatever the writer stored in the meantime.
StoreAge(r) ==
  /\ pc[r] = "aging"
  /\ status' = [status EXCEPT ![holds[r]] = "AgeTimeout"]
  /\ Goto(r, "result")
  /\ UNCHANGED <<entry, tableGuard, open, expired, holds, reason>>

\* The wait ends without a word from the writer: cache_lock_wait()'s own
\* timeout, or a published fill this reader cannot use.  Caching is disabled.
StopWaiting(r) ==
  /\ pc[r] = "waiting"
  /\ Goto(r, "done")
  /\ holds' = [holds EXCEPT ![r] = NoLock]
  /\ UNCHANGED <<entry, tableGuard, status, open, expired, reason>>

\* wait_result() and handle_lock_wait_outcome(): GiveUp goes upstream uncached;
\* after every other status the request competes for the lock again, unless its
\* lookup hits after Done or its retries are used up.
ReadOutcome(r) ==
  /\ pc[r] = "result"
  /\ \/ Goto(r, "done")
     \/ status[holds[r]] # "GiveUp" /\ Goto(r, "idle")
  /\ holds' = [holds EXCEPT ![r] = NoLock]
  /\ UNCHANGED <<entry, tableGuard, status, open, expired, reason>>

\* release(), up to its first table access.
Release(r, s) ==
  /\ pc[r] = "writer"
  /\ \/ /\ status[r] = "AgeTimeout"
        /\ reason' = [reason EXCEPT ![r] = "AgeTimeout"]
        /\ Goto(r, "store")
     \/ /\ status[r] # "AgeTimeout"
        /\ reason' = [reason EXCEPT ![r] = s]
        /\ Goto(r, "remove")
  /\ UNCHANGED <<entry, tableGuard, status, open, expired, holds>>

\* release(), removing whatever the slot holds.  The write guard is a temporary
\* of the `if let` and lives until unlock() has returned.  With an empty slot
\* the permit is dropped unfinished.
Remove(r) ==
  /\ pc[r] = "remove"
  /\ tableGuard = NoLock
  /\ Goto(r, "store")
  /\ \/ /\ entry # NoLock
        /\ entry' = NoLock
        /\ tableGuard' = r
        /\ UNCHANGED reason
     \/ /\ entry = NoLock
        /\ reason' = [reason EXCEPT ![r] = "Dangling"]
        /\ UNCHANGED <<entry, tableGuard>>
  /\ UNCHANGED <<status, open, expired, holds>>

\* WritePermit::drop() of an unfinished permit: the request ended early.
DropPermit(r) ==
  /\ pc[r] = "writer"
  /\ reason' = [reason EXCEPT ![r] = "Dangling"]
  /\ Goto(r, "store")
  /\ UNCHANGED <<entry, tableGuard, status, open, expired, holds>>

\* Mutant: the permits are added before the status is stored.
StoreStatus_WakeFirst(r) ==
  /\ pc[r] = "store"
  /\ open' = [open EXCEPT ![r] = TRUE]
  /\ Goto(r, "wake")
  /\ UNCHANGED <<entry, tableGuard, status, expired, holds, reason>>

\* unlock() stores the status first ...
StoreStatus(r) ==
  /\ pc[r] = "store"
  /\ status' = [status EXCEPT ![r] = reason[r]]
  /\ Goto(r, "wake")
  /\ UNCHANGED <<entry, tableGuard, open, expired, holds, reason>>

\* ... and then adds the permits that wake the readers.
Wake(r) ==
  /\ pc[r] = "wake"
  /\ open' = [open EXCEPT ![r] = TRUE]
  /\ tableGuard' = IF tableGuard = r THEN NoLock ELSE tableGuard
  /\ Goto(r, "done")
  /\ UNCHANGED <<entry, status, expired, holds, reason>>

ReaderStep(r) ==
  \/ LockRead(r) \/ LockWrite(r) \/ WaitStart(r) \/ Acquire(r)
  \/ AgeFire(r) \/ StoreAge(r) \/ ReadOutcome(r)

WriterStep(r) == Remove(r) \/ StoreStatus(r) \/ Wake(r)

Next ==
  \E r \in Requests :
    \/ ReaderStep(r)
    \/ WriterStep(r)
    \/ StopWaiting(r)
    \/ Expire(r)
    \/ DropPermit(r)
    \/ \E s \in ReleaseReason : Release(r, s)

Spec == Init /\ [][Next]_vars

\* The executor runs every task that can run, time passes, and a release once
\* begun is straight-line code.  Nothing makes a writer's fetch end.
Fairness ==
  \A r \in Requests :
    WF_vars(ReaderStep(r)) /\ WF_vars(WriterStep(r)) /\ WF_vars(Expire(r))

FairSpec == Spec /\ Fairness

------------------------------------------------------------------------------
TypeOK ==
  /\ entry \in Requests \cup {NoLock}
  /\ tableGuard \in Requests \cup {NoLock}
  /\ status \in [Requests -> LockStatus]
  /\ open \in [Requests -> BOOLEAN]
  /\ expired \in [Requests -> BOOLEAN]
  /\ pc \in [Requests -> PC]
  /\ holds \in [Requests -> Requests \cup {NoLock}]
  /\ reason \in [Requests -> LockStatus]

\* r holds an unreleased permit, or is still inside the release that emptied
\* the slot.
Filling(r) == pc[r] \in {"writer", "remove"} \/ tableGuard = r

\* Two requests fill the same key at once only after some writer kept its lock
\* beyond age_timeout: lock() under its two guards, release() and dropped
\* permits never elect a second writer by themselves.
OneWriterUnlessAged ==
  \A r, q \in Requests :
    Filling(r) /\ Filling(q) /\ r # q => \E c \in Requests : expired[c]

\* A reader whose wait was ended by the lock finds a status to act on: the
\* debug_assert of released_result(), "a released lock cannot still be Waiting".
ReleasedNotWaiting ==
  \A r \in Requests : pc[r] = "result" => status[holds[r]] # "Waiting"

\* A lock that new requests would queue behind still has a writer that is going
\* to unlock it, so the table never keeps a lock that nobody will open.
TakenHasWriter ==
  Taken => pc[entry] \in {"writer", "remove", "store", "wake"}

\* At most one writer until a lock is too old, and never a lock without one.
WriterKnown == OneWriterUnlessAged /\ TakenHasWriter

\* Every request that looks up the key becomes its writer or leaves, even when
\* earlier writers never finish: readers age a stuck lock out and replace it.
EveryRequestProgresses ==
  \A r \in Requests : pc[r] = "idle" ~> pc[r] \in {"writer", "done"}

\* A request at l as SingleFlight sees it.
RoleAt(l) ==
  IF l \in {"idle", "lockw"} THEN "out"
  ELSE IF l \in {"reader", "waiting", "aging", "result"} THEN "reader"
  ELSE IF l \in {"writer", "remove"} THEN "writer"
  ELSE IF l \in {"store", "wake"} THEN "leaving"
  ELSE l

Roles == [r \in Requests |-> RoleAt(pc[r])]

Aged == \E c \in Requests : expired[c]

Promise == INSTANCE SingleFlight WITH
  role <- Roles, on <- holds, outcome <- status, aged <- Aged

\* The table, its two guards, the two-step unlock and the age timeouts implement
\* SingleFlight: one writer at a time until a lock is too old, and no reader
\* woken but by what became of its writer.
ImplementsSingleFlight == Promise!Spec

\* The comment that ends release(): "these situations above should capture all
\* possible options, else dangling cache lock may start".  A release never ends
\* with the permit dropped unfinished.
ReleaseUnlocks ==
  [][\A r \in Requests :
       pc[r] = "remove" /\ pc'[r] = "store" => reason'[r] # "Dangling"]_vars
==============================================================================
