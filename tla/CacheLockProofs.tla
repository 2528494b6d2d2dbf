--------------------------- MODULE CacheLockProofs ---------------------------
(***************************************************************************)
(* Proofs about CacheLock, for any set of requests.                        *)
(***************************************************************************)
EXTENDS CacheLock, TLAPS

\* A request that has not created its lock.
Before == {"idle", "lockw", "reader", "waiting", "aging", "result"}

\* A request whose lock exists, or which has left without one.
After == {"writer", "remove", "store", "wake", "done"}

\* The lock of a request does not exist before that request becomes a writer.
NotYetCreated ==
  \A r \in Requests :
    pc[r] \in Before => status[r] = "Waiting" /\ ~open[r] /\ ~expired[r]

\* Readers refer to locks that were created.
HoldsCreated ==
  \A r \in Requests :
    /\ pc[r] \in {"reader", "waiting", "aging", "result"} => holds[r] \in Requests
    /\ holds[r] \in Requests => pc[holds[r]] \in After

\* AgeTimeout is only ever written to a lock whose age has passed.
AgedExpired ==
  \A r \in Requests :
    /\ status[r] = "AgeTimeout" => expired[r]
    /\ reason[r] = "AgeTimeout" => expired[r]
    /\ pc[r] = "aging" => expired[holds[r]]

\* Until its writer unlocks it, a lock is Waiting or has been aged out.
WriterStatus ==
  \A r \in Requests :
    /\ pc[r] \in {"writer", "remove", "store"} =>
         status[r] \in {"Waiting", "AgeTimeout"}
    /\ pc[r] \in {"remove", "store", "wake"} => reason[r] # "Waiting"

\* Readers are let through only after the status was stored.
OpenStatus ==
  \A r \in Requests : open[r] \/ pc[r] = "wake" => status[r] # "Waiting"

\* A lock left in the table by its writer is one that lock() replaces.
EntryCreated ==
  entry \in Requests =>
    /\ pc[entry] \in After
    /\ pc[entry] \in {"store", "wake"} => reason[entry] \in Replaceable
    /\ pc[entry] \in {"wake", "done"} => status[entry] \in Replaceable

\* The table guard outlives a step only in a release that emptied the slot.
GuardHeld ==
  tableGuard \in Requests =>
    entry = NoLock /\ pc[tableGuard] \in {"store", "wake"}

\* As long as no lock has aged, an unreleased permit is the one in the table.
PermitInTable ==
  (\A c \in Requests : ~expired[c]) =>
    \A r \in Requests : pc[r] \in {"writer", "remove"} => entry = r

IInv ==
  /\ TypeOK
  /\ NotYetCreated
  /\ HoldsCreated
  /\ AgedExpired
  /\ WriterStatus
  /\ OpenStatus
  /\ ReleasedNotWaiting
  /\ EntryCreated
  /\ GuardHeld
  /\ PermitInTable

LEMMA InitIInv == Init => IInv
  BY NoLockAssumption DEF Init, IInv, TypeOK, NotYetCreated, HoldsCreated,
     AgedExpired, WriterStatus, OpenStatus, ReleasedNotWaiting, EntryCreated,
     GuardHeld, PermitInTable, LockStatus, PC, Before, After

LEMMA NextIInv == IInv /\ [Next]_vars => IInv'
<1> SUFFICES ASSUME IInv, [Next]_vars PROVE IInv'
  OBVIOUS
<1> USE NoLockAssumption DEF IInv, TypeOK, NotYetCreated, HoldsCreated,
     AgedExpired, WriterStatus, OpenStatus, ReleasedNotWaiting, EntryCreated,
     GuardHeld, PermitInTable, LockStatus, PC, Before, After, Goto, Replaceable
<1>1. ASSUME NEW r \in Requests, LockRead(r) PROVE IInv'
  BY <1>1 DEF LockRead, Taken, Join
<1>2. ASSUME NEW r \in Requests, LockWrite(r) PROVE IInv'
  BY <1>2 DEF LockWrite, Taken, Join
<1>3. ASSUME NEW r \in Requests, WaitStart(r) PROVE IInv'
  BY <1>3 DEF WaitStart
<1>4. ASSUME NEW r \in Requests, Acquire(r) PROVE IInv'
  BY <1>4 DEF Acquire
<1>5. ASSUME NEW r \in Requests, AgeFire(r) PROVE IInv'
  BY <1>5 DEF AgeFire
<1>6. ASSUME NEW r \in Requests, StoreAge(r) PROVE IInv'
  BY <1>6 DEF StoreAge
<1>7. ASSUME NEW r \in Requests, ReadOutcome(r) PROVE IInv'
  BY <1>7 DEF ReadOutcome
<1>8. ASSUME NEW r \in Requests, Remove(r) PROVE IInv'
  BY <1>8 DEF Remove
<1>9. ASSUME NEW r \in Requests, StoreStatus(r) PROVE IInv'
  BY <1>9 DEF StoreStatus
<1>10. ASSUME NEW r \in Requests, Wake(r) PROVE IInv'
  BY <1>10 DEF Wake
<1>11. ASSUME NEW r \in Requests, StopWaiting(r) PROVE IInv'
  BY <1>11 DEF StopWaiting
<1>12. ASSUME NEW r \in Requests, Expire(r) PROVE IInv'
  BY <1>12 DEF Expire
<1>13. ASSUME NEW r \in Requests, DropPermit(r) PROVE IInv'
  BY <1>13 DEF DropPermit
<1>14. ASSUME NEW r \in Requests, NEW s \in ReleaseReason, Release(r, s)
       PROVE IInv'
  BY <1>14 DEF Release, ReleaseReason
<1>15. CASE UNCHANGED vars
  BY <1>15 DEF vars
<1> QED
  BY <1>1, <1>2, <1>3, <1>4, <1>5, <1>6, <1>7, <1>8, <1>9, <1>10, <1>11,
     <1>12, <1>13, <1>14, <1>15 DEF Next, ReaderStep, WriterStep

LEMMA InvariantHolds == Spec => []IInv
<1>1. Init => IInv
  BY InitIInv
<1>2. IInv /\ [Next]_vars => IInv'
  BY NextIInv
<1> QED
  BY <1>1, <1>2, PTL DEF Spec

\* Every reachable state of the lock table, its locks and the requests using
\* them is well typed.
THEOREM TypeCorrect == Spec => []TypeOK
<1>1. IInv => TypeOK
  BY DEF IInv
<1> QED
  BY <1>1, InvariantHolds, PTL

\* For any set of requests, lock() and release() elect a second writer for a key
\* only after some lock outlived its age_timeout.
THEOREM MutualExclusion == Spec => []OneWriterUnlessAged
<1>1. IInv => OneWriterUnlessAged
  <2> SUFFICES ASSUME IInv, NEW r \in Requests, NEW q \in Requests,
                      Filling(r), Filling(q), r # q,
                      \A c \in Requests : ~expired[c]
               PROVE  FALSE
    BY DEF OneWriterUnlessAged
  <2>1. CASE pc[r] \in {"writer", "remove"} /\ pc[q] \in {"writer", "remove"}
    BY <2>1 DEF IInv, PermitInTable
  <2>2. CASE tableGuard \in {r, q}
    BY <2>2, NoLockAssumption DEF IInv, PermitInTable, GuardHeld, Filling
  <2> QED
    BY <2>1, <2>2 DEF Filling
<1> QED
  BY <1>1, InvariantHolds, PTL

\* unlock() stores the status before it adds the permits, so the debug_assert of
\* released_result() cannot fail, whatever readers and writers do in between.
THEOREM ReleasedHasStatus == Spec => []ReleasedNotWaiting
<1>1. IInv => ReleasedNotWaiting
  BY DEF IInv
<1> QED
  BY <1>1, InvariantHolds, PTL

\* No request queues behind a lock that nobody is going to open.
THEOREM NoOrphanLock == Spec => []TakenHasWriter
<1>1. IInv => TakenHasWriter
  BY DEF IInv, TypeOK, EntryCreated, TakenHasWriter, Taken, After
<1> QED
  BY <1>1, InvariantHolds, PTL

\* The two together: whoever lock() makes wait, waits for one known writer.
THEOREM WriterAlwaysKnown == Spec => []WriterKnown
<1>1. OneWriterUnlessAged /\ TakenHasWriter => WriterKnown
  BY DEF WriterKnown
<1> QED
  BY <1>1, MutualExclusion, NoOrphanLock, PTL

\* What SingleFlight sees of a step that moves one request.
LEMMA RoleStep ==
  ASSUME pc \in [Requests -> PC], NEW r \in Requests, NEW l \in PC, Goto(r, l)
  PROVE  Roles' = [Roles EXCEPT ![r] = RoleAt(l)]
  BY DEF Goto, Roles

LEMMA RoleOf ==
  ASSUME NEW l \in PC
  PROVE  /\ RoleAt(l) = "out" <=> l \in {"idle", "lockw"}
         /\ RoleAt(l) = "reader" <=> l \in {"reader", "waiting", "aging", "result"}
         /\ RoleAt(l) = "writer" <=> l \in {"writer", "remove"}
         /\ RoleAt(l) = "leaving" <=> l \in {"store", "wake"}
         /\ RoleAt(l) = "done" <=> l = "done"
  BY DEF RoleAt, PC

\* The lock table implements SingleFlight for any set of requests: each step of
\* lock(), of a wait and of an unlock is a step of the abstract lock, or none.
THEOREM Refinement == Spec => ImplementsSingleFlight
<1>1. Init => Promise!Init
  <2> SUFFICES ASSUME Init PROVE Promise!Init
    OBVIOUS
  <2>1. Roles = [r \in Requests |-> "out"]
    BY RoleOf DEF Init, Roles, PC
  <2>2. Aged = FALSE
    BY DEF Init, Aged
  <2> QED
    BY <2>1, <2>2 DEF Init, Promise!Init
<1>2. IInv /\ [Next]_vars => [Promise!Next]_(Promise!vars)
  <2> SUFFICES ASSUME IInv, [Next]_vars
               PROVE  Promise!Next \/ UNCHANGED Promise!vars
    OBVIOUS
  <2>a. pc \in [Requests -> PC] /\ Roles = [r \in Requests |-> RoleAt(pc[r])]
    BY DEF IInv, TypeOK, Roles
  <2>b. expired' = expired => Aged' = Aged
    BY DEF Aged
  <2>c. pc' = pc => Roles' = Roles
    BY DEF Roles
  <2>d. \A r \in Requests, l \in PC :
          Goto(r, l) => Roles' = [Roles EXCEPT ![r] = RoleAt(l)]
    BY <2>a, RoleStep
  <2>e. ASSUME Taken
        PROVE  /\ entry \in Requests /\ status[entry] = "Waiting"
               /\ Roles[entry] \in {"writer", "leaving"}
    <3>1. entry \in Requests
      BY <2>e DEF Taken, IInv, TypeOK
    <3>2. pc[entry] \in {"writer", "remove", "store"}
      BY <2>e, <3>1 DEF Taken, IInv, EntryCreated, After
    <3>3. status[entry] = "Waiting"
      BY <2>e, <3>1, <3>2 DEF Taken, IInv, TypeOK, EntryCreated, WriterStatus,
         Replaceable, LockStatus
    <3> QED
      BY <3>1, <3>2, <3>3, <2>a, RoleOf
  <2>1. ASSUME NEW r \in Requests, LockRead(r)
        PROVE  Promise!Next \/ UNCHANGED Promise!vars
    <3>1. CASE Taken
      <4>1. Roles[r] = "out" /\ Roles' = [Roles EXCEPT ![r] = "reader"]
        BY <2>1, <3>1, <2>a, <2>d, RoleOf DEF LockRead, Join, PC
      <4>2. Promise!Join(r, entry)
        BY <2>1, <3>1, <4>1, <2>b, <2>e DEF LockRead, Join, Promise!Join, Promise!Become
      <4> QED
        BY <4>2, <2>e, <3>1 DEF Promise!Next
    <3>2. CASE ~Taken
      <4>1. Roles' = Roles
        BY <2>1, <3>2, <2>a, <2>d, RoleOf DEF LockRead, PC
      <4> QED
        BY <2>1, <3>2, <4>1, <2>b DEF LockRead, Promise!vars
    <3> QED
      BY <3>1, <3>2
  <2>2. ASSUME NEW r \in Requests, LockWrite(r)
        PROVE  Promise!Next \/ UNCHANGED Promise!vars
    <3>1. CASE Taken
      <4>1. Roles[r] = "out" /\ Roles' = [Roles EXCEPT ![r] = "reader"]
        BY <2>2, <3>1, <2>a, <2>d, RoleOf DEF LockWrite, Join, PC
      <4>2. Promise!Join(r, entry)
        BY <2>2, <3>1, <4>1, <2>b, <2>e DEF LockWrite, Join, Promise!Join, Promise!Become
      <4> QED
        BY <4>2, <2>e, <3>1 DEF Promise!Next
    <3>2. CASE ~Taken
      <4>1. Roles[r] = "out" /\ Roles' = [Roles EXCEPT ![r] = "writer"]
        BY <2>2, <3>2, <2>a, <2>d, RoleOf DEF LockWrite, PC
      <4>2. Aged \/ \A q \in Requests : Roles[q] # "writer"
        <5> SUFFICES ASSUME ~Aged, NEW q \in Requests, Roles[q] = "writer"
                     PROVE  FALSE
          OBVIOUS
        <5>1. pc[q] \in {"writer", "remove"}
          BY <2>a, RoleOf
        <5>2. entry = q
          BY <5>1 DEF IInv, PermitInTable, Aged
        <5>3. status[q] \in Replaceable
          BY <3>2, <5>2, NoLockAssumption DEF Taken
        <5> QED
          BY <5>1, <5>3 DEF IInv, WriterStatus, AgedExpired, Replaceable, Aged
      <4>3. Promise!Elect(r)
        BY <2>2, <3>2, <4>1, <4>2, <2>b DEF LockWrite, Promise!Elect, Promise!Become
      <4> QED
        BY <4>3 DEF Promise!Next
    <3> QED
      BY <3>1, <3>2
  <2>3. ASSUME NEW r \in Requests, WaitStart(r) PROVE UNCHANGED Promise!vars
    <3>1. Roles' = Roles
      BY <2>3, <2>a, <2>d, RoleOf DEF WaitStart, PC
    <3> QED
      BY <2>3, <3>1, <2>b DEF WaitStart, Promise!vars
  <2>4. ASSUME NEW r \in Requests, Acquire(r) PROVE UNCHANGED Promise!vars
    <3>1. Roles' = Roles
      BY <2>4, <2>a, <2>d, RoleOf DEF Acquire, PC
    <3> QED
      BY <2>4, <3>1, <2>b DEF Acquire, Promise!vars
  <2>5. ASSUME NEW r \in Requests, AgeFire(r) PROVE UNCHANGED Promise!vars
    <3>1. Roles' = Roles
      BY <2>5, <2>a, <2>d, RoleOf DEF AgeFire, PC
    <3> QED
      BY <2>5, <3>1, <2>b DEF AgeFire, Promise!vars
  <2>6. ASSUME NEW r \in Requests, StoreAge(r) PROVE Promise!TimeOut(r)
    <3>1. Roles[r] = "reader" /\ Roles' = Roles
      BY <2>6, <2>a, <2>d, RoleOf DEF StoreAge, PC
    <3>2. Aged
      BY <2>6 DEF StoreAge, IInv, AgedExpired, HoldsCreated, Aged
    <3> QED
      BY <2>6, <3>1, <3>2, <2>b DEF StoreAge, Promise!TimeOut
  <2>7. ASSUME NEW r \in Requests, ReadOutcome(r) PROVE Promise!Wake(r)
    <3>1. Roles[r] = "reader" /\ status[holds[r]] # "Waiting"
      BY <2>7, <2>a, RoleOf DEF ReadOutcome, IInv, ReleasedNotWaiting
    <3>2. \/ Roles' = [Roles EXCEPT ![r] = "done"]
          \/ status[holds[r]] # "GiveUp" /\ Roles' = [Roles EXCEPT ![r] = "out"]
      BY <2>7, <2>a, <2>d, RoleOf DEF ReadOutcome, PC
    <3> QED
      BY <2>7, <3>1, <3>2, <2>b DEF ReadOutcome, Promise!Wake, Promise!Become
  <2>8. ASSUME NEW r \in Requests, Remove(r) PROVE Promise!Yield(r)
    <3>1. Roles[r] = "writer" /\ Roles' = [Roles EXCEPT ![r] = "leaving"]
      BY <2>8, <2>a, <2>d, RoleOf DEF Remove, PC
    <3> QED
      BY <2>8, <3>1, <2>b DEF Remove, Promise!Yield, Promise!Become
  <2>9. ASSUME NEW r \in Requests, StoreStatus(r)
        PROVE  Promise!Settle(r, reason[r]) /\ reason[r] \in Promise!Outcome
    <3>1. Roles[r] = "leaving" /\ Roles' = Roles
      BY <2>9, <2>a, <2>d, RoleOf DEF StoreStatus, PC
    <3>2. status[r] = "Waiting" \/ Aged
      BY <2>9 DEF StoreStatus, IInv, WriterStatus, AgedExpired, Aged
    <3>3. reason[r] \in Promise!Outcome
      BY <2>9 DEF StoreStatus, IInv, TypeOK, WriterStatus, LockStatus, Promise!Outcome
    <3> QED
      BY <2>9, <3>1, <3>2, <3>3, <2>b DEF StoreStatus, Promise!Settle
  <2>10. ASSUME NEW r \in Requests, Wake(r) PROVE Promise!Retire(r)
    <3>1. Roles[r] = "leaving" /\ Roles' = [Roles EXCEPT ![r] = "done"]
      BY <2>10, <2>a, <2>d, RoleOf DEF Wake, PC
    <3> QED
      BY <2>10, <3>1, <2>b DEF Wake, Promise!Retire, Promise!Become, IInv, OpenStatus
  <2>11. ASSUME NEW r \in Requests, StopWaiting(r) PROVE Promise!Leave(r)
    <3>1. Roles[r] = "reader" /\ Roles' = [Roles EXCEPT ![r] = "done"]
      BY <2>11, <2>a, <2>d, RoleOf DEF StopWaiting, PC
    <3> QED
      BY <2>11, <3>1, <2>b DEF StopWaiting, Promise!Leave, Promise!Become
  <2>12. ASSUME NEW r \in Requests, Expire(r) PROVE Promise!Age
    <3>1. Aged'
      BY <2>12 DEF Expire, IInv, TypeOK, Aged
    <3>2. Aged' = TRUE
      BY <3>1 DEF Aged
    <3> QED
      BY <2>12, <3>2, <2>c DEF Expire, Promise!Age
  <2>13. ASSUME NEW r \in Requests, DropPermit(r) PROVE Promise!Yield(r)
    <3>1. Roles[r] = "writer" /\ Roles' = [Roles EXCEPT ![r] = "leaving"]
      BY <2>13, <2>a, <2>d, RoleOf DEF DropPermit, PC
    <3> QED
      BY <2>13, <3>1, <2>b DEF DropPermit, Promise!Yield, Promise!Become
  <2>14. ASSUME NEW r \in Requests, NEW s \in ReleaseReason, Release(r, s)
         PROVE  Promise!Yield(r) \/ UNCHANGED Promise!vars
    <3>1. /\ Roles[r] = "writer"
          /\ Roles' = Roles \/ Roles' = [Roles EXCEPT ![r] = "leaving"]
      BY <2>14, <2>a, <2>d, RoleOf DEF Release, PC
    <3> QED
      BY <2>14, <3>1, <2>b DEF Release, Promise!Yield, Promise!Become, Promise!vars
  <2>15. CASE UNCHANGED vars
    BY <2>15, <2>b, <2>c DEF vars, Promise!vars
  <2> QED
    BY <2>1, <2>2, <2>3, <2>4, <2>5, <2>6, <2>7, <2>8, <2>9, <2>10, <2>11,
       <2>12, <2>13, <2>14, <2>15
    DEF Next, ReaderStep, WriterStep, Promise!Next
<1> QED
  BY <1>1, <1>2, InvariantHolds, PTL
     DEF Spec, ImplementsSingleFlight, Promise!Spec
==============================================================================
