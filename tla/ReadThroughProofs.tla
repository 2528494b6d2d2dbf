------------------------- MODULE ReadThroughProofs -------------------------
(***************************************************************************)
(* For any number of concurrent calls: a lock is in the table exactly      *)
(* while its guard lives, and no reader waits for a writer that is gone.   *)
(***************************************************************************)
EXTENDS ReadThrough, TLAPS

\* The guard has added its permits when it comes to remove the lock.
AddedPermits == \A r \in Requests : pc[r] = "added" => r \in permits

\* A reader holds a lock.
ReaderLock == \A r \in Requests : pc[r] \in {"read", "wait"} => lock[r] \in Requests

IInv == TypeOK /\ GuardOwnsEntry /\ AddedPermits /\ ReaderLock /\ WaitersWillWake

LEMMA InitIInv == Init => IInv
BY Zenon, NoLockAssumption
   DEF Init, IInv, TypeOK, PC, GuardOwnsEntry, Guarding, AddedPermits, ReaderLock, WaitersWillWake

\* A request that finds a lock in the table finds one whose writer has added
\* permits or will.
LEMMA FoundKeeps ==
  ASSUME IInv, NEW r \in Requests, pc[r] \in {"missed", "insert"},
         lockers # NoLock, Found(r, lockers),
         UNCHANGED <<cached, lockers, permits, old>>
  PROVE  IInv'
<1> USE NoLockAssumption DEF IInv, TypeOK, PC, Found, Goto
<1>1. TypeOK' BY Zenon
<1>2. GuardOwnsEntry' BY Zenon DEF GuardOwnsEntry, Guarding
<1>3. AddedPermits' BY Zenon DEF AddedPermits
<1>4. ReaderLock' BY Zenon DEF ReaderLock
<1>5. WaitersWillWake'
  <2>1. lockers \in permits \/ pc[lockers] = "write"
    BY Zenon DEF GuardOwnsEntry, Guarding, AddedPermits
  <2>2. pc[lockers] = "write" => pc'[lockers] = "write"
    BY Zenon DEF GuardOwnsEntry, Guarding
  <2>3. SUFFICES ASSUME NEW q \in Requests, pc'[q] \in {"read", "wait"}
                 PROVE  lock'[q] \in permits \/ pc'[lock'[q]] = "write"
    BY Zenon DEF WaitersWillWake
  <2>4. CASE q = r /\ lockers \notin old
    BY Zenon, <2>1, <2>2, <2>4
  <2>5. CASE q # r
    <3>1. pc[q] \in {"read", "wait"} /\ lock'[q] = lock[q] /\ lock[q] \in Requests
      BY Zenon, <2>3, <2>5 DEF ReaderLock
    <3>2. lock[q] \in permits \/ pc[lock[q]] = "write"
      BY Zenon, <3>1 DEF WaitersWillWake
    <3>3. pc[lock[q]] = "write" => pc'[lock[q]] = "write"
      BY Zenon, <3>1
    <3> QED BY Zenon, <3>1, <3>2, <3>3
  <2> QED BY Zenon, <2>3, <2>4, <2>5
<1> QED BY Zenon, <1>1, <1>2, <1>3, <1>4, <1>5

\* A request that holds no guard before and after moves on, and waits only if
\* it waited or read a lock before.
LEMMA MoveKeeps ==
  ASSUME IInv, NEW r \in Requests, NEW s \in PC, Goto(r, s),
         pc[r] \notin {"write", "added"}, s \notin {"write", "added", "read"},
         s = "wait" => pc[r] = "read",
         cached' \in {"none", "fresh", "stale"},
         UNCHANGED <<lockers, permits, old, lock>>
  PROVE  IInv'
<1> USE DEF IInv, TypeOK, Goto
<1>1. TypeOK' BY Zenon
<1>2. GuardOwnsEntry' BY Zenon DEF GuardOwnsEntry, Guarding
<1>3. AddedPermits' BY Zenon DEF AddedPermits
<1>4. ReaderLock' BY Zenon DEF ReaderLock
<1>5. WaitersWillWake' BY Zenon DEF WaitersWillWake, ReaderLock
<1> QED BY Zenon, <1>1, <1>2, <1>3, <1>4, <1>5

LEMMA StepIInv ==
  ASSUME IInv, NEW r \in Requests,
         Step(r) \/ GetStale(r) \/ TimeOut(r) \/ Cancel(r) \/ Age(r)
  PROVE  IInv'
<1>1. CASE CacheGet(r) \/ MultiGet(r) \/ CheckPermits(r) \/ Acquire(r) \/ Recheck(r)
  BY Zenon, <1>1, MoveKeeps
     DEF CacheGet, MultiGet, CheckPermits, Acquire, Recheck, PC, IInv, TypeOK
<1>2. CASE GetStale(r) \/ TimeOut(r) \/ Cancel(r)
  BY Zenon, <1>2, MoveKeeps DEF GetStale, TimeOut, Cancel, PC, IInv, TypeOK
<1>3. CASE \E ok \in BOOLEAN : LookupReturns(r, ok)
  BY Zenon, <1>3, MoveKeeps DEF LookupReturns, PC, IInv, TypeOK
<1>4. CASE TableRead(r)
  <2>1. CASE lockers = NoLock
    BY Zenon, <1>4, <2>1, MoveKeeps DEF TableRead, PC, IInv, TypeOK
  <2>2. CASE lockers # NoLock
    BY Zenon, <1>4, <2>2, FoundKeeps DEF TableRead
  <2> QED BY Zenon, <2>1, <2>2
<1>5. CASE TableWrite(r)
  <2>1. CASE lockers = NoLock
    <3> USE <1>5, <2>1, NoLockAssumption DEF TableWrite, IInv, TypeOK, PC, Goto
    <3>1. TypeOK' BY Zenon
    <3>2. GuardOwnsEntry'
      <4>1. \A q \in Requests : pc[q] \notin {"write", "added"}
        BY Zenon DEF GuardOwnsEntry, Guarding
      <4>2. \A q \in Requests : pc'[q] \in {"write", "added"} <=> q = r
        BY Zenon, <4>1
      <4> QED BY Zenon, <4>2 DEF GuardOwnsEntry, Guarding
    <3>3. AddedPermits' BY Zenon DEF AddedPermits
    <3>4. ReaderLock' BY Zenon DEF ReaderLock
    <3>5. WaitersWillWake'
      <4> SUFFICES ASSUME NEW q \in Requests, pc'[q] \in {"read", "wait"}
                   PROVE  lock'[q] \in permits' \/ pc'[lock'[q]] = "write"
        BY Zenon DEF WaitersWillWake
      <4>1. q # r /\ pc[q] \in {"read", "wait"} /\ lock'[q] = lock[q] /\ permits' = permits BY Zenon
      <4>2. lock[q] \in Requests /\ (lock[q] \in permits \/ pc[lock[q]] = "write")
        BY Zenon, <4>1 DEF WaitersWillWake, ReaderLock
      <4>3. pc[lock[q]] = "write" => pc'[lock[q]] = "write" BY Zenon, <4>2
      <4> QED BY Zenon, <4>1, <4>2, <4>3
    <3> QED BY Zenon, <3>1, <3>2, <3>3, <3>4, <3>5
  <2>2. CASE lockers # NoLock
    BY Zenon, <1>5, <2>2, FoundKeeps DEF TableWrite
  <2> QED BY Zenon, <2>1, <2>2
<1>6. CASE \E ok \in BOOLEAN : WriterReturns(r, ok)
  <2> USE <1>6, NoLockAssumption DEF WriterReturns, IInv, TypeOK, PC, Goto
  <2>1. TypeOK' BY Zenon
  <2>2. GuardOwnsEntry' BY Zenon DEF GuardOwnsEntry, Guarding
  <2>3. AddedPermits' BY Zenon DEF AddedPermits
  <2>4. ReaderLock' BY Zenon DEF ReaderLock
  <2>5. WaitersWillWake'
    <3> SUFFICES ASSUME NEW q \in Requests, pc'[q] \in {"read", "wait"}
                 PROVE  lock[q] \in permits' \/ pc'[lock[q]] = "write"
      BY Zenon DEF WaitersWillWake
    <3>1. pc[q] \in {"read", "wait"} /\ lock[q] \in Requests
      BY Zenon DEF ReaderLock
    <3>2. lock[q] \in permits \/ pc[lock[q]] = "write"
      BY Zenon, <3>1 DEF WaitersWillWake
    <3> QED BY Zenon, <3>1, <3>2
  <2> QED BY Zenon, <2>1, <2>2, <2>3, <2>4, <2>5
<1>7. CASE GuardRemoves(r)
  <2> USE <1>7, NoLockAssumption DEF GuardRemoves, IInv, TypeOK, PC, Goto
  <2>1. TypeOK' BY Zenon
  <2>2. GuardOwnsEntry' BY Zenon DEF GuardOwnsEntry, Guarding
  <2>3. AddedPermits' BY Zenon DEF AddedPermits
  <2>4. ReaderLock' BY Zenon DEF ReaderLock
  <2>5. WaitersWillWake' BY Zenon DEF WaitersWillWake, ReaderLock
  <2> QED BY Zenon, <2>1, <2>2, <2>3, <2>4, <2>5
<1>8. CASE Age(r)
  BY Zenon, <1>8 DEF Age, IInv, TypeOK, GuardOwnsEntry, Guarding, AddedPermits, ReaderLock, WaitersWillWake
<1> QED BY Zenon, <1>1, <1>2, <1>3, <1>4, <1>5, <1>6, <1>7, <1>8 DEF Step

LEMMA NextIInv == IInv /\ [Next]_vars => IInv'
<1> SUFFICES ASSUME IInv, [Next]_vars PROVE IInv'
  BY Zenon
<1>1. CASE Expire \/ Evict \/ UNCHANGED vars
  BY Zenon, <1>1 DEF Expire, Evict, vars, IInv, TypeOK, GuardOwnsEntry, Guarding, AddedPermits,
              ReaderLock, WaitersWillWake
<1> QED BY Zenon, <1>1, StepIInv DEF Next

LEMMA Invariant == Spec => []IInv
BY InitIInv, NextIInv, PTL DEF Spec

\* A lock is in RTCache's table exactly while the WriterLockGuard that inserted
\* it lives; so at most one get() of a key holds a guard.
THEOREM GuardExact == Spec => []GuardOwnsEntry
<1>1. IInv => GuardOwnsEntry BY Zenon DEF IInv
<1> QED BY <1>1, Invariant, PTL

\* No reader waits on a lock whose writer returned, failed or was cancelled
\* without adding permits.
THEOREM ReadersWake == Spec => []WaitersWillWake
<1>1. IInv => WaitersWillWake BY Zenon DEF IInv
<1> QED BY <1>1, Invariant, PTL
=============================================================================
