------------------------- MODULE H2ConnectorProofs -------------------------
(***************************************************************************)
(* For any number of requests and connections and any max_streams: the     *)
(* stream counter is exact, and no connection carries more than            *)
(* max_streams streams.                                                    *)
(***************************************************************************)
EXTENDS H2Connector, FiniteSetTheorems, TLAPS

\* A request that works on a connection names one.
OnConnection ==
  \A r \in Requests : pc[r] \notin {"start", "idle get"} => conn[r] \in Conns

IInv == TypeOK /\ OnConnection /\ StreamsExact /\ StreamLimit

\* Sets of requests are finite, so they have a cardinality in Nat.
LEMMA RequestSets ==
  ASSUME NEW S \in SUBSET Requests
  PROVE  IsFiniteSet(S) /\ Cardinality(S) \in Nat
BY Zenon, RequestsAssumption, FS_Subset, FS_CardinalityType

\* Adding a request to a set of requests it is not in.
LEMMA Joins ==
  ASSUME NEW S \in SUBSET Requests, NEW r \in Requests, r \notin S
  PROVE  Cardinality(S \cup {r}) = Cardinality(S) + 1
BY Zenon, RequestSets, FS_AddElement

\* Removing a request from a set of requests it is in.
LEMMA Leaves ==
  ASSUME NEW S \in SUBSET Requests, NEW r \in S
  PROVE  /\ Cardinality(S) > 0
         /\ Cardinality(S \ {r}) = Cardinality(S) - 1
<1>1. Cardinality(S \ {r}) = Cardinality(S) - 1
  BY Zenon, RequestSets, FS_RemoveElement
<1>2. Cardinality(S \ {r}) \in Nat /\ Cardinality(S) \in Nat
  BY Zenon, RequestSets
<1> QED BY <1>1, <1>2

\* Granted and Over are sets of requests.
LEMMA GrantedOver ==
  \A c : Granted(c) \in SUBSET Requests /\ Over(c) \in SUBSET Requests
BY Zenon DEF Granted, Over, On

\* What a step that grants or gives back no stream leaves alone.
LEMMA Neutral ==
  ASSUME IInv, streams' = streams, lost' = lost,
         \A c \in Conns : Granted(c)' = Granted(c) /\ Over(c)' = Over(c)
  PROVE  StreamsExact' /\ StreamLimit'
BY Zenon DEF IInv, StreamsExact, StreamLimit

\* A step of one request that gives back a stream of c, or takes back its
\* reservation.
LEMMA GivesBack ==
  ASSUME IInv, NEW c \in Conns, NEW r \in Requests, Lower(c), lost' = lost,
         \A d \in Conns \ {c} : Granted(d)' = Granted(d) /\ Over(d)' = Over(d),
         \/ /\ r \in Granted(c)
            /\ Granted(c)' = Granted(c) \ {r} /\ Over(c)' = Over(c)
         \/ /\ r \in Over(c)
            /\ Over(c)' = Over(c) \ {r} /\ Granted(c)' = Granted(c)
  PROVE  streams' \in [Conns -> Nat] /\ StreamsExact' /\ StreamLimit'
<1>1. Cardinality(Granted(c)) \in Nat /\ Cardinality(Over(c)) \in Nat
  BY Zenon, GrantedOver, RequestSets
<1>2. streams[c] = Cardinality(Granted(c)) + Cardinality(Over(c)) + lost[c]
  BY Zenon DEF IInv, StreamsExact
<1>3. streams \in [Conns -> Nat] /\ MaxStreams \in Nat /\ lost[c] \in Nat
  BY Zenon, MaxStreamsAssumption DEF IInv, TypeOK
<1>4. /\ Cardinality(Granted(c)') + Cardinality(Over(c)') + lost[c] = streams[c] - 1
      /\ Cardinality(Granted(c)') <= Cardinality(Granted(c))
      /\ streams[c] > 0
  <2>1. CASE r \in Granted(c) /\ Granted(c)' = Granted(c) \ {r} /\ Over(c)' = Over(c)
    <3>1. /\ Cardinality(Granted(c)) > 0
          /\ Cardinality(Granted(c) \ {r}) = Cardinality(Granted(c)) - 1
      BY Zenon, <2>1, GrantedOver, Leaves
    <3> QED BY <2>1, <3>1, <1>1, <1>2, <1>3
  <2>2. CASE r \in Over(c) /\ Over(c)' = Over(c) \ {r} /\ Granted(c)' = Granted(c)
    <3>1. /\ Cardinality(Over(c)) > 0
          /\ Cardinality(Over(c) \ {r}) = Cardinality(Over(c)) - 1
      BY Zenon, <2>2, GrantedOver, Leaves
    <3> QED BY <2>2, <3>1, <1>1, <1>2, <1>3
  <2> QED BY Zenon, <2>1, <2>2
<1>5. /\ streams'[c] = streams[c] - 1
      /\ \A d \in Conns \ {c} : streams'[d] = streams[d]
      /\ streams' \in [Conns -> Nat]
  BY <1>3, <1>4 DEF Lower
<1>6. StreamsExact'
  <2> SUFFICES ASSUME NEW d \in Conns
               PROVE  streams'[d] = Cardinality(Granted(d)') + Cardinality(Over(d)') + lost'[d]
    BY Zenon DEF StreamsExact
  <2>1. CASE d = c BY Zenon, <2>1, <1>4, <1>5
  <2>2. CASE d # c BY Zenon, <2>2, <1>5 DEF IInv, StreamsExact
  <2> QED BY Zenon, <2>1, <2>2
<1>7. StreamLimit'
  <2> SUFFICES ASSUME NEW d \in Conns PROVE Cardinality(Granted(d)') <= MaxStreams
    BY Zenon DEF StreamLimit
  <2>1. CASE d = c
    <3>1. Cardinality(Granted(c)) <= MaxStreams BY Zenon DEF IInv, StreamLimit
    <3>2. Cardinality(Granted(c)') \in Nat
      BY Zenon, <1>1, GrantedOver, RequestSets DEF Granted, On
    <3> QED BY <2>1, <1>1, <1>3, <1>4, <3>1, <3>2
  <2>2. CASE d # c BY Zenon, <2>2 DEF IInv, StreamLimit
  <2> QED BY Zenon, <2>1, <2>2
<1> QED BY Zenon, <1>5, <1>6, <1>7

\* spawn_stream()'s fetch_add() grants a stream only below the limit.
LEMMA Reserves ==
  ASSUME IInv, NEW r \in Requests, Reserve(r)
  PROVE  streams' \in [Conns -> Nat] /\ StreamsExact' /\ StreamLimit'
<1>0. PICK c \in Conns : c = conn[r]
  BY Zenon DEF IInv, OnConnection, Reserve
<1>1. /\ streams \in [Conns -> Nat] /\ MaxStreams \in Nat
      /\ lost \in [Conns -> Nat] /\ lost' = lost
      /\ pc \in [Requests -> PC] /\ conn' = conn
      /\ pc[r] \in {"new", "reused"} /\ Bump(c)
  BY Zenon, <1>0, MaxStreamsAssumption DEF IInv, TypeOK, Reserve
<1>2. Cardinality(Granted(c)) \in Nat /\ Cardinality(Over(c)) \in Nat
  BY Zenon, GrantedOver, RequestSets
<1>3. /\ streams[c] = Cardinality(Granted(c)) + Cardinality(Over(c)) + lost[c]
      /\ Cardinality(Granted(c)) <= MaxStreams
  BY Zenon, <1>1 DEF IInv, StreamsExact, StreamLimit
<1>4. r \notin Granted(c) /\ r \notin Over(c)
  BY Zenon, <1>0, <1>1 DEF Granted, Over, On
<1>5. \A d \in Conns \ {c} : Granted(d)' = Granted(d) /\ Over(d)' = Over(d)
  BY Zenon, <1>0, <1>1 DEF Granted, Over, On, Reserve, At
<1>6. /\ Cardinality(Granted(c)') + Cardinality(Over(c)') + lost[c] = streams[c] + 1
      /\ Cardinality(Granted(c)') <= MaxStreams
  <2>1. CASE streams[c] < MaxStreams
    <3>1. Granted(c)' = Granted(c) \cup {r} /\ Over(c)' = Over(c)
      <4>0. ~(streams[conn[r]] >= MaxStreams)
        BY <1>0, <1>1, <2>1
      <4>1. pc' = [pc EXCEPT ![r] = IF pc[r] = "new" THEN "opening new" ELSE "opening reused"]
        BY Zenon, <4>0 DEF Reserve, At
      <4> QED BY Zenon, <4>1, <1>0, <1>1 DEF Granted, Over, On
    <3>2. Cardinality(Granted(c) \cup {r}) = Cardinality(Granted(c)) + 1
      BY Zenon, <1>4, GrantedOver, Joins
    <3> QED BY <3>1, <3>2, <1>1, <1>2, <1>3, <2>1
  <2>2. CASE ~(streams[c] < MaxStreams)
    <3>1. Over(c)' = Over(c) \cup {r} /\ Granted(c)' = Granted(c)
      <4>1. pc' = [pc EXCEPT ![r] = IF pc[r] = "new" THEN "over new" ELSE "over reused"]
        BY Zenon, <1>0, <1>1, <2>2 DEF Reserve, At
      <4> QED BY Zenon, <4>1, <1>0, <1>1 DEF Granted, Over, On
    <3>2. Cardinality(Over(c) \cup {r}) = Cardinality(Over(c)) + 1
      BY Zenon, <1>4, GrantedOver, Joins
    <3> QED BY <3>1, <3>2, <1>1, <1>2, <1>3
  <2> QED BY Zenon, <2>1, <2>2
<1>7. /\ streams'[c] = streams[c] + 1
      /\ \A d \in Conns \ {c} : streams'[d] = streams[d]
      /\ streams' \in [Conns -> Nat]
  BY <1>1 DEF Bump
<1>8. StreamsExact'
  <2> SUFFICES ASSUME NEW d \in Conns
               PROVE  streams'[d] = Cardinality(Granted(d)') + Cardinality(Over(d)') + lost'[d]
    BY Zenon DEF StreamsExact
  <2>1. CASE d = c BY Zenon, <2>1, <1>1, <1>6, <1>7
  <2>2. CASE d # c BY Zenon, <2>2, <1>1, <1>5, <1>7 DEF IInv, StreamsExact
  <2> QED BY Zenon, <2>1, <2>2
<1>9. StreamLimit'
  <2> SUFFICES ASSUME NEW d \in Conns PROVE Cardinality(Granted(d)') <= MaxStreams
    BY Zenon DEF StreamLimit
  <2>1. CASE d = c BY Zenon, <2>1, <1>6
  <2>2. CASE d # c BY Zenon, <2>2, <1>5 DEF IInv, StreamLimit
  <2> QED BY Zenon, <2>1, <2>2
<1> QED BY Zenon, <1>7, <1>8, <1>9

LEMMA InitIInv == Init => IInv
<1> SUFFICES ASSUME Init PROVE IInv
  BY Zenon
<1>1. TypeOK /\ OnConnection
  BY Zenon DEF Init, TypeOK, OnConnection, PC
<1>2. \A c \in Conns : Granted(c) = {} /\ Over(c) = {}
  BY Zenon DEF Init, Granted, Over, On
<1>3. Cardinality({}) = 0
  BY Zenon, FS_EmptySet
<1>4. MaxStreams \in Nat /\ 0 <= MaxStreams
  BY MaxStreamsAssumption
<1>5. ASSUME NEW c \in Conns
      PROVE  streams[c] = 0 /\ lost[c] = 0 /\ Cardinality(Granted(c)) = 0 /\ Cardinality(Over(c)) = 0
  BY Zenon, <1>2, <1>3 DEF Init
<1>6. StreamsExact /\ StreamLimit
  BY <1>4, <1>5 DEF StreamsExact, StreamLimit
<1> QED BY Zenon, <1>1, <1>6 DEF IInv

\* The steps of a request that hold no stream before and after, or hold one
\* throughout.
Quiet(r) ==
  \/ \E c \in Conns : NewSession(r, c) \/ ReuseInUse(r, c)
  \/ ReuseNone(r) \/ ReuseIdle(r) \/ Mismatch(r) \/ Opened(r)
  \/ \E b \in BOOLEAN : Share(r, b)
  \/ MarkShutdown(r) \/ ReleaseLock(r)
  \/ ReleaseInUse(r) \/ ReleaseDecide(r) \/ ReleaseIdle(r)

\* The steps that give a stream back, or a reservation.
Returns(r) ==
  Unreserve(r) \/ (\E b \in BOOLEAN : OpenFailed(r, b)) \/ DropSession(r) \/ ReleaseStream(r)

\* Adding to a bag and taking from it keep it a bag.
LEMMA Bags ==
  ASSUME NEW bag \in [Conns -> Nat], NEW c \in Conns
  PROVE  Add(bag, c) \in [Conns -> Nat] /\ Take(bag, c) \in [Conns -> Nat]
BY DEF Add, Take

\* Where a request goes, and with which connection.
LEMMA Moves ==
  ASSUME IInv, NEW r \in Requests, NEW s \in PC, NEW d \in Conns \cup {None},
         s \notin {"start", "idle get"} => d \in Conns, Work(r, s, d)
  PROVE  /\ pc' \in [Requests -> PC]
         /\ conn' \in [Requests -> Conns \cup {None}]
         /\ OnConnection'
<1>1. pc \in [Requests -> PC] /\ conn \in [Requests -> Conns \cup {None}]
  BY Zenon DEF IInv, TypeOK
<1>2. pc' = [pc EXCEPT ![r] = s] /\ conn' = [conn EXCEPT ![r] = d]
  BY Zenon DEF Work, At
<1>3. ASSUME NEW q \in Requests, pc'[q] \notin {"start", "idle get"} PROVE conn'[q] \in Conns
  <2>1. CASE q = r BY Zenon, <2>1, <1>1, <1>2, <1>3
  <2>2. CASE q # r BY Zenon, <2>2, <1>1, <1>2, <1>3 DEF IInv, OnConnection
  <2> QED BY Zenon, <2>1, <2>2
<1> QED BY Zenon, <1>1, <1>2, <1>3 DEF OnConnection

\* Types, and that a working request names a connection, but for the counter.
LEMMA TypeStep ==
  ASSUME IInv, NEW r \in Requests, Step(r), streams' \in [Conns -> Nat]
  PROVE  TypeOK' /\ OnConnection'
<1> USE NoneAssumption DEF IInv, TypeOK, OnConnection, PC, At, Work, Finish
<1>1. CASE \E c \in Conns : NewSession(r, c)
  <2>1. PICK c \in Conns : NewSession(r, c) BY Zenon, <1>1
  <2>2. /\ Work(r, "new", c) /\ made' = made \cup {c}
        /\ UNCHANGED <<closed, shut, inUse, idle, lost>>
    BY Zenon, <2>1 DEF NewSession
  <2> HIDE DEF Work, OnConnection
  <2>3. pc' \in [Requests -> PC] /\ conn' \in [Requests -> Conns \cup {None}] /\ OnConnection'
    BY Zenon, <2>2, Moves
  <2> HIDE DEF PC
  <2> QED BY Zenon, <2>2, <2>3
<1>2. CASE \E c \in Conns : ReuseInUse(r, c)
  <2>1. PICK c \in Conns : ReuseInUse(r, c) BY Zenon, <1>2
  <2>2. Take(inUse, c) \in [Conns -> Nat] BY Zenon, Bags
  <2>3. /\ Work(r, "idle get", None) \/ Work(r, "reused", c)
        /\ UNCHANGED <<made, closed, shut, idle, lost>> /\ inUse' = Take(inUse, c)
    BY Zenon, <2>1 DEF ReuseInUse
  <2> HIDE DEF Work, OnConnection
  <2>4. pc' \in [Requests -> PC] /\ conn' \in [Requests -> Conns \cup {None}] /\ OnConnection'
    <3>1. CASE Work(r, "idle get", None) BY Zenon, <3>1, Moves
    <3>2. CASE Work(r, "reused", c) BY Zenon, <3>2, Moves
    <3> QED BY Zenon, <2>3, <3>1, <3>2
  <2> HIDE DEF PC
  <2> QED BY Zenon, <2>2, <2>3, <2>4
<1>3. CASE ReuseNone(r) BY Zenon, <1>3 DEF ReuseNone
<1>4. CASE ReuseIdle(r)
  <2>1. \A c \in Conns : Take(idle, c) \in [Conns -> Nat] BY Zenon, Bags
  <2>2. CASE Finish(r) /\ UNCHANGED idle BY Zenon, <1>4, <2>2 DEF ReuseIdle
  <2>3. CASE \E c \in Conns : idle' = Take(idle, c) /\ Work(r, "reused", c)
    <3>1. PICK c \in Conns : idle' = Take(idle, c) /\ Work(r, "reused", c) BY Zenon, <2>3
    <3> QED BY Zenon, <1>4, <2>1, <3>1 DEF ReuseIdle
  <2> QED BY Zenon, <1>4, <2>2, <2>3 DEF ReuseIdle
<1>5. CASE Mismatch(r) BY Zenon, <1>5 DEF Mismatch
<1>6. CASE Reserve(r) BY <1>6 DEF Reserve
<1>7. CASE Unreserve(r) BY <1>7 DEF Unreserve, NoStream
<1>8. CASE Opened(r) BY Zenon, <1>8 DEF Opened
<1>9. CASE \E b \in BOOLEAN : OpenFailed(r, b)
  <2>1. /\ pc[r] \in {"opening new", "opening reused"}
        /\ UNCHANGED <<made, closed, inUse, idle, lost>>
        /\ shut' = shut \/ shut' = [shut EXCEPT ![conn[r]] = TRUE]
        /\ NoStream(r) \/ Finish(r)
    BY Zenon, <1>9 DEF OpenFailed
  <2>2. shut' \in [Conns -> BOOLEAN] BY Zenon, <2>1
  <2>3. Finish(r) \/ (At(r, "none") /\ UNCHANGED conn) BY Zenon, <2>1 DEF NoStream
  <2>4. /\ pc' \in [Requests -> PC] /\ conn' \in [Requests -> Conns \cup {None}]
        /\ OnConnection'
    <3>1. CASE Finish(r) BY Zenon, <3>1
    <3>2. CASE At(r, "none") /\ UNCHANGED conn
      <4>1. conn[r] \in Conns /\ Work(r, "none", conn[r]) BY Zenon, <2>1, <3>2
      <4> HIDE DEF Work, OnConnection
      <4> QED BY Zenon, <4>1, Moves
    <3> QED BY Zenon, <2>3, <3>1, <3>2
  <2>5. /\ made' \subseteq Conns /\ closed' \in [Conns -> BOOLEAN]
        /\ inUse' \in [Conns -> Nat] /\ idle' \in [Conns -> Nat]
        /\ lost' \in [Conns -> Nat]
    BY Zenon, <2>1
  <2> HIDE DEF PC, OnConnection
  <2> QED BY Zenon, <2>2, <2>4, <2>5
<1>10. CASE \E b \in BOOLEAN : Share(r, b)
  <2>1. conn[r] \in Conns BY Zenon, <1>10 DEF Share
  <2>2. Add(inUse, conn[r]) \in [Conns -> Nat] BY Zenon, <2>1, Bags
  <2> QED BY <1>10, <2>1, <2>2 DEF Share
<1>11. CASE DropSession(r) BY Zenon, <1>11 DEF DropSession
<1>12. CASE MarkShutdown(r) BY Zenon, <1>12 DEF MarkShutdown
<1>13. CASE ReleaseLock(r) BY Zenon, <1>13 DEF ReleaseLock
<1>14. CASE ReleaseStream(r) BY Zenon, <1>14 DEF ReleaseStream
<1>15. CASE ReleaseInUse(r)
  <2>1. conn[r] \in Conns BY Zenon, <1>15 DEF ReleaseInUse
  <2>2. Take(inUse, conn[r]) \in [Conns -> Nat] BY Zenon, <2>1, Bags
  <2> QED BY Zenon, <1>15, <2>1, <2>2 DEF ReleaseInUse
<1>16. CASE ReleaseDecide(r)
  <2>1. conn[r] \in Conns BY Zenon, <1>16 DEF ReleaseDecide
  <2>2. Add(inUse, conn[r]) \in [Conns -> Nat] BY Zenon, <2>1, Bags
  <2> QED BY <1>16, <2>1, <2>2 DEF ReleaseDecide
<1>17. CASE ReleaseIdle(r)
  <2>1. conn[r] \in Conns BY Zenon, <1>17 DEF ReleaseIdle
  <2>2. Add(idle, conn[r]) \in [Conns -> Nat] BY Zenon, <2>1, Bags
  <2> QED BY Zenon, <1>17, <2>1, <2>2 DEF ReleaseIdle
<1>18. CASE Cancel(r)
  <2>1. conn[r] \in Conns BY Zenon, <1>18 DEF Cancel
  <2>2. Add(lost, conn[r]) \in [Conns -> Nat] BY Zenon, <2>1, Bags
  <2> QED BY Zenon, <1>18, <2>1, <2>2 DEF Cancel
<1> QED BY <1>1, <1>2, <1>3, <1>4, <1>5, <1>6, <1>7, <1>8, <1>9, <1>10, <1>11, <1>12,
           <1>13, <1>14, <1>15, <1>16, <1>17, <1>18 DEF Step

\* The steps that leave everybody's streams alone.
LEMMA QuietStep ==
  ASSUME IInv, NEW r \in Requests, Quiet(r)
  PROVE  streams' = streams /\ lost' = lost /\ \A c \in Conns : Granted(c)' = Granted(c) /\ Over(c)' = Over(c)
<1> USE NoneAssumption DEF IInv, TypeOK, OnConnection, PC, At, Work, Finish, Granted, Over, On
<1>1. CASE \E c \in Conns : NewSession(r, c) BY <1>1 DEF NewSession
<1>2. CASE \E c \in Conns : ReuseInUse(r, c)
  <2>1. /\ pc[r] = "start" /\ streams' = streams /\ lost' = lost
        /\ \E s \in {"idle get", "reused"} : \E c \in Conns \union {None} : Work(r, s, c)
    BY Zenon, <1>2 DEF ReuseInUse
  <2> QED BY <2>1
<1>3. CASE ReuseNone(r) BY Zenon, <1>3 DEF ReuseNone
<1>4. CASE ReuseIdle(r) BY <1>4 DEF ReuseIdle
<1>5. CASE Mismatch(r) BY Zenon, <1>5 DEF Mismatch
<1>6. CASE Opened(r) BY Zenon, <1>6 DEF Opened
<1>7. CASE \E b \in BOOLEAN : Share(r, b)
  <2>1. /\ pc[r] \in {"opened", "none"} /\ streams' = streams /\ lost' = lost
        /\ \/ pc[r] = "opened" /\ At(r, "active") /\ UNCHANGED conn
           \/ pc[r] = "none" /\ Finish(r)
    BY Zenon, <1>7 DEF Share
  <2> QED BY <2>1
<1>8. CASE MarkShutdown(r) BY Zenon, <1>8 DEF MarkShutdown
<1>9. CASE ReleaseLock(r) BY Zenon, <1>9 DEF ReleaseLock
<1>10. CASE ReleaseInUse(r) BY Zenon, <1>10 DEF ReleaseInUse
<1>11. CASE ReleaseDecide(r)
  <2>1. /\ pc[r] = "decide" /\ streams' = streams /\ lost' = lost
        /\ Finish(r) \/ (At(r, "put") /\ UNCHANGED conn)
    BY Zenon, <1>11 DEF ReleaseDecide
  <2> QED BY <2>1
<1>12. CASE ReleaseIdle(r) BY Zenon, <1>12 DEF ReleaseIdle
<1> QED BY <1>1, <1>2, <1>3, <1>4, <1>5, <1>6, <1>7, <1>8, <1>9, <1>10, <1>11, <1>12 DEF Quiet

\* The steps that give a stream or a reservation back.
LEMMA ReturnStep ==
  ASSUME IInv, NEW r \in Requests, Returns(r)
  PROVE  streams' \in [Conns -> Nat] /\ StreamsExact' /\ StreamLimit'
<1>1. PICK c \in Conns : c = conn[r]
  BY Zenon DEF IInv, OnConnection, Returns, Unreserve, OpenFailed, DropSession, ReleaseStream
<1>2. /\ Lower(c) /\ lost' = lost
      /\ \/ pc[r] \in {"over new", "over reused"}
         \/ pc[r] \in {"opening new", "opening reused", "active", "locked"}
      /\ NoStream(r) \/ Finish(r) \/ (At(r, "dropped") /\ UNCHANGED conn)
  <2>1. CASE Unreserve(r) BY Zenon, <2>1, <1>1 DEF Unreserve
  <2>2. CASE \E b \in BOOLEAN : OpenFailed(r, b) BY Zenon, <2>2, <1>1 DEF OpenFailed
  <2>3. CASE DropSession(r) BY Zenon, <2>3, <1>1 DEF DropSession
  <2>4. CASE ReleaseStream(r) BY Zenon, <2>4, <1>1 DEF ReleaseStream
  <2> QED BY Zenon, <2>1, <2>2, <2>3, <2>4 DEF Returns
<1>3. \E s \in {"start", "none", "dropped"}, d \in {c, None} :
        pc' = [pc EXCEPT ![r] = s] /\ conn' = [conn EXCEPT ![r] = d]
  <2>1. conn \in [Requests -> Conns \cup {None}] BY Zenon DEF IInv, TypeOK
  <2>2. conn' = conn => conn' = [conn EXCEPT ![r] = c] BY Zenon, <1>1, <2>1
  <2> QED BY Zenon, <1>2, <2>2 DEF NoStream, Finish, Work, At
<1>4. PICK s \in {"start", "none", "dropped"}, d \in {c, None} :
        pc' = [pc EXCEPT ![r] = s] /\ conn' = [conn EXCEPT ![r] = d]
  BY Zenon, <1>3
<1>5. pc \in [Requests -> PC] /\ conn \in [Requests -> Conns \cup {None}]
  BY Zenon DEF IInv, TypeOK
<1>6. \A e \in Conns \ {c} : Granted(e)' = Granted(e) /\ Over(e)' = Over(e)
  BY Zenon, <1>1, <1>4, <1>5, NoneAssumption DEF Granted, Over, On
<1>7. CASE pc[r] \in {"over new", "over reused"}
  <2>1. r \in Over(c) /\ Over(c)' = Over(c) \ {r} /\ Granted(c)' = Granted(c)
    BY Zenon, <1>1, <1>4, <1>5, <1>7 DEF Granted, Over, On
  <2> QED BY Zenon, <1>2, <1>6, <2>1, GivesBack
<1>8. CASE pc[r] \in {"opening new", "opening reused", "active", "locked"}
  <2>1. r \in Granted(c) /\ Granted(c)' = Granted(c) \ {r} /\ Over(c)' = Over(c)
    BY Zenon, <1>1, <1>4, <1>5, <1>8 DEF Granted, Over, On
  <2> QED BY Zenon, <1>2, <1>6, <2>1, GivesBack
<1> QED BY Zenon, <1>2, <1>7, <1>8

\* A cancelled spawn_stream(): its stream is counted in lost from now on.
LEMMA CancelStep ==
  ASSUME IInv, NEW r \in Requests, Cancel(r)
  PROVE  streams' \in [Conns -> Nat] /\ StreamsExact' /\ StreamLimit'
<1>1. PICK c \in Conns : c = conn[r]
  BY Zenon DEF IInv, OnConnection, Cancel
<1>2. /\ streams \in [Conns -> Nat] /\ lost \in [Conns -> Nat] /\ MaxStreams \in Nat
      /\ pc \in [Requests -> PC] /\ conn \in [Requests -> Conns \cup {None}]
      /\ streams' = streams /\ lost' = Add(lost, c)
  BY Zenon, <1>1, MaxStreamsAssumption DEF IInv, TypeOK, Cancel
<1>3. /\ r \in Granted(c) /\ Granted(c)' = Granted(c) \ {r} /\ Over(c)' = Over(c)
      /\ \A d \in Conns \ {c} : Granted(d)' = Granted(d) /\ Over(d)' = Over(d)
  BY Zenon, <1>1, <1>2, NoneAssumption DEF Cancel, Finish, Work, At, Granted, Over, On
<1>4. /\ Cardinality(Granted(c)') = Cardinality(Granted(c)) - 1
      /\ Cardinality(Granted(c)) \in Nat /\ Cardinality(Over(c)) \in Nat
  BY Zenon, <1>3, GrantedOver, RequestSets, Leaves
<1>5. lost'[c] = lost[c] + 1 /\ \A d \in Conns \ {c} : lost'[d] = lost[d]
  BY Zenon, <1>2 DEF Add
<1>6. ASSUME NEW d \in Conns
      PROVE  /\ streams'[d] = Cardinality(Granted(d)') + Cardinality(Over(d)') + lost'[d]
             /\ Cardinality(Granted(d)') <= MaxStreams
  <2>1. /\ streams[d] = Cardinality(Granted(d)) + Cardinality(Over(d)) + lost[d]
        /\ Cardinality(Granted(d)) <= MaxStreams
    BY Zenon DEF IInv, StreamsExact, StreamLimit
  <2>2. CASE d = c BY <2>1, <2>2, <1>2, <1>3, <1>4, <1>5
  <2>3. CASE d # c BY Zenon, <2>1, <2>3, <1>2, <1>3, <1>5
  <2> QED BY Zenon, <2>2, <2>3
<1> QED BY Zenon, <1>2, <1>6 DEF StreamsExact, StreamLimit

LEMMA NextIInv == IInv /\ [Next]_vars => IInv'
<1> SUFFICES ASSUME IInv, [Next]_vars PROVE IInv'
  BY Zenon
<1>1. ASSUME NEW r \in Requests, Step(r) PROVE IInv'
  <2>1. streams' \in [Conns -> Nat] /\ StreamsExact' /\ StreamLimit'
    <3>1. CASE Reserve(r) BY Zenon, <3>1, Reserves
    <3>2. CASE Returns(r) BY Zenon, <3>2, ReturnStep
    <3>3. CASE Quiet(r)
      <4>1. streams' = streams /\ lost' = lost /\ \A c \in Conns : Granted(c)' = Granted(c) /\ Over(c)' = Over(c)
        BY Zenon, <3>3, QuietStep
      <4> QED BY Zenon, <4>1, Neutral DEF IInv, TypeOK
    <3>4. CASE Cancel(r) BY Zenon, <3>4, CancelStep
    <3> QED BY Zenon, <1>1, <3>1, <3>2, <3>3, <3>4 DEF Step, Returns, Quiet
  <2> QED BY Zenon, <1>1, <2>1, TypeStep DEF IInv
<1>2. ASSUME NEW c \in Conns, IdleDrop(c) \/ Closed(c) PROVE IInv'
  <2>1. UNCHANGED <<made, streams, shut, inUse, lost, pc, conn>>
    BY Zenon, <1>2 DEF IdleDrop, Closed
  <2>2. closed' \in [Conns -> BOOLEAN] /\ idle' \in [Conns -> Nat]
    <3>1. CASE IdleDrop(c) BY Zenon, <3>1, Bags DEF IdleDrop, IInv, TypeOK
    <3>2. CASE Closed(c) BY Zenon, <3>2 DEF Closed, IInv, TypeOK
    <3> QED BY Zenon, <1>2, <3>1, <3>2
  <2>3. TypeOK' /\ OnConnection'
    BY Zenon, <2>1, <2>2 DEF IInv, TypeOK, OnConnection
  <2>4. \A d \in Conns : Granted(d)' = Granted(d) /\ Over(d)' = Over(d)
    BY Zenon, <2>1 DEF Granted, Over, On
  <2> QED BY Zenon, <2>1, <2>3, <2>4, Neutral DEF IInv
<1>3. ASSUME UNCHANGED vars PROVE IInv'
  <2>1. TypeOK' /\ OnConnection' BY Zenon, <1>3 DEF vars, IInv, TypeOK, OnConnection
  <2>2. \A d \in Conns : Granted(d)' = Granted(d) /\ Over(d)' = Over(d)
    BY Zenon, <1>3 DEF vars, Granted, Over, On
  <2> QED BY Zenon, <1>3, <2>1, <2>2, Neutral DEF IInv, vars
<1> QED BY Zenon, <1>1, <1>2, <1>3 DEF Next

LEMMA Invariant == Spec => []IInv
BY InitIInv, NextIInv, PTL DEF Spec

\* current_streams always counts exactly the streams that were granted and not
\* given back, the reservations spawn_stream() is about to take back and those of
\* its cancelled calls.
THEOREM StreamCountExact == Spec => []StreamsExact
<1>1. IInv => StreamsExact BY Zenon DEF IInv
<1> QED BY <1>1, Invariant, PTL

\* No interleaving of spawn_stream() calls puts more than max_streams streams
\* on a connection.
THEOREM NeverOverLimit == Spec => []StreamLimit
<1>1. IInv => StreamLimit BY Zenon DEF IInv
<1> QED BY <1>1, Invariant, PTL

\* So the counter spawn_stream() reserves from is exact and within the limit.
THEOREM StreamsAlwaysCounted == Spec => []StreamsCounted
<1>1. StreamsExact /\ StreamLimit => StreamsCounted BY Zenon DEF StreamsCounted
<1> QED BY <1>1, StreamCountExact, NeverOverLimit, PTL
=============================================================================
