------------------------- MODULE ProxyRequestProofs -------------------------
(***************************************************************************)
(* For any requests, connections, retry limits and peers: a request is     *)
(* written upstream again only if that is safe, and a client gets one      *)
(* response, its own.                                                      *)
(***************************************************************************)
EXTENDS ProxyRequest, TLAPS

Errors ==
  [retry : {"none", "no", "yes", "reused only"}, source : {"none", "gone", "in", "up"},
   downgrade : BOOLEAN]

\* Where an attempt has not been written upstream, where it has no error yet,
\* and where it has a connection.
Unwritten == {"start", "loop", "h1 pool", "h2 pool", "custom pool", "connect", "connected"}
Trying == {"h1 pool", "h2 pool", "custom pool", "connect", "connected", "sent", "body"}
Holding == {"connected", "sent", "body", "release"}

RequestState ==
  [pc : Unwritten \union {"sent", "body", "release", "decide", "end"}, retries : Nat,
   conn : Conns \union {None}, reused : BOOLEAN, error : Errors, keep : BOOLEAN,
   truncated : BOOLEAN, client : {"none", "partial", "whole", "error"}, wrote : SUBSET Nat,
   sent : SUBSET Nat, torn : BOOLEAN, answers : SUBSET Requests, reuse : BOOLEAN]

\* The request goes back to the loop with `yes' only: such an error follows no
\* write of a request that is written once, no truncation, no response header.
SentInv(r, q) ==
  /\ ~q.torn
  /\ r \notin setup.idempotent => q.sent = {} \/ \E n : q.sent = {n}
  /\ q.truncated \/ (r \notin setup.idempotent /\ q.sent # {})
       => q.pc \notin Unwritten /\ (q.pc = "decide" => q.error.retry # "yes")

WroteInv(q) ==
  /\ q.wrote = {} \/ \E n : q.wrote = {n}
  /\ q.wrote # {} => /\ q.pc \in {"body", "release", "decide", "end"}
                     /\ q.pc \in {"release", "decide"} => q.error.retry \in {"none", "no"}
  /\ q.pc = "body" \/ q.client = "whole" => q.wrote # {}
  /\ q.reuse => q.client = "whole" \/ (q.pc = "end" /\ q.client = "error")

RequestInv(r, q) ==
  /\ q \in RequestState
  /\ q.conn # None <=> q.pc \in Holding
  /\ q.pc \in Trying => q.error = NoError
  /\ q.keep => q.pc = "release"
  /\ q.answers \subseteq {r}
  /\ SentInv(r, q)
  /\ WroteInv(q)

IsConn(x) == x \in [proto : {x.proto}, open : {x.open}, pooled : {x.pooled}, waiting : {x.waiting}]

\* No answer is outstanding on a pooled connection that carries one request at
\* a time.
IdleInv(x) == IsConn(x) /\ (x.pooled /\ x.proto # "h2" => x.waiting = <<>> /\ x.proto # "none")

\* Nor on such a connection that a request has, but for its own.
HeldInv(r, q, x) ==
  /\ x.proto # "none"
  /\ x.proto # "h2" => /\ ~x.pooled
                       /\ q.pc \in {"connected", "body"} \/ q.keep => x.waiting = <<>>
                       /\ q.pc = "sent" => x.waiting = <<r>>

\* One request at a time has it.
AloneInv(r, s) == r # s /\ req[r].conn = req[s].conn /\ req[r].conn # None => Of(r).proto = "h2"

Inv ==
  /\ req = [r \in Requests |-> req[r]] /\ conn = [c \in Conns |-> conn[c]]
  /\ \A r \in Requests : RequestInv(r, req[r])
  /\ \A c \in Conns : IdleInv(conn[c])
  /\ \A r \in Requests : req[r].conn # None => HeldInv(r, req[r], Of(r))
  /\ \A r, s \in Requests : AloneInv(r, s)

-----------------------------------------------------------------------------
(* Steps of a request.                                                     *)

LEMMA RequestStep ==
  ASSUME Inv, NEW r \in Requests, NEW q, req' = [req EXCEPT ![r] = q], RequestInv(r, q), setup' = setup
  PROVE  /\ req' = [i \in Requests |-> req'[i]] /\ req'[r] = q
         /\ \A i \in Requests \ {r} : req'[i] = req[i]
         /\ \A i \in Requests : RequestInv(i, req[i])'
<1>1. req = [i \in Requests |-> req[i]] BY Zenon DEF Inv
<1>2. req' = [i \in Requests |-> req'[i]] /\ req'[r] = q /\ \A i \in Requests \ {r} : req'[i] = req[i]
  BY Zenon, <1>1
<1>3. ASSUME NEW i \in Requests PROVE RequestInv(i, req[i])'
  <2>1. RequestInv(i, req'[i]) BY Zenon, <1>2 DEF Inv
  <2> QED BY Zenon, <2>1 DEF RequestInv, SentInv, WroteInv
<1> QED BY Zenon, <1>2, <1>3

\* A step of a request that leaves the connections alone and its own in place.
LEMMA QuietStep ==
  ASSUME Inv, NEW r \in Requests, NEW q, req' = [req EXCEPT ![r] = q], RequestInv(r, q),
         UNCHANGED <<setup, conn>>, q.conn = req[r].conn,
         q.pc \notin {"connected", "sent", "body"}, q.keep => At(r, "body")
  PROVE  Inv'
<1>1. /\ req' = [i \in Requests |-> req'[i]] /\ req'[r] = q
      /\ \A i \in Requests \ {r} : req'[i] = req[i]
      /\ \A i \in Requests : RequestInv(i, req[i])'
  BY Zenon, RequestStep
<1>2. \A i \in Requests : req'[i].conn = req[i].conn BY Zenon, <1>1
<1>3. ASSUME NEW i \in Requests, req'[i].conn # None PROVE HeldInv(i, req[i], Of(i))'
  <2>1. HeldInv(i, req[i], Of(i)) BY Zenon, <1>2, <1>3 DEF Inv
  <2>2. CASE i = r BY Zenon, <1>1, <2>1, <2>2 DEF HeldInv, Of, At
  <2>3. CASE i # r BY Zenon, <1>1, <2>1, <2>3 DEF HeldInv, Of
  <2> QED BY Zenon, <2>2, <2>3
<1>4. ASSUME NEW i \in Requests, NEW j \in Requests PROVE AloneInv(i, j)'
  <2>1. AloneInv(i, j) /\ req'[i].conn = req[i].conn /\ req'[j].conn = req[j].conn BY Zenon, <1>2 DEF Inv
  <2> QED BY Zenon, <2>1 DEF AloneInv, Of
<1>5. conn' = [c \in Conns |-> conn'[c]] /\ \A c \in Conns : IdleInv(conn[c])'
  BY Zenon DEF Inv, IdleInv, IsConn
<1> QED BY Zenon, <1>1, <1>3, <1>4, <1>5 DEF Inv

\* A step of a request that changes connection c, which nobody else has unless
\* it carries streams; the request has it afterwards or has none.
Exchanges(r, q, c, x) ==
  /\ conn' = [conn EXCEPT ![c] = x] /\ setup' = setup /\ IdleInv(x)
  /\ \A i \in Requests \ {r} : req[i].conn = c => conn[c].proto = "h2" /\ x.proto = "h2"
  /\ q.conn = None \/ (q.conn = c /\ HeldInv(r, q, x))

LEMMA ConnStep ==
  ASSUME Inv, None \notin Conns, NEW r \in Requests, NEW q, req' = [req EXCEPT ![r] = q], RequestInv(r, q),
         NEW c \in Conns, NEW x, Exchanges(r, q, c, x)
  PROVE  Inv'
<1>0. /\ conn' = [conn EXCEPT ![c] = x] /\ setup' = setup /\ IdleInv(x)
      /\ \A i \in Requests \ {r} : req[i].conn = c => conn[c].proto = "h2" /\ x.proto = "h2"
      /\ q.conn = None \/ (q.conn = c /\ HeldInv(r, q, x))
  BY Zenon DEF Exchanges
<1>1. /\ req' = [i \in Requests |-> req'[i]] /\ req'[r] = q
      /\ \A i \in Requests \ {r} : req'[i] = req[i]
      /\ \A i \in Requests : RequestInv(i, req[i])'
  BY Zenon, <1>0, RequestStep
<1>2. conn = [d \in Conns |-> conn[d]] BY Zenon DEF Inv
<1>3. conn' = [d \in Conns |-> conn'[d]] /\ conn'[c] = x /\ \A d \in Conns \ {c} : conn'[d] = conn[d]
  BY Zenon, <1>0, <1>2
<1>4. ASSUME NEW d \in Conns PROVE IdleInv(conn[d])'
  <2>1. IdleInv(conn'[d]) BY Zenon, <1>0, <1>3 DEF Inv
  <2> QED BY Zenon, <2>1 DEF IdleInv, IsConn
<1>5. ASSUME NEW i \in Requests, i # r, req[i].conn # None
      PROVE  /\ req'[i] = req[i] /\ req[i].conn \in Conns /\ HeldInv(i, req[i], Of(i))
             /\ req[i].conn # c => Of(i)' = Of(i)
             /\ req[i].conn = c => Of(i).proto = "h2" /\ Of(i)'.proto = "h2"
  <2>1. req'[i] = req[i] /\ HeldInv(i, req[i], Of(i)) BY Zenon, <1>1, <1>5 DEF Inv
  <2>2. req[i] \in RequestState BY Zenon DEF Inv, RequestInv
  <2>3. req[i].conn \in Conns BY Zenon, <1>5, <2>2 DEF RequestState
  <2>4. req[i].conn # c => Of(i)' = Of(i) BY Zenon, <1>3, <2>1, <2>3 DEF Of
  <2>5. req[i].conn = c => conn[c].proto = "h2" /\ x.proto = "h2" BY Zenon, <1>0, <1>5
  <2>6. req[i].conn = c => Of(i) = conn[c] /\ Of(i)' = x BY Zenon, <1>3, <2>1 DEF Of
  <2> QED BY Zenon, <2>1, <2>3, <2>4, <2>5, <2>6
<1>6. ASSUME NEW i \in Requests, req'[i].conn # None PROVE HeldInv(i, req[i], Of(i))'
  <2>1. CASE i = r BY Zenon, <1>0, <1>1, <1>3, <1>6, <2>1 DEF HeldInv, Of
  <2>2. CASE i # r
    <3>1. req[i].conn # None BY Zenon, <1>1, <1>6, <2>2
    <3>2. CASE req[i].conn = c BY Zenon, <1>5, <2>2, <3>1, <3>2 DEF HeldInv
    <3>3. CASE req[i].conn # c
      <4>1. HeldInv(i, req[i], Of(i)) /\ req'[i] = req[i] /\ Of(i)' = Of(i) BY Zenon, <1>5, <2>2, <3>1, <3>3
      <4>2. HeldInv(i, req'[i], Of(i)') BY Zenon, <4>1
      <4> QED BY Zenon, <4>2 DEF HeldInv
    <3> QED BY Zenon, <3>2, <3>3
  <2> QED BY Zenon, <2>1, <2>2
<1>7. ASSUME NEW i \in Requests, NEW j \in Requests PROVE AloneInv(i, j)'
  <2> SUFFICES ASSUME i # j, req'[i].conn = req'[j].conn, req'[i].conn # None
               PROVE  Of(i)'.proto = "h2"
    BY Zenon DEF AloneInv
  <2>1. CASE i = r
    <3>1. q.conn = c /\ req[j].conn = c BY Zenon, <1>0, <1>1, <2>1
    <3> QED BY Zenon, <1>0, <1>1, <1>3, <2>1, <3>1 DEF Of
  <2>2. CASE j = r
    <3>1. q.conn = c /\ req[i].conn = c BY Zenon, <1>0, <1>1, <2>2
    <3> QED BY Zenon, <1>0, <1>1, <1>3, <2>2, <3>1 DEF Of
  <2>3. CASE i # r /\ j # r
    <3>1. Of(i).proto = "h2" /\ req[i].conn # None BY Zenon, <1>1, <2>3 DEF Inv, AloneInv
    <3> QED BY Zenon, <1>5, <2>3, <3>1
  <2> QED BY Zenon, <2>1, <2>2, <2>3
<1> QED BY Zenon, <1>1, <1>3, <1>4, <1>6, <1>7 DEF Inv

\* The connections may close, leave the pool, or go when nobody has them.
Loosened(c) ==
  \/ /\ IsConn(conn'[c]) /\ conn'[c].proto = conn[c].proto /\ conn'[c].waiting = conn[c].waiting
     /\ conn'[c].pooled => conn[c].pooled
  \/ ~InUse(c) /\ conn'[c] = FreeConn

LEMMA Loosens ==
  ASSUME Inv, None \notin Conns, conn' = [c \in Conns |-> conn'[c]], \A c \in Conns : Loosened(c),
         req' = [i \in Requests |-> req'[i]], \A i \in Requests : RequestInv(i, req[i])',
         \A i \in Requests : req'[i].conn = req[i].conn /\ (req[i].conn # None => req'[i] = req[i])
  PROVE  Inv'
<1>1. ASSUME NEW c \in Conns PROVE IdleInv(conn[c])'
  <2>1. IdleInv(conn[c]) /\ Loosened(c) BY Zenon DEF Inv
  <2>2. CASE conn'[c] = FreeConn BY <2>2 DEF IdleInv, IsConn, FreeConn
  <2>3. CASE conn'[c] # FreeConn BY Zenon, <2>1, <2>3 DEF IdleInv, Loosened
  <2> QED BY Zenon, <2>2, <2>3
<1>2. ASSUME NEW i \in Requests, req[i].conn # None
      PROVE  /\ req'[i] = req[i] /\ HeldInv(i, req[i], Of(i))
             /\ Of(i)'.proto = Of(i).proto /\ Of(i)'.waiting = Of(i).waiting
             /\ Of(i)'.pooled => Of(i).pooled
  <2>1. req'[i] = req[i] /\ HeldInv(i, req[i], Of(i)) BY Zenon, <1>2 DEF Inv
  <2>2. req[i] \in RequestState BY Zenon DEF Inv, RequestInv
  <2>3. req[i].conn \in Conns BY Zenon, <1>2, <2>2 DEF RequestState
  <2>4. InUse(req[i].conn) /\ Loosened(req[i].conn) BY Zenon, <2>3 DEF InUse
  <2> QED BY Zenon, <2>1, <2>4 DEF Loosened, Of
<1>3. ASSUME NEW i \in Requests, req'[i].conn # None PROVE HeldInv(i, req[i], Of(i))'
  BY Zenon, <1>2, <1>3 DEF HeldInv
<1>4. ASSUME NEW i \in Requests, NEW j \in Requests PROVE AloneInv(i, j)'
  <2>1. AloneInv(i, j) BY Zenon DEF Inv
  <2> QED BY Zenon, <1>2, <2>1 DEF AloneInv
<1> QED BY Zenon, <1>1, <1>3, <1>4 DEF Inv

-----------------------------------------------------------------------------
(* Before an attempt.                                                      *)

LEMMA StateOf ==
  ASSUME Inv, NEW r \in Requests
  PROVE  /\ RequestInv(r, req[r]) /\ req[r] \in RequestState
         /\ req = [i \in Requests |-> req[i]]
BY Zenon DEF Inv, RequestInv

\* A request moves on with nothing written and no connection.
Moved(r, pc) == [req[r] EXCEPT !.pc = pc]

LEMMA MovedOn ==
  ASSUME Inv, NEW r \in Requests, NEW pc \in {"loop", "h1 pool", "connect"}, Goto(r, pc),
         req[r].pc \in Unwritten \ Holding, pc # "loop" => req[r].error = NoError
  PROVE  /\ req' = [req EXCEPT ![r] = Moved(r, pc)] /\ RequestInv(r, Moved(r, pc))
         /\ Moved(r, pc).conn = req[r].conn /\ req[r].conn = None /\ ~Moved(r, pc).keep
         /\ Moved(r, pc).pc \notin {"connected", "sent", "body"}
<1> DEFINE p == req[r]
           q == Moved(r, pc)
<1>1. RequestInv(r, p) /\ p \in RequestState /\ req = [i \in Requests |-> req[i]] BY Zenon, StateOf
<1>2. req' = [req EXCEPT ![r] = q] BY Zenon, <1>1 DEF Goto, Moved
<1>3. q \in RequestState BY Zenon, <1>1 DEF RequestState, Unwritten, Moved
<1>4. /\ q.pc = pc /\ q.conn = p.conn /\ q.error = p.error /\ q.keep = p.keep
      /\ q.truncated = p.truncated /\ q.torn = p.torn /\ q.client = p.client /\ q.wrote = p.wrote /\ q.sent = p.sent
      /\ q.answers = p.answers /\ q.reuse = p.reuse
  BY Zenon, <1>1 DEF RequestState, Moved
<1> HIDE DEF q
<1>5. pc \in Unwritten /\ pc \notin Holding /\ pc \notin {"connected", "sent", "body", "release", "decide", "end"}
  BY Zenon DEF Unwritten, Holding
<1>6. pc \in Trying => pc # "loop" BY Zenon DEF Trying
<1>7. SentInv(r, q) BY Zenon, <1>1, <1>4, <1>5 DEF RequestInv, SentInv
<1>8. p.pc \notin {"body", "release", "decide", "end"} BY Zenon DEF Unwritten, Holding
<1>9. WroteInv(q) BY Zenon, <1>1, <1>4, <1>5, <1>8 DEF RequestInv, WroteInv
<1>10. ~p.keep /\ p.conn = None BY Zenon, <1>1, <1>8 DEF RequestInv
<1>11. RequestInv(r, q) BY Zenon, <1>1, <1>3, <1>4, <1>5, <1>6, <1>7, <1>9, <1>10 DEF RequestInv
<1> QED BY Zenon, <1>2, <1>4, <1>5, <1>10, <1>11 DEF q

LEMMA MovesOn ==
  ASSUME Inv, NEW r \in Requests, NEW pc \in {"loop", "h1 pool", "connect"}, Goto(r, pc),
         req[r].pc \in Unwritten \ Holding, pc # "loop" => req[r].error = NoError,
         UNCHANGED <<setup, conn>>
  PROVE  Inv'
BY Zenon, MovedOn, QuietStep

\* A request ends before an attempt or after the last one.
EndsAs(r, e, client, reuse) ==
  /\ req[r].pc \in {"start", "loop", "decide"} /\ e \in Errors
  /\ client \in {"none", "partial", "whole", "error"} /\ reuse \in BOOLEAN
  /\ client = "whole" => req[r].client = "whole"
  /\ reuse => client \in {"whole", "error"}
  /\ req' = [req EXCEPT ![r] = [req[r] EXCEPT !.pc = "end", !.error = e, !.client = client, !.reuse = reuse]]
  /\ UNCHANGED <<setup, conn>>

LEMMA Ends ==
  ASSUME Inv, NEW r \in Requests, NEW e, NEW client, NEW reuse, EndsAs(r, e, client, reuse)
  PROVE  Inv'
<1> DEFINE p == req[r]
           q == [req[r] EXCEPT !.pc = "end", !.error = e, !.client = client, !.reuse = reuse]
<1>1. RequestInv(r, p) /\ p \in RequestState BY Zenon, StateOf
<1>2. /\ req' = [req EXCEPT ![r] = q] /\ UNCHANGED <<setup, conn>>
      /\ p.pc \in {"start", "loop", "decide"} /\ e \in Errors
      /\ client \in {"none", "partial", "whole", "error"} /\ reuse \in BOOLEAN
      /\ client = "whole" => p.client = "whole"
      /\ reuse => client \in {"whole", "error"}
  BY Zenon DEF EndsAs
<1>3. q \in RequestState BY Zenon, <1>1, <1>2 DEF RequestState
<1>4. /\ q.pc = "end" /\ q.conn = p.conn /\ q.error = e /\ q.keep = p.keep
      /\ q.truncated = p.truncated /\ q.torn = p.torn /\ q.client = client /\ q.wrote = p.wrote /\ q.sent = p.sent
      /\ q.answers = p.answers /\ q.reuse = reuse
  BY Zenon, <1>1, <1>2 DEF RequestState
<1> HIDE DEF q
<1>5. "end" \notin Unwritten /\ "end" \notin Holding /\ "end" \notin Trying
      /\ "end" \notin {"connected", "sent", "body", "release", "decide"}
  BY Zenon DEF Unwritten, Holding, Trying
<1>6. SentInv(r, q) BY Zenon, <1>1, <1>4, <1>5 DEF RequestInv, SentInv
<1>7. WroteInv(q) BY Zenon, <1>1, <1>2, <1>4, <1>5 DEF RequestInv, WroteInv
<1>8. p.pc \notin Holding /\ p.pc # "release" /\ p.pc # "body" BY Zenon, <1>2 DEF Holding
<1>9. ~p.keep /\ p.conn = None BY Zenon, <1>1, <1>8 DEF RequestInv
<1>10. RequestInv(r, q) BY Zenon, <1>1, <1>3, <1>4, <1>5, <1>6, <1>7, <1>9 DEF RequestInv
<1> QED BY Zenon, <1>2, <1>4, <1>5, <1>9, <1>10, QuietStep

LEMMA FiltersPassKeeps == ASSUME Inv, NEW r \in Requests, FiltersPass(r) PROVE Inv'
<1>1. req[r].pc \in Unwritten \ Holding BY Zenon DEF FiltersPass, At, Unwritten, Holding
<1> QED BY Zenon, <1>1, MovesOn DEF FiltersPass

LEMMA NoErrorIsError == NoError \in Errors
BY Zenon DEF NoError, Errors

LEMMA FilterFailsKeeps == ASSUME Inv, NEW r \in Requests, FilterFails(r) PROVE Inv'
<1> DEFINE p == req[r]
<1>1. p \in RequestState /\ p.pc = "start" /\ RequestInv(r, p) BY Zenon, StateOf DEF FilterFails, At
<1>2. PICK source \in {"gone", "in"}, keep \in BOOLEAN :
        LET e == Error(source, "no")
            q == FailToProxy([req[r] EXCEPT !.error = e], e)
        IN req' = [req EXCEPT ![r] = Finish(q, keep /\ q.client = "error")]
  BY Zenon DEF FilterFails
<1> DEFINE e == Error(source, "no")
           p1 == [p EXCEPT !.error = e]
           q == FailToProxy(p1, e)
           client == IF source = "gone" \/ p.client # "none" THEN p.client ELSE "error"
           reuse == keep /\ client = "error"
<1>3. e \in Errors /\ e.source = source BY Zenon DEF Error, Errors
<1>4. p1.client = p.client BY Zenon, <1>1 DEF RequestState
<1>5. q = [p EXCEPT !.error = e, !.client = client] /\ q.client = client
  BY Zenon, <1>1, <1>3, <1>4 DEF FailToProxy, RequestState
<1>6. Finish(q, keep /\ q.client = "error") = [p EXCEPT !.pc = "end", !.error = e, !.client = client, !.reuse = reuse]
  BY Zenon, <1>1, <1>5 DEF Finish, RequestState
<1>7. client \in {"none", "partial", "whole", "error"} BY Zenon, <1>1 DEF RequestState
<1>8. reuse \in BOOLEAN /\ (reuse => client \in {"whole", "error"}) BY Zenon
<1>9. client = "whole" => p.client = "whole" BY Zenon
<1>10. req' = [req EXCEPT ![r] = [p EXCEPT !.pc = "end", !.error = e, !.client = client, !.reuse = reuse]]
  BY Zenon, <1>2, <1>6
<1>11. UNCHANGED <<setup, conn>> BY Zenon DEF FilterFails
<1> HIDE DEF client, reuse, e
<1>12. EndsAs(r, e, client, reuse) BY Zenon, <1>1, <1>3, <1>7, <1>8, <1>9, <1>10, <1>11 DEF EndsAs
<1> QED BY Zenon, <1>12, Ends

LEMMA RespondsKeeps == ASSUME Inv, NEW r \in Requests, Responds(r) PROVE Inv'
<1> DEFINE reuse == TRUE
           client == "error"
<1>1. req[r] \in RequestState /\ req[r].pc = "start" /\ req[r].error \in Errors
  BY Zenon, StateOf DEF Responds, At, RequestState
<1>2. Finish([req[r] EXCEPT !.client = client], reuse)
        = [req[r] EXCEPT !.pc = "end", !.error = req[r].error, !.client = client, !.reuse = reuse]
  BY Zenon, <1>1 DEF Finish, RequestState
<1>3. req' = [req EXCEPT ![r] = Finish([req[r] EXCEPT !.client = client], reuse)] /\ UNCHANGED <<setup, conn>>
  BY Zenon DEF Responds
<1>4. reuse \in BOOLEAN BY Zenon
<1>5. client \in {"none", "partial", "whole", "error"} /\ client # "whole" /\ client \in {"whole", "error"}
  BY Zenon
<1> HIDE DEF reuse, client
<1>6. EndsAs(r, req[r].error, client, reuse) BY Zenon, <1>1, <1>2, <1>3, <1>4, <1>5 DEF EndsAs
<1> QED BY Zenon, <1>6, Ends

LEMMA NoAttemptKeeps == ASSUME Inv, NEW r \in Requests, NoAttempt(r) PROVE Inv'
<1>1. /\ req[r] \in RequestState /\ req[r].pc = "loop" /\ req[r].error \in Errors
      /\ req[r].client \in {"none", "partial", "whole", "error"}
  BY Zenon, StateOf DEF NoAttempt, At, RequestState
<1>2. Finish(req[r], FALSE)
        = [req[r] EXCEPT !.pc = "end", !.error = req[r].error, !.client = req[r].client, !.reuse = FALSE]
  BY Zenon, <1>1 DEF Finish, RequestState
<1>3. req' = [req EXCEPT ![r] = Finish(req[r], FALSE)] /\ UNCHANGED <<setup, conn>> BY Zenon DEF NoAttempt
<1>4. EndsAs(r, req[r].error, req[r].client, FALSE) BY Zenon, <1>1, <1>2, <1>3 DEF EndsAs
<1> QED BY Zenon, <1>4, Ends

LEMMA SucceedsKeeps == ASSUME Inv, NEW r \in Requests, Succeeds(r) PROVE Inv'
<1> DEFINE p == req[r]
<1>1. /\ p \in RequestState /\ p.pc = "decide" /\ p.error \in Errors
      /\ p.client \in {"none", "partial", "whole", "error"}
  BY Zenon, StateOf DEF Succeeds, At, RequestState
<1>2. p.reuse \in BOOLEAN BY Zenon, <1>1 DEF RequestState
<1>3. PICK reuse \in BOOLEAN : reuse = p.reuse BY Zenon, <1>2
<1>4. Finish(p, p.reuse) = [p EXCEPT !.pc = "end", !.error = p.error, !.client = p.client, !.reuse = reuse]
  BY Zenon, <1>1, <1>3 DEF Finish, RequestState
<1>5. req' = [req EXCEPT ![r] = Finish(p, p.reuse)] BY Zenon DEF Succeeds
<1>6. UNCHANGED <<setup, conn>> BY Zenon DEF Succeeds
<1>7. reuse => p.client \in {"whole", "error"} BY Zenon, <1>3, StateOf DEF RequestInv, WroteInv
<1>8. EndsAs(r, p.error, p.client, reuse) BY Zenon, <1>1, <1>4, <1>5, <1>6, <1>7 DEF EndsAs
<1> QED BY Zenon, <1>8, Ends

LEMMA FailsToProxyKeeps == ASSUME Inv, NEW r \in Requests, FailsToProxy(r) PROVE Inv'
<1> DEFINE p == req[r]
           client == IF p.error.source = "gone" \/ p.client # "none" THEN p.client ELSE "error"
<1>1. /\ p \in RequestState /\ p.pc = "decide" /\ p.error \in Errors
      /\ client \in {"none", "partial", "whole", "error"}
  BY Zenon, StateOf DEF FailsToProxy, At, RequestState
<1>2. Finish(FailToProxy(p, p.error), FALSE)
        = [p EXCEPT !.pc = "end", !.error = p.error, !.client = client, !.reuse = FALSE]
  BY Zenon, <1>1 DEF Finish, FailToProxy, RequestState
<1>3. req' = [req EXCEPT ![r] = Finish(FailToProxy(p, p.error), FALSE)] /\ UNCHANGED <<setup, conn>>
  BY Zenon DEF FailsToProxy
<1>4. client = "whole" => p.client = "whole" BY Zenon
<1> HIDE DEF client
<1>5. EndsAs(r, p.error, client, FALSE) BY Zenon, <1>1, <1>2, <1>3, <1>4 DEF EndsAs
<1> QED BY Zenon, <1>5, Ends

LEMMA StartAttemptKeeps == ASSUME Inv, NEW r \in Requests, StartAttempt(r) PROVE Inv'
<1> DEFINE p == req[r]
           pc == CASE setup.alpn = "h1" -> "h1 pool"
                   [] setup.alpn = "custom" -> "custom pool"
                   [] OTHER -> "h2 pool"
           q == [p EXCEPT !.retries = @ + 1, !.error = NoError, !.keep = FALSE, !.pc = pc]
<1>1. RequestInv(r, p) /\ p \in RequestState /\ req = [i \in Requests |-> req[i]] BY Zenon, StateOf
<1>2. p.pc = "loop" /\ UNCHANGED <<setup, conn>> BY Zenon DEF StartAttempt, At
<1>3. req' = [req EXCEPT ![r] = q] BY Zenon, <1>1 DEF StartAttempt
<1>4. pc \in {"h1 pool", "custom pool", "h2 pool"} BY Zenon
<1> HIDE DEF pc
<1>5. pc \in Unwritten /\ NoError \in Errors BY Zenon, <1>4, NoErrorIsError DEF Unwritten
<1>6. p.retries + 1 \in Nat BY <1>1 DEF RequestState
<1>7. q \in RequestState BY Zenon, <1>1, <1>5, <1>6 DEF RequestState
<1>8. /\ q.pc = pc /\ q.conn = p.conn /\ q.error = NoError /\ ~q.keep
      /\ q.truncated = p.truncated /\ q.torn = p.torn /\ q.client = p.client /\ q.wrote = p.wrote /\ q.sent = p.sent
      /\ q.answers = p.answers /\ q.reuse = p.reuse
  BY Zenon, <1>1 DEF RequestState
<1> HIDE DEF q
<1>9. pc \in Unwritten /\ pc \notin Holding /\ pc \notin {"connected", "sent", "body", "release", "decide", "end"}
  BY Zenon, <1>4 DEF Unwritten, Holding
<1>10. p.pc \in Unwritten /\ p.pc \notin Holding /\ p.pc \notin {"body", "release", "decide", "end"}
  BY Zenon, <1>2 DEF Unwritten, Holding
<1>11. SentInv(r, q) BY Zenon, <1>1, <1>8, <1>9, <1>10 DEF RequestInv, SentInv
<1>12. WroteInv(q) BY Zenon, <1>1, <1>8, <1>9, <1>10 DEF RequestInv, WroteInv
<1>13. RequestInv(r, q) BY Zenon, <1>1, <1>7, <1>8, <1>9, <1>10, <1>11, <1>12 DEF RequestInv
<1> QED BY Zenon, <1>2, <1>3, <1>8, <1>9, <1>13, QuietStep

\* An attempt fails before it has a connection.
LEMMA FailsEarly ==
  ASSUME Inv, NEW r \in Requests, req[r].pc \in {"loop", "connect"}, NEW e \in Errors, NEW n \in Nat,
         req' = [req EXCEPT ![r] = [req[r] EXCEPT !.retries = n, !.keep = FALSE, !.pc = "decide", !.error = e]],
         UNCHANGED <<setup, conn>>
  PROVE  Inv'
<1> DEFINE p == req[r]
           q == [req[r] EXCEPT !.retries = n, !.keep = FALSE, !.pc = "decide", !.error = e]
<1>1. RequestInv(r, p) /\ p \in RequestState BY Zenon, StateOf
<1>2. req' = [req EXCEPT ![r] = q] BY Zenon
<1>3. q \in RequestState BY Zenon, <1>1 DEF RequestState
<1>4. /\ q.pc = "decide" /\ q.conn = p.conn /\ ~q.keep
      /\ q.truncated = p.truncated /\ q.torn = p.torn /\ q.client = p.client /\ q.wrote = p.wrote /\ q.sent = p.sent
      /\ q.answers = p.answers /\ q.reuse = p.reuse
  BY Zenon, <1>1 DEF RequestState
<1> HIDE DEF q
<1>5. p.pc \in Unwritten /\ p.pc \notin Holding /\ p.pc \notin {"body", "release", "decide", "end"}
  BY Zenon DEF Unwritten, Holding
<1>6. "decide" \notin Holding /\ "decide" \notin Trying /\ "decide" \notin {"connected", "sent", "body", "end"}
  BY Zenon DEF Holding, Trying
<1>7. SentInv(r, q) BY Zenon, <1>1, <1>4, <1>5 DEF RequestInv, SentInv
<1>8. WroteInv(q) BY Zenon, <1>1, <1>4, <1>5, <1>6 DEF RequestInv, WroteInv
<1>9. RequestInv(r, q) BY Zenon, <1>1, <1>3, <1>4, <1>5, <1>6, <1>7, <1>8 DEF RequestInv
<1> QED BY Zenon, <1>2, <1>4, <1>6, <1>9, QuietStep

LEMMA NoPeerKeeps == ASSUME Inv, NEW r \in Requests, NoPeer(r) PROVE Inv'
<1>1. req[r] \in RequestState /\ req = [i \in Requests |-> req[i]] BY Zenon, StateOf
<1>2. req[r].pc = "loop" /\ req[r].retries + 1 \in Nat /\ UNCHANGED <<setup, conn>>
  BY <1>1 DEF NoPeer, At, RequestState
<1>3. Error("in", "no") \in Errors BY Zenon DEF Error, Errors
<1>4. req' = [req EXCEPT ![r] = [req[r] EXCEPT !.retries = req[r].retries + 1, !.keep = FALSE, !.pc = "decide",
                                              !.error = Error("in", "no")]]
  BY Zenon, <1>1 DEF NoPeer, RequestState
<1> QED BY Zenon, <1>2, <1>3, <1>4, FailsEarly

LEMMA ConnectFailsKeeps == ASSUME Inv, NEW r \in Requests, ConnectFails(r) PROVE Inv'
<1> DEFINE p == req[r]
<1>1. p \in RequestState /\ req = [i \in Requests |-> req[i]] /\ RequestInv(r, p) BY Zenon, StateOf
<1>2. p.pc = "connect" /\ p.retries \in Nat /\ UNCHANGED <<setup, conn>>
  BY Zenon, <1>1 DEF ConnectFails, At, RequestState
<1>3. PICK retry \in {"yes", "no"} : req' = [req EXCEPT ![r].error = Error("up", retry), ![r].pc = "decide"]
  BY Zenon DEF ConnectFails
<1>4. Error("up", retry) \in Errors BY Zenon DEF Error, Errors
<1>5. ~p.keep /\ p.keep \in BOOLEAN BY Zenon, <1>1, <1>2 DEF RequestInv, RequestState
<1>6. req' = [req EXCEPT ![r] = [p EXCEPT !.retries = p.retries, !.keep = FALSE, !.pc = "decide",
                                         !.error = Error("up", retry)]]
  <2> DEFINE e == Error("up", retry)
             q == [p EXCEPT !.error = e, !.pc = "decide"]
  <2>1. req' = [req EXCEPT ![r] = q] BY Zenon, <1>1, <1>3
  <2> HIDE DEF e
  <2>2. q = [p EXCEPT !.retries = p.retries, !.keep = FALSE, !.pc = "decide", !.error = e]
    BY Zenon, <1>1, <1>5 DEF RequestState
  <2> QED BY Zenon, <2>1, <2>2 DEF e
<1> QED BY Zenon, <1>2, <1>4, <1>6, FailsEarly

-----------------------------------------------------------------------------
(* The pools.                                                              *)

LEMMA NoCustomKeeps == ASSUME Inv, NEW r \in Requests, NoCustom(r) PROVE Inv'
<1>1. req[r].pc \in Unwritten \ Holding /\ req[r].pc \in Trying
  BY Zenon DEF NoCustom, At, Unwritten, Holding, Trying
<1>2. req[r].error = NoError BY Zenon, <1>1, StateOf DEF RequestInv
<1> QED BY Zenon, <1>1, <1>2, MovesOn DEF NoCustom

LEMMA MovesAndLoosens ==
  ASSUME Inv, None \notin Conns, NEW r \in Requests, NEW pc \in {"h1 pool", "connect"}, Goto(r, pc),
         req[r].pc \in {"h1 pool", "h2 pool"}, setup' = setup,
         conn' = [c \in Conns |-> conn'[c]], \A c \in Conns : Loosened(c)
  PROVE  Inv'
<1> DEFINE q == Moved(r, pc)
<1>1. req[r].pc \in Unwritten \ Holding /\ req[r].pc \in Trying BY Zenon DEF Unwritten, Holding, Trying
<1>2. req[r].error = NoError BY Zenon, <1>1, StateOf DEF RequestInv
<1>3. req' = [req EXCEPT ![r] = q] /\ RequestInv(r, q) /\ q.conn = req[r].conn /\ req[r].conn = None
  BY Zenon, <1>1, <1>2, MovedOn
<1> HIDE DEF q
<1>4. /\ req' = [i \in Requests |-> req'[i]] /\ req'[r] = q
      /\ \A i \in Requests \ {r} : req'[i] = req[i]
      /\ \A i \in Requests : RequestInv(i, req[i])'
  BY Zenon, <1>3, RequestStep
<1>5. \A i \in Requests : req'[i].conn = req[i].conn /\ (req[i].conn # None => req'[i] = req[i])
  BY Zenon, <1>3, <1>4
<1> QED BY Zenon, <1>4, <1>5, Loosens

LEMMA NoH2Keeps == ASSUME ConstantsOK, Inv, NEW r \in Requests, NoH2(r) PROVE Inv'
<1>1. conn' = [c \in Conns |-> conn'[c]] /\ setup' = setup BY Zenon DEF NoH2
<1>2. ASSUME NEW c \in Conns PROVE Loosened(c)
  <2>1. IsConn(conn[c]) BY Zenon DEF Inv, IdleInv
  <2>2. conn'[c] = IF ~Usable(c, "h2") THEN conn[c]
                   ELSE IF InUse(c) THEN [conn[c] EXCEPT !.pooled = FALSE] ELSE FreeConn
    BY Zenon DEF NoH2
  <2>3. CASE conn'[c] = conn[c] BY Zenon, <2>1, <2>3 DEF Loosened
  <2>4. CASE conn'[c] = [conn[c] EXCEPT !.pooled = FALSE]
    BY Zenon, <2>1, <2>4 DEF Loosened, IsConn
  <2> QED BY Zenon, <2>2, <2>3, <2>4 DEF Loosened
<1>3. PICK pc \in {"h1 pool", "connect"} : Goto(r, pc) BY Zenon DEF NoH2
<1>4. req[r].pc \in {"h1 pool", "h2 pool"} /\ None \notin Conns BY Zenon DEF NoH2, At, ConstantsOK
<1> QED BY Zenon, <1>1, <1>2, <1>3, <1>4, MovesAndLoosens

\* Nobody has a pooled connection that carries one request at a time.
LEMMA PooledIsFree ==
  ASSUME Inv, NEW c \in Conns, conn[c].pooled, conn[c].proto # "h2", None \notin Conns
  PROVE  ~InUse(c) /\ conn[c].waiting = <<>> /\ conn[c].proto # "none"
<1>1. ASSUME NEW i \in Requests, req[i].conn = c PROVE FALSE
  BY Zenon, <1>1 DEF Inv, HeldInv, Of
<1> QED BY Zenon, <1>1 DEF InUse, Inv, IdleInv

LEMMA NoH1Keeps == ASSUME ConstantsOK, Inv, NEW r \in Requests, NoH1(r) PROVE Inv'
<1>1. req[r].pc \in {"h1 pool", "h2 pool"} /\ None \notin Conns /\ Goto(r, "connect") /\ setup' = setup
  BY Zenon DEF NoH1, At, ConstantsOK
<1>2. conn = [c \in Conns |-> conn[c]] /\ \A c \in Conns : IsConn(conn[c]) BY Zenon DEF Inv, IdleInv
<1>3. CASE conn' = conn
  <2>1. conn' = [c \in Conns |-> conn'[c]] BY Zenon, <1>2, <1>3
  <2>2. \A c \in Conns : Loosened(c) BY Zenon, <1>2, <1>3 DEF Loosened
  <2> QED BY Zenon, <1>1, <2>1, <2>2, MovesAndLoosens
<1>4. CASE \E c \in Conns : Usable(c, "h1") /\ conn' = [conn EXCEPT ![c] = FreeConn]
  <2>1. PICK c \in Conns : Usable(c, "h1") /\ conn' = [conn EXCEPT ![c] = FreeConn] BY Zenon, <1>4
  <2>2. conn' = [d \in Conns |-> conn'[d]] /\ conn'[c] = FreeConn /\ \A d \in Conns \ {c} : conn'[d] = conn[d]
    BY Zenon, <1>2, <2>1
  <2>3. "h1" # "h2" BY Zenon
  <2>4. ~InUse(c) BY Zenon, <1>1, <2>1, <2>3, PooledIsFree DEF Usable
  <2>5. \A d \in Conns : Loosened(d) BY Zenon, <1>2, <2>2, <2>4 DEF Loosened
  <2> QED BY Zenon, <1>1, <2>2, <2>5, MovesAndLoosens
<1> QED BY Zenon, <1>3, <1>4 DEF NoH1

\* A request gets connection c, which nobody else has unless it carries streams.
LEMMA Connects ==
  ASSUME Inv, None \notin Conns, NEW r \in Requests, req[r].pc \in {"h1 pool", "h2 pool", "custom pool", "connect"},
         NEW c \in Conns, NEW reused \in BOOLEAN, Connected(r, c, reused),
         NEW x, conn' = [conn EXCEPT ![c] = x], setup' = setup, IdleInv(x), x.proto # "none",
         x.proto # "h2" => ~x.pooled /\ x.waiting = <<>>,
         InUse(c) => conn[c].proto = "h2" /\ x.proto = "h2"
  PROVE  Inv'
<1> DEFINE p == req[r]
           q == [req[r] EXCEPT !.pc = "connected", !.conn = c, !.reused = reused]
<1>1. RequestInv(r, p) /\ p \in RequestState /\ req = [i \in Requests |-> req[i]] BY Zenon, StateOf
<1>2. req' = [req EXCEPT ![r] = q] BY Zenon, <1>1 DEF Connected
<1>3. q \in RequestState BY Zenon, <1>1 DEF RequestState, Unwritten
<1>4. /\ q.pc = "connected" /\ q.conn = c /\ q.error = p.error /\ q.keep = p.keep
      /\ q.truncated = p.truncated /\ q.torn = p.torn /\ q.client = p.client /\ q.wrote = p.wrote /\ q.sent = p.sent
      /\ q.answers = p.answers /\ q.reuse = p.reuse
  BY Zenon, <1>1 DEF RequestState
<1> HIDE DEF q
<1>5. "connected" \in Unwritten /\ "connected" \in Holding /\ "connected" \notin {"sent", "body", "release", "decide", "end"}
  BY Zenon DEF Unwritten, Holding
<1>6. p.pc \in Unwritten /\ p.pc \in Trying /\ p.pc \notin Holding /\ p.pc \notin {"body", "release", "decide", "end"}
  BY Zenon DEF Unwritten, Trying, Holding
<1>7. SentInv(r, q) BY Zenon, <1>1, <1>4, <1>5, <1>6 DEF RequestInv, SentInv
<1>8. WroteInv(q) BY Zenon, <1>1, <1>4, <1>5, <1>6 DEF RequestInv, WroteInv
<1>9. ~p.keep /\ p.error = NoError BY Zenon, <1>1, <1>6 DEF RequestInv
<1>10. RequestInv(r, q) BY Zenon, <1>1, <1>3, <1>4, <1>5, <1>7, <1>8, <1>9 DEF RequestInv
<1>11. HeldInv(r, q, x) BY Zenon, <1>4, <1>5 DEF HeldInv
<1>12. \A i \in Requests \ {r} : req[i].conn = c => conn[c].proto = "h2" /\ x.proto = "h2"
  BY Zenon DEF InUse
<1>13. Exchanges(r, q, c, x) BY Zenon, <1>4, <1>11, <1>12 DEF Exchanges
<1> QED BY Zenon, <1>2, <1>10, <1>13, ConnStep

\* A connection that carries one request at a time is taken from a pool.
LEMMA TakesPooled ==
  ASSUME ConstantsOK, Inv, NEW r \in Requests, NEW c \in Conns, NEW proto \in {"h1", "custom"}, Usable(c, proto),
         req[r].pc \in {"h1 pool", "custom pool"}, conn' = [conn EXCEPT ![c].pooled = FALSE], Connected(r, c, TRUE),
         setup' = setup
  PROVE  Inv'
<1> DEFINE x == [conn[c] EXCEPT !.pooled = FALSE]
<1>1. IsConn(conn[c]) /\ conn = [d \in Conns |-> conn[d]] /\ None \notin Conns
  BY Zenon DEF Inv, IdleInv, ConstantsOK
<1>2. conn[c].proto = proto /\ conn[c].proto # "h2" /\ conn[c].pooled BY Zenon DEF Usable
<1>3. ~InUse(c) /\ conn[c].waiting = <<>> BY Zenon, <1>1, <1>2, PooledIsFree
<1>4. conn' = [conn EXCEPT ![c] = x] BY Zenon, <1>1
<1>5. x.proto = proto /\ ~x.pooled /\ x.waiting = <<>> /\ IsConn(x) BY Zenon, <1>1, <1>2, <1>3 DEF IsConn
<1> HIDE DEF x
<1>6. IdleInv(x) /\ x.proto # "none" BY Zenon, <1>5 DEF IdleInv
<1>7. TRUE \in BOOLEAN BY Zenon
<1> QED BY Zenon, <1>1, <1>3, <1>4, <1>5, <1>6, <1>7, Connects

LEMMA ReuseH1Keeps == ASSUME ConstantsOK, Inv, NEW r \in Requests, NEW c \in Conns, ReuseH1(r, c) PROVE Inv'
BY Zenon, TakesPooled DEF ReuseH1, At

LEMMA ReuseCustomKeeps == ASSUME ConstantsOK, Inv, NEW r \in Requests, NEW c \in Conns, ReuseCustom(r, c) PROVE Inv'
BY Zenon, TakesPooled DEF ReuseCustom, At

LEMMA ReuseH2Keeps == ASSUME ConstantsOK, Inv, NEW r \in Requests, NEW c \in Conns, ReuseH2(r, c) PROVE Inv'
<1> DEFINE room == Len(conn[c].waiting) + 1 < MaxStreams
           x == [conn[c] EXCEPT !.pooled = room, !.waiting = Append(@, r)]
<1>1. IsConn(conn[c]) /\ conn = [d \in Conns |-> conn[d]] /\ None \notin Conns
  BY Zenon DEF Inv, IdleInv, ConstantsOK
<1>2. conn[c].proto = "h2" /\ req[r].pc = "h2 pool" /\ setup' = setup /\ Connected(r, c, TRUE)
  BY Zenon DEF ReuseH2, Usable, At
<1>3. conn' = [conn EXCEPT ![c] = x] BY Zenon, <1>1 DEF ReuseH2
<1> HIDE DEF room
<1>4. x.proto = "h2" /\ IsConn(x) BY Zenon, <1>1, <1>2 DEF IsConn
<1> HIDE DEF x
<1>5. IdleInv(x) /\ x.proto # "none" BY Zenon, <1>4 DEF IdleInv
<1>6. TRUE \in BOOLEAN BY Zenon
<1> QED BY Zenon, <1>1, <1>2, <1>3, <1>4, <1>5, <1>6, Connects

LEMMA ConnectKeeps == ASSUME ConstantsOK, Inv, NEW r \in Requests, NEW c \in Conns, Connect(r, c) PROVE Inv'
<1> DEFINE room == Negotiated = "h2" /\ 1 < MaxStreams
           first == IF Negotiated = "h2" THEN <<r>> ELSE <<>>
           x == [proto |-> Negotiated, open |-> TRUE, pooled |-> room, waiting |-> first]
<1>1. None \notin Conns /\ req[r].pc = "connect" /\ setup' = setup /\ Connected(r, c, FALSE)
      /\ conn' = [conn EXCEPT ![c] = x]
  BY Zenon DEF Connect, At, ConstantsOK
<1>2. Negotiated \in Protocols BY Zenon DEF Negotiated, Protocols
<1>3. room \in BOOLEAN /\ (Negotiated # "h2" => ~room /\ first = <<>>) BY Zenon
<1> HIDE DEF room, first
<1>4. x.proto = Negotiated /\ x.pooled = room /\ x.waiting = first /\ IsConn(x) BY Zenon, <1>2, <1>3 DEF IsConn
<1> HIDE DEF x
<1>5. Negotiated # "none" BY Zenon, <1>2 DEF Protocols
<1>6. IdleInv(x) /\ x.proto # "none" /\ (x.proto # "h2" => ~x.pooled /\ x.waiting = <<>>)
  BY Zenon, <1>3, <1>4, <1>5 DEF IdleInv
<1>7. ASSUME NEW i \in Requests, req[i].conn = c PROVE FALSE
  BY Zenon, <1>1, <1>7 DEF Inv, HeldInv, Of, Connect
<1>8. ~InUse(c) BY Zenon, <1>7 DEF InUse
<1>9. FALSE \in BOOLEAN BY Zenon
<1> QED BY Zenon, <1>1, <1>6, <1>8, <1>9, Connects

-----------------------------------------------------------------------------
(* The attempt.                                                            *)

LEMMA HasConn ==
  ASSUME Inv, NEW r \in Requests, req[r].pc \in Holding
  PROVE  /\ req[r].conn \in Conns /\ req[r].conn # None /\ Of(r) = conn[req[r].conn]
         /\ HeldInv(r, req[r], Of(r)) /\ IdleInv(Of(r)) /\ IsConn(Of(r))
         /\ \A i \in Requests \ {r} : req[i].conn = req[r].conn => Of(r).proto = "h2"
         /\ conn = [c \in Conns |-> conn[c]]
<1>1. RequestInv(r, req[r]) /\ req[r] \in RequestState BY Zenon, StateOf
<1>2. req[r].conn # None BY Zenon, <1>1 DEF RequestInv
<1>3. req[r].conn \in Conns BY Zenon, <1>1, <1>2 DEF RequestState
<1>4. HeldInv(r, req[r], Of(r)) /\ IdleInv(conn[req[r].conn]) /\ conn = [c \in Conns |-> conn[c]]
  BY Zenon, <1>2, <1>3 DEF Inv
<1>5. ASSUME NEW i \in Requests \ {r}, req[i].conn = req[r].conn PROVE Of(r).proto = "h2"
  BY Zenon, <1>2, <1>5 DEF Inv, AloneInv
<1> QED BY Zenon, <1>2, <1>3, <1>4, <1>5 DEF Of, IdleInv

\* An attempt fails; not for a retry if the client has the response header.
LEMMA FailsKeeps ==
  ASSUME Inv, NEW r \in Requests, req[r].pc \in {"connected", "sent", "body"}, NEW e \in Errors, Fails(r, e),
         At(r, "body") => e.retry = "no", UNCHANGED <<setup, conn>>
  PROVE  Inv'
<1> DEFINE p == req[r]
           q == [req[r] EXCEPT !.error = e, !.pc = "release"]
<1>1. RequestInv(r, p) /\ p \in RequestState /\ req = [i \in Requests |-> req[i]] BY Zenon, StateOf
<1>2. req' = [req EXCEPT ![r] = q] BY Zenon, <1>1 DEF Fails
<1>3. q \in RequestState BY Zenon, <1>1 DEF RequestState
<1>4. /\ q.pc = "release" /\ q.conn = p.conn /\ q.error = e /\ q.keep = p.keep
      /\ q.truncated = p.truncated /\ q.torn = p.torn /\ q.client = p.client /\ q.wrote = p.wrote /\ q.sent = p.sent
      /\ q.answers = p.answers /\ q.reuse = p.reuse
  BY Zenon, <1>1 DEF RequestState
<1> HIDE DEF q
<1>5. "release" \in Holding /\ "release" \notin Trying /\ "release" \notin Unwritten
      /\ "release" \notin {"connected", "sent", "body", "decide", "end"}
  BY Zenon DEF Holding, Trying, Unwritten
<1>6. p.pc \in Holding /\ p.pc \notin {"release", "decide", "end"} BY Zenon DEF Holding
<1>7. p.wrote # {} => e.retry = "no" BY Zenon, <1>1, <1>6 DEF RequestInv, WroteInv, At
<1>8. SentInv(r, q) BY Zenon, <1>1, <1>4, <1>5 DEF RequestInv, SentInv
<1>9. WroteInv(q) BY Zenon, <1>1, <1>4, <1>5, <1>6, <1>7 DEF RequestInv, WroteInv
<1>10. ~p.keep BY Zenon, <1>1, <1>6 DEF RequestInv
<1>11. RequestInv(r, q) BY Zenon, <1>1, <1>3, <1>4, <1>5, <1>6, <1>8, <1>9, <1>10 DEF RequestInv
<1> QED BY Zenon, <1>2, <1>4, <1>5, <1>10, <1>11, QuietStep

LEMMA ErrorIsError ==
  ASSUME NEW source \in {"gone", "in", "up"}, NEW retry \in {"no", "yes", "reused only"}
  PROVE  Error(source, retry) \in Errors /\ Error(source, retry).retry = retry
BY Zenon DEF Error, Errors

LEMMA AttemptFailsKeeps ==
  ASSUME Inv, NEW r \in Requests,
         \/ RequestRefused(r) \/ WriteFails(r) \/ ReadHeaderClosed(r) \/ ReadHeaderFails(r)
         \/ StreamRefused(r) \/ BodyFails(r) \/ DownstreamFails(r)
  PROVE  Inv'
<1>1. \E source \in {"gone", "in", "up"}, retry \in {"no", "yes", "reused only"} :
        Fails(r, Error(source, retry)) /\ (At(r, "body") => retry = "no")
  <2>1. At(r, "connected") => ~At(r, "body") BY Zenon DEF At
  <2>2. At(r, "sent") => ~At(r, "body") BY Zenon DEF At
  <2>3. CASE WriteFails(r)
    <3>1. PICK retry \in {"no", "yes"} : Fails(r, Error("up", retry)) BY Zenon, <2>3 DEF WriteFails
    <3> QED BY Zenon, <2>1, <2>3, <3>1 DEF WriteFails
  <2>4. CASE RequestRefused(r) BY Zenon, <2>4 DEF RequestRefused
  <2>5. CASE ReadHeaderClosed(r) \/ ReadHeaderFails(r) \/ StreamRefused(r)
    BY Zenon, <2>2, <2>5 DEF ReadHeaderClosed, ReadHeaderFails, StreamRefused
  <2>6. CASE BodyFails(r) \/ DownstreamFails(r) BY Zenon, <2>6 DEF BodyFails, DownstreamFails
  <2> QED BY Zenon, <2>3, <2>4, <2>5, <2>6
<1>2. req[r].pc \in {"connected", "sent", "body"} /\ UNCHANGED <<setup, conn>>
  BY Zenon DEF RequestRefused, WriteFails, ReadHeaderClosed, ReadHeaderFails, StreamRefused, BodyFails,
               DownstreamFails, At
<1> QED BY Zenon, <1>1, <1>2, ErrorIsError, FailsKeeps

LEMMA DowngradeKeeps == ASSUME Inv, NEW r \in Requests, Downgrade(r) PROVE Inv'
<1> DEFINE e == [Error("up", "yes") EXCEPT !.downgrade = TRUE]
<1>1. e \in Errors BY Zenon DEF Error, Errors
<1>2. Fails(r, e) /\ UNCHANGED <<setup, conn>> /\ req[r].pc = "sent" BY Zenon DEF Downgrade, At
<1> HIDE DEF e
<1>3. ~At(r, "body") /\ req[r].pc \in {"connected", "sent", "body"} BY Zenon, <1>2 DEF At
<1> QED BY Zenon, <1>1, <1>2, <1>3, FailsKeeps

LEMMA BodyEndsKeeps == ASSUME Inv, NEW r \in Requests, BodyEnds(r) PROVE Inv'
<1> DEFINE p == req[r]
<1>1. RequestInv(r, p) /\ p \in RequestState /\ req = [i \in Requests |-> req[i]] BY Zenon, StateOf
<1>2. PICK keep \in BOOLEAN, reuse \in BOOLEAN :
        req' = [req EXCEPT ![r].pc = "release", ![r].client = "whole", ![r].keep = keep, ![r].reuse = reuse]
  BY Zenon DEF BodyEnds
<1> DEFINE q == [p EXCEPT !.pc = "release", !.client = "whole", !.keep = keep, !.reuse = reuse]
<1>3. req' = [req EXCEPT ![r] = q] BY Zenon, <1>1, <1>2
<1>4. q \in RequestState BY Zenon, <1>1 DEF RequestState
<1>5. /\ q.pc = "release" /\ q.conn = p.conn /\ q.error = p.error /\ q.client = "whole"
      /\ q.truncated = p.truncated /\ q.torn = p.torn /\ q.wrote = p.wrote /\ q.sent = p.sent /\ q.answers = p.answers
  BY Zenon, <1>1 DEF RequestState
<1> HIDE DEF q
<1>6. p.pc = "body" /\ UNCHANGED <<setup, conn>> BY Zenon DEF BodyEnds, At
<1>7. "release" \in Holding /\ "release" \notin Trying /\ "release" \notin Unwritten
      /\ "release" \notin {"connected", "sent", "body", "decide", "end"} /\ "body" \in Trying /\ "body" \in Holding
  BY Zenon DEF Holding, Trying, Unwritten
<1>8. p.error = NoError BY Zenon, <1>1, <1>6, <1>7 DEF RequestInv
<1>9. p.error.retry = "none" BY <1>8 DEF NoError
<1>10. SentInv(r, q) BY Zenon, <1>1, <1>5, <1>7 DEF RequestInv, SentInv
<1>11. WroteInv(q) BY Zenon, <1>1, <1>5, <1>6, <1>7, <1>9 DEF RequestInv, WroteInv
<1>12. RequestInv(r, q) BY Zenon, <1>1, <1>4, <1>5, <1>6, <1>7, <1>10, <1>11 DEF RequestInv
<1> QED BY Zenon, <1>3, <1>5, <1>6, <1>7, <1>12, QuietStep DEF At

\* A request is written to its connection, or its answer is read from it.
Waits(r, w) ==
  IF Of(r).proto = "h2" THEN conn' = conn
  ELSE conn' = [conn EXCEPT ![req[r].conn] = [conn[req[r].conn] EXCEPT !.waiting = w]]

Carried(r, q) == \E c \in Conns : \E x : Exchanges(r, q, c, x)

LEMMA CarriedStep ==
  ASSUME Inv, None \notin Conns, NEW r \in Requests, NEW q, req' = [req EXCEPT ![r] = q], RequestInv(r, q),
         Carried(r, q)
  PROVE  Inv'
BY Zenon, ConnStep DEF Carried

LEMMA WaitingConn ==
  ASSUME Inv, NEW r \in Requests, req[r].pc \in Holding, NEW q, q.conn = req[r].conn, ~q.keep, NEW w, Waits(r, w), setup' = setup,
         q.pc \in {"sent", "body"}, w = IF q.pc = "sent" THEN <<r>> ELSE <<>>
  PROVE  Carried(r, q)
<1>1. PICK c \in Conns :
        /\ c = req[r].conn /\ Of(r) = conn[c] /\ HeldInv(r, req[r], conn[c]) /\ IdleInv(conn[c]) /\ IsConn(conn[c])
        /\ \A i \in Requests \ {r} : req[i].conn = c => conn[c].proto = "h2"
        /\ conn = [d \in Conns |-> conn[d]]
  <2>1. req[r].conn \in Conns /\ Of(r) = conn[req[r].conn] /\ conn = [d \in Conns |-> conn[d]]
    BY Zenon, HasConn
  <2>2. HeldInv(r, req[r], Of(r)) /\ IdleInv(Of(r)) /\ IsConn(Of(r)) BY Zenon, HasConn
  <2>3. \A i \in Requests \ {r} : req[i].conn = req[r].conn => Of(r).proto = "h2" BY Zenon, HasConn
  <2> QED BY Zenon, <2>1, <2>2, <2>3
<1>2. \E x : /\ conn' = [conn EXCEPT ![c] = x] /\ IdleInv(x) /\ HeldInv(r, q, x)
              /\ \A i \in Requests \ {r} : req[i].conn = c => conn[c].proto = "h2" /\ x.proto = "h2"
  <2>1. CASE conn[c].proto = "h2"
    <3>1. conn' = [conn EXCEPT ![c] = conn[c]] BY Zenon, <1>1, <2>1 DEF Waits
    <3>2. HeldInv(r, q, conn[c]) BY Zenon, <2>1 DEF HeldInv
    <3> QED BY Zenon, <1>1, <2>1, <3>1, <3>2
  <2>2. CASE conn[c].proto # "h2"
    <3> DEFINE x == [conn[c] EXCEPT !.waiting = w]
    <3>1. conn' = [conn EXCEPT ![c] = x] BY Zenon, <1>1, <2>2 DEF Waits
    <3>2. IsConn(x) /\ x.proto = conn[c].proto /\ x.pooled = conn[c].pooled /\ x.waiting = w BY Zenon, <1>1 DEF IsConn
    <3> HIDE DEF x
    <3>3. ~conn[c].pooled /\ conn[c].proto # "none" BY Zenon, <1>1, <2>2 DEF HeldInv
    <3>4. IdleInv(x) BY Zenon, <3>2, <3>3 DEF IdleInv
    <3>5. HeldInv(r, q, x) BY Zenon, <3>2, <3>3 DEF HeldInv
    <3> QED BY Zenon, <1>1, <2>2, <3>1, <3>4, <3>5
  <2> QED BY Zenon, <2>1, <2>2
<1>3. q.conn = c BY Zenon, <1>1
<1>4. \E x : Exchanges(r, q, c, x) BY Zenon, <1>2, <1>3 DEF Exchanges
<1> QED BY Zenon, <1>4 DEF Carried

LEMMA WriteRequestKeeps == ASSUME ConstantsOK, Inv, NEW r \in Requests, WriteRequest(r) PROVE Inv'
<1> DEFINE p == req[r]
           c == p.conn
           q == [p EXCEPT !.pc = "sent", !.sent = p.sent \union {p.retries}, !.torn = p.torn \/ p.truncated]
<1>1. RequestInv(r, p) /\ p \in RequestState /\ req = [i \in Requests |-> req[i]] BY Zenon, StateOf
<1>2. p.pc = "connected" /\ setup' = setup /\ None \notin Conns BY Zenon DEF WriteRequest, At, ConstantsOK
<1>3. req' = [req EXCEPT ![r] = q] BY Zenon, <1>1 DEF WriteRequest
<1>4. (p.torn \/ p.truncated) \in BOOLEAN BY Zenon
<1>5. q \in RequestState
  <2>1. PICK sent \in SUBSET Nat : sent = p.sent \union {p.retries} BY Zenon, <1>1 DEF RequestState
  <2>2. PICK torn \in BOOLEAN : torn = (p.torn \/ p.truncated) BY Zenon, <1>4
  <2>3. q = [p EXCEPT !.pc = "sent", !.sent = sent, !.torn = torn] BY Zenon, <2>1, <2>2
  <2> HIDE DEF p, q
  <2>4. [p EXCEPT !.pc = "sent", !.sent = sent, !.torn = torn] \in RequestState
    BY Zenon, <1>1 DEF RequestState
  <2> QED BY Zenon, <2>3, <2>4
<1>6. /\ q.pc = "sent" /\ q.conn = c /\ q.error = p.error /\ q.keep = p.keep
      /\ q.truncated = p.truncated /\ q.torn = (p.torn \/ p.truncated) /\ q.client = p.client /\ q.wrote = p.wrote
      /\ q.sent = p.sent \union {p.retries} /\ q.answers = p.answers /\ q.reuse = p.reuse
  BY Zenon, <1>1 DEF RequestState
<1> HIDE DEF q
<1>7. /\ "connected" \in Unwritten /\ "connected" \in Trying /\ "connected" \in Holding
      /\ "sent" \notin Unwritten /\ "sent" \in Holding
      /\ "sent" \notin {"body", "release", "decide", "end"} /\ "connected" \notin {"body", "release", "decide", "end"}
  BY Zenon DEF Unwritten, Holding, Trying
<1>8. ~p.torn /\ ~p.truncated /\ (r \notin setup.idempotent => p.sent = {})
  BY Zenon, <1>1, <1>2, <1>7 DEF RequestInv, SentInv
<1>9. r \notin setup.idempotent => q.sent = {p.retries} BY Zenon, <1>6, <1>8
<1>10. SentInv(r, q) BY Zenon, <1>6, <1>7, <1>8, <1>9 DEF SentInv
<1>11. WroteInv(q) BY Zenon, <1>1, <1>2, <1>6, <1>7 DEF RequestInv, WroteInv
<1>12. ~p.keep /\ p.error = NoError /\ c # None BY Zenon, <1>1, <1>2, <1>7 DEF RequestInv
<1>13. RequestInv(r, q) BY Zenon, <1>1, <1>5, <1>6, <1>7, <1>10, <1>11, <1>12 DEF RequestInv
<1>14. /\ c \in Conns /\ Of(r) = conn[c] /\ HeldInv(r, p, Of(r)) /\ conn = [d \in Conns |-> conn[d]]
  BY Zenon, <1>2, <1>7, HasConn
<1>15. Of(r).proto # "h2" => conn[c].waiting = <<>> BY Zenon, <1>2, <1>14 DEF HeldInv
<1>16. Of(r).proto # "h2" => conn' = [conn EXCEPT ![c] = [conn[c] EXCEPT !.waiting = Append(conn[c].waiting, r)]]
  BY Zenon, <1>14 DEF WriteRequest
<1>17. Append(<<>>, r) = <<r>> OBVIOUS
<1>18. Waits(r, <<r>>) BY Zenon, <1>15, <1>16, <1>17 DEF WriteRequest, Waits
<1>19. p.pc \in Holding /\ ~q.keep /\ q.pc \in {"sent", "body"} BY Zenon, <1>2, <1>6, <1>7, <1>12
<1>20. <<r>> = IF q.pc = "sent" THEN <<r>> ELSE <<>> BY Zenon, <1>6
<1>21. Carried(r, q) BY Zenon, <1>2, <1>6, <1>18, <1>19, <1>20, WaitingConn
<1> QED BY Zenon, <1>2, <1>3, <1>13, <1>21, CarriedStep

LEMMA BodyOutgrowsBufferKeeps ==
  ASSUME ConstantsOK, Inv, NEW r \in Requests, BodyOutgrowsBuffer(r) PROVE Inv'
<1> DEFINE p == req[r]
           c == p.conn
           q == [p EXCEPT !.truncated = TRUE]
<1>1. RequestInv(r, p) /\ p \in RequestState /\ req = [i \in Requests |-> req[i]] BY Zenon, StateOf
<1>2. /\ p.pc \in {"sent", "body"} /\ UNCHANGED <<setup, conn>> /\ None \notin Conns
      /\ req' = [req EXCEPT ![r].truncated = TRUE]
  BY Zenon DEF BodyOutgrowsBuffer, ConstantsOK
<1>3. req' = [req EXCEPT ![r] = q] BY Zenon, <1>1, <1>2
<1>4. q \in RequestState BY Zenon, <1>1 DEF RequestState
<1>5. /\ q.pc = p.pc /\ q.conn = c /\ q.error = p.error /\ q.keep = p.keep
      /\ q.torn = p.torn /\ q.client = p.client /\ q.wrote = p.wrote /\ q.sent = p.sent
      /\ q.answers = p.answers /\ q.reuse = p.reuse
  BY Zenon, <1>1 DEF RequestState
<1> HIDE DEF q
<1>6. p.pc \notin Unwritten /\ p.pc # "decide" /\ p.pc \in Holding BY Zenon, <1>2 DEF Unwritten, Holding
<1>7. SentInv(r, q) BY Zenon, <1>1, <1>5, <1>6 DEF RequestInv, SentInv
<1>8. WroteInv(q) BY Zenon, <1>1, <1>5 DEF RequestInv, WroteInv
<1>9. RequestInv(r, q) BY Zenon, <1>1, <1>4, <1>5, <1>7, <1>8 DEF RequestInv
<1>10. /\ c \in Conns /\ Of(r) = conn[c] /\ HeldInv(r, p, Of(r)) /\ conn = [d \in Conns |-> conn[d]]
  BY Zenon, <1>6, HasConn
<1>11. conn' = [conn EXCEPT ![c] = conn[c]] BY Zenon, <1>2, <1>10
<1>12. HeldInv(r, q, conn[c]) BY Zenon, <1>5, <1>10 DEF HeldInv
<1>13. ASSUME NEW i \in Requests \ {r}, req[i].conn = c PROVE conn[c].proto = "h2"
  <2>1. c # None /\ AloneInv(r, i) BY Zenon, <1>2, <1>10 DEF Inv
  <2> QED BY Zenon, <1>10, <1>13, <2>1 DEF AloneInv
<1>14. IdleInv(conn[c]) BY Zenon, <1>10 DEF Inv
<1>15. Exchanges(r, q, c, conn[c]) BY Zenon, <1>2, <1>5, <1>11, <1>12, <1>13, <1>14 DEF Exchanges
<1> QED BY Zenon, <1>2, <1>3, <1>9, <1>10, <1>15, ConnStep

LEMMA HeaderArrivesKeeps == ASSUME ConstantsOK, Inv, NEW r \in Requests, HeaderArrives(r) PROVE Inv'
<1> DEFINE p == req[r]
           c == p.conn
           of == IF Of(r).proto = "h2" THEN r ELSE Head(Of(r).waiting)
           q == [p EXCEPT !.pc = "body", !.client = "partial", !.answers = p.answers \union {r},
                          !.wrote = p.wrote \union {p.retries}]
<1>1. RequestInv(r, p) /\ p \in RequestState /\ req = [i \in Requests |-> req[i]] BY Zenon, StateOf
<1>2. p.pc = "sent" /\ setup' = setup /\ None \notin Conns BY Zenon DEF HeaderArrives, At, ConstantsOK
<1>3. /\ "sent" \in Trying /\ "sent" \in Holding /\ "sent" \notin {"body", "release", "decide", "end"}
      /\ "body" \notin Unwritten /\ "body" \in Holding /\ "body" \notin {"release", "decide", "end"}
      /\ "partial" \notin {"whole", "error"}
  BY Zenon DEF Unwritten, Holding, Trying
<1>4. /\ c \in Conns /\ Of(r) = conn[c] /\ HeldInv(r, p, Of(r)) /\ conn = [d \in Conns |-> conn[d]]
  BY Zenon, <1>2, <1>3, HasConn
<1>5. Of(r).proto # "h2" => conn[c].waiting = <<r>> BY Zenon, <1>2, <1>4 DEF HeldInv
<1>6. Head(<<r>>) = r /\ Tail(<<r>>) = <<>> OBVIOUS
<1>7. of = r BY Zenon, <1>4, <1>5, <1>6
<1>8. req' = [req EXCEPT ![r].pc = "body", ![r].client = "partial", ![r].answers = @ \union {of},
                         ![r].wrote = @ \union {req[r].retries}]
  BY Zenon DEF HeaderArrives
<1> HIDE DEF of
<1>9. req' = [req EXCEPT ![r] = q] BY Zenon, <1>1, <1>7, <1>8
<1>10. q \in RequestState BY Zenon, <1>1 DEF RequestState
<1>11. /\ q.pc = "body" /\ q.conn = c /\ q.error = p.error /\ q.keep = p.keep
       /\ q.truncated = p.truncated /\ q.torn = p.torn /\ q.client = "partial" /\ q.wrote = p.wrote \union {p.retries}
       /\ q.sent = p.sent /\ q.answers = p.answers \union {r} /\ q.reuse = p.reuse
  BY Zenon, <1>1 DEF RequestState
<1> HIDE DEF q
<1>12. p.wrote = {} /\ ~p.reuse BY Zenon, <1>1, <1>2, <1>3 DEF RequestInv, WroteInv
<1>13. q.wrote = {p.retries} BY Zenon, <1>11, <1>12
<1>14. q.wrote # {} BY Zenon, <1>13
<1>15. q.answers \subseteq {r} BY Zenon, <1>1, <1>11 DEF RequestInv
<1>16. SentInv(r, q) BY Zenon, <1>1, <1>3, <1>11 DEF RequestInv, SentInv
<1>17. WroteInv(q) BY Zenon, <1>3, <1>11, <1>12, <1>13, <1>14 DEF WroteInv
<1>18. ~p.keep /\ p.error = NoError /\ c # None BY Zenon, <1>1, <1>2, <1>3 DEF RequestInv
<1>19. RequestInv(r, q) BY Zenon, <1>10, <1>11, <1>3, <1>15, <1>16, <1>17, <1>18 DEF RequestInv
<1>20. Of(r).proto # "h2" => conn' = [conn EXCEPT ![c] = [conn[c] EXCEPT !.waiting = Tail(conn[c].waiting)]]
  BY Zenon, <1>4 DEF HeaderArrives
<1>21. Waits(r, <<>>) BY Zenon, <1>5, <1>6, <1>20 DEF HeaderArrives, Waits
<1>22. p.pc \in Holding /\ ~q.keep /\ q.pc \in {"sent", "body"} BY Zenon, <1>2, <1>3, <1>11, <1>18
<1>23. <<>> = IF q.pc = "sent" THEN <<r>> ELSE <<>> BY Zenon, <1>3, <1>11
<1>24. Carried(r, q) BY Zenon, <1>2, <1>11, <1>21, <1>22, <1>23, WaitingConn
<1> QED BY Zenon, <1>2, <1>9, <1>19, <1>24, CarriedStep

-----------------------------------------------------------------------------
(* After the attempt.                                                      *)

LEMMA ErrorWhileProxyIs ==
  ASSUME NEW r \in Requests, NEW e \in Errors, req[r].reused \in BOOLEAN
  PROVE  /\ ErrorWhileProxy(r, e) \in Errors
         /\ r \notin setup.idempotent \/ req[r].truncated => ErrorWhileProxy(r, e).retry = "no"
         /\ e.retry \in {"none", "no"} => ErrorWhileProxy(r, e).retry \in {"none", "no"}
<1> DEFINE f(retry) == [e EXCEPT !.retry = retry]
<1>1. ASSUME NEW retry \in {"no", "yes"} PROVE f(retry) \in Errors /\ f(retry).retry = retry BY Zenon DEF Errors
<1>2. CASE r \notin setup.idempotent \/ req[r].truncated
  <2>1. ErrorWhileProxy(r, e) = f("no") BY Zenon, <1>2 DEF ErrorWhileProxy
  <2> QED BY Zenon, <1>1, <2>1
<1>3. CASE ~(r \notin setup.idempotent \/ req[r].truncated) /\ e.retry = "reused only"
  <2>1. ErrorWhileProxy(r, e) = f(IF req[r].reused THEN "yes" ELSE "no") BY Zenon, <1>3 DEF ErrorWhileProxy
  <2>2. (IF req[r].reused THEN "yes" ELSE "no") \in {"no", "yes"} BY Zenon
  <2>3. e.retry \notin {"none", "no"} BY Zenon, <1>3
  <2> QED BY Zenon, <1>1, <1>3, <2>1, <2>2, <2>3
<1>4. CASE ~(r \notin setup.idempotent \/ req[r].truncated) /\ e.retry # "reused only"
  BY Zenon, <1>4 DEF ErrorWhileProxy
<1> QED BY Zenon, <1>2, <1>3, <1>4

\* What error_while_proxy() leaves of an error sends nothing again that is
\* written once, and nothing after a response header.
LEMMA DecidesStep ==
  ASSUME Inv, NEW r \in Requests, At(r, "release"), NEW e \in Errors, Decides(r, e),
         e.retry = req[r].error.retry \/ e.retry = "no"
  PROVE  \E q : req' = [req EXCEPT ![r] = q] /\ RequestInv(r, q) /\ q.conn = None
<1> DEFINE p == req[r]
           f == IF e = NoError THEN e ELSE ErrorWhileProxy(r, e)
           q == [p EXCEPT !.pc = "decide", !.conn = None, !.keep = FALSE, !.error = f]
<1>1. RequestInv(r, p) /\ p \in RequestState /\ req = [i \in Requests |-> req[i]] /\ p.pc = "release"
  BY Zenon, StateOf DEF At
<1>2. p.reused \in BOOLEAN BY Zenon, <1>1 DEF RequestState
<1>3. e = NoError => e.retry = "none" BY DEF NoError
<1>4. f \in Errors BY Zenon, <1>2, ErrorWhileProxyIs
<1>5. (r \notin setup.idempotent \/ p.truncated) => f.retry \in {"none", "no"}
  BY Zenon, <1>2, <1>3, ErrorWhileProxyIs
<1>6. e.retry \in {"none", "no"} => f.retry \in {"none", "no"} BY Zenon, <1>2, ErrorWhileProxyIs
<1>7. req' = [req EXCEPT ![r].pc = "decide", ![r].conn = None, ![r].keep = FALSE, ![r].error = f]
  BY Zenon DEF Decides
<1> HIDE DEF f
<1>8. req' = [req EXCEPT ![r] = q] BY Zenon, <1>1, <1>7
<1>9. q \in RequestState BY Zenon, <1>1, <1>4 DEF RequestState
<1>10. /\ q.pc = "decide" /\ q.conn = None /\ q.error = f /\ ~q.keep
       /\ q.truncated = p.truncated /\ q.torn = p.torn /\ q.client = p.client /\ q.wrote = p.wrote /\ q.sent = p.sent
       /\ q.answers = p.answers /\ q.reuse = p.reuse
  BY Zenon, <1>1 DEF RequestState
<1> HIDE DEF q
<1>11. "decide" \notin Unwritten /\ "decide" \notin Holding /\ "decide" \notin Trying /\ "yes" \notin {"none", "no"}
       /\ "decide" \notin {"body", "end"} /\ "decide" \in {"body", "release", "decide", "end"}
       /\ "release" \notin {"body", "end"}
  BY Zenon DEF Unwritten, Holding, Trying
<1>13. SentInv(r, q) BY Zenon, <1>1, <1>5, <1>10, <1>11 DEF RequestInv, SentInv
<1>14. p.wrote # {} => e.retry \in {"none", "no"} BY Zenon, <1>1 DEF RequestInv, WroteInv
<1>15. WroteInv(q) BY Zenon, <1>1, <1>6, <1>10, <1>11, <1>14 DEF RequestInv, WroteInv
<1>16. RequestInv(r, q) BY Zenon, <1>1, <1>9, <1>10, <1>11, <1>13, <1>15 DEF RequestInv
<1> QED BY Zenon, <1>8, <1>10, <1>16

\* The connection is released as x.
LEMMA Releases ==
  ASSUME Inv, None \notin Conns, NEW r \in Requests, At(r, "release"), NEW e \in Errors, Decides(r, e),
         e.retry = req[r].error.retry \/ e.retry = "no",
         NEW x, conn' = [conn EXCEPT ![req[r].conn] = x], IdleInv(x), setup' = setup,
         \A i \in Requests \ {r} : req[i].conn = req[r].conn => x.proto = "h2"
  PROVE  Inv'
<1>1. req[r].pc \in Holding BY Zenon DEF At, Holding
<1>2. PICK c \in Conns : c = req[r].conn BY Zenon, <1>1, HasConn
<1>3. \A i \in Requests \ {r} : req[i].conn = c => conn[c].proto = "h2" /\ x.proto = "h2"
  BY Zenon, <1>1, <1>2, HasConn
<1>4. PICK q : req' = [req EXCEPT ![r] = q] /\ RequestInv(r, q) /\ q.conn = None BY Zenon, DecidesStep
<1>5. conn' = [conn EXCEPT ![c] = x] BY Zenon, <1>2
<1>6. Exchanges(r, q, c, x) BY Zenon, <1>3, <1>4, <1>5 DEF Exchanges
<1> QED BY Zenon, <1>4, <1>6, ConnStep

LEMMA FreeIsIdle == IdleInv(FreeConn)
BY Zenon DEF IdleInv, IsConn, FreeConn

\* A connection that carries one request at a time, kept or dropped.
LEMMA ReleasesAlone ==
  ASSUME ConstantsOK, Inv, NEW r \in Requests, At(r, "release"), Of(r).proto # "h2", Decides(r, req[r].error), NEW kept,
         conn' = [conn EXCEPT ![req[r].conn] = IF kept THEN [conn[req[r].conn] EXCEPT !.pooled = TRUE] ELSE FreeConn],
         kept => req[r].keep, setup' = setup
  PROVE  Inv'
<1> DEFINE c == req[r].conn
           x == IF kept THEN [conn[c] EXCEPT !.pooled = TRUE] ELSE FreeConn
<1>1. req[r].pc \in Holding BY Zenon DEF At, Holding
<1>2. Of(r) = conn[c] /\ HeldInv(r, req[r], Of(r)) /\ IsConn(Of(r)) BY Zenon, <1>1, HasConn
<1>3. \A i \in Requests \ {r} : req[i].conn = c => x.proto = "h2" BY Zenon, <1>1, HasConn
<1>4. IdleInv(x)
  <2>1. CASE kept
    <3>1. Of(r).waiting = <<>> /\ Of(r).proto # "none" BY Zenon, <1>2, <2>1 DEF HeldInv
    <3>2. x = [conn[c] EXCEPT !.pooled = TRUE] BY Zenon, <2>1
    <3> HIDE DEF x
    <3>3. IsConn(x) /\ x.waiting = Of(r).waiting /\ x.proto = Of(r).proto BY Zenon, <1>2, <3>2 DEF IsConn
    <3> QED BY Zenon, <3>1, <3>3 DEF IdleInv
  <2>2. CASE ~kept BY Zenon, <2>2, FreeIsIdle
  <2> QED BY Zenon, <2>1, <2>2
<1>5. conn' = [conn EXCEPT ![c] = x] /\ None \notin Conns BY Zenon DEF ConstantsOK
<1>6. req[r].error \in Errors BY Zenon, StateOf DEF RequestState
<1> HIDE DEF x
<1> QED BY Zenon, <1>3, <1>4, <1>5, <1>6, Releases

LEMMA ReleaseH1Keeps == ASSUME ConstantsOK, Inv, NEW r \in Requests, ReleaseH1(r) PROVE Inv'
<1> DEFINE c == req[r].conn
           kept == req[r].keep /\ conn[c].open
<1>1. Of(r).proto # "h2" /\ At(r, "release") /\ Decides(r, req[r].error) /\ setup' = setup BY Zenon DEF ReleaseH1
<1>2. c \in Conns /\ conn = [d \in Conns |-> conn[d]] BY Zenon, <1>1, HasConn DEF At, Holding
<1>3. conn' = [conn EXCEPT ![c] = IF kept THEN [conn[c] EXCEPT !.pooled = TRUE] ELSE FreeConn]
  BY Zenon, <1>2 DEF ReleaseH1
<1>4. kept => req[r].keep BY Zenon
<1> HIDE DEF kept
<1> QED BY Zenon, <1>1, <1>3, <1>4, ReleasesAlone

LEMMA ReleaseCustomKeeps == ASSUME ConstantsOK, Inv, NEW r \in Requests, ReleaseCustom(r) PROVE Inv'
<1> DEFINE c == req[r].conn
           kept == /\ conn[c].open /\ r \notin {conn[c].waiting[i] : i \in DOMAIN conn[c].waiting}
                   /\ req[r].keep
<1>1. Of(r).proto # "h2" /\ At(r, "release") /\ Decides(r, req[r].error) /\ setup' = setup BY Zenon DEF ReleaseCustom
<1>2. c \in Conns /\ conn = [d \in Conns |-> conn[d]] BY Zenon, <1>1, HasConn DEF At, Holding
<1>3. conn' = [conn EXCEPT ![c] = IF kept THEN [conn[c] EXCEPT !.pooled = TRUE] ELSE FreeConn]
  BY Zenon, <1>2 DEF ReleaseCustom
<1>4. kept => req[r].keep BY Zenon
<1> HIDE DEF kept
<1> QED BY Zenon, <1>1, <1>3, <1>4, ReleasesAlone

LEMMA ReleaseH2Keeps == ASSUME ConstantsOK, Inv, NEW r \in Requests, ReleaseH2(r) PROVE Inv'
<1> DEFINE p == req[r]
           c == p.conn
           rest == Closed(conn[c].waiting, r)
           free == rest = <<>> /\ ~\E q \in Requests \ {r} : req[q].conn = c
           x == IF conn[c].open THEN [conn[c] EXCEPT !.waiting = rest, !.pooled = TRUE]
                ELSE IF free THEN FreeConn
                ELSE [conn[c] EXCEPT !.waiting = rest, !.pooled = FALSE]
           e == IF p.error.downgrade /\ setup.alpn = "h2" THEN [p.error EXCEPT !.retry = "no"] ELSE p.error
<1>1. At(r, "release") /\ Of(r).proto = "h2" /\ setup' = setup BY Zenon DEF ReleaseH2
<1>2. p.pc \in Holding BY Zenon, <1>1 DEF At, Holding
<1>3. c \in Conns /\ conn = [d \in Conns |-> conn[d]] /\ Of(r) = conn[c] /\ IsConn(conn[c])
  BY Zenon, <1>2, HasConn
<1>4. conn' = [conn EXCEPT ![c] = x] BY Zenon, <1>3 DEF ReleaseH2
<1>5. Decides(r, e) BY Zenon DEF ReleaseH2
<1>6. p.error \in Errors BY Zenon, StateOf DEF RequestState
<1>7. e \in Errors /\ (e.retry = p.error.retry \/ e.retry = "no")
  <2>1. [p.error EXCEPT !.retry = "no"] \in Errors /\ [p.error EXCEPT !.retry = "no"].retry = "no"
    BY Zenon, <1>6 DEF Errors
  <2> QED BY Zenon, <1>6, <2>1
<1>8. IdleInv(x) /\ (x.proto = "h2" \/ \A i \in Requests \ {r} : req[i].conn # c)
  <2> HIDE DEF rest
  <2>1. ASSUME NEW b \in BOOLEAN, x = [conn[c] EXCEPT !.waiting = rest, !.pooled = b]
        PROVE  IdleInv(x) /\ x.proto = "h2"
    <3> HIDE DEF x
    <3>1. IsConn(x) /\ x.proto = conn[c].proto BY Zenon, <1>3, <2>1 DEF IsConn
    <3> QED BY Zenon, <1>1, <1>3, <3>1 DEF IdleInv
  <2>2. TRUE \in BOOLEAN /\ FALSE \in BOOLEAN BY Zenon
  <2>3. CASE conn[c].open
    <3>1. x = [conn[c] EXCEPT !.waiting = rest, !.pooled = TRUE] BY Zenon, <2>3
    <3> QED BY Zenon, <2>1, <2>2, <3>1
  <2>4. CASE ~conn[c].open /\ free
    <3>1. x = FreeConn BY Zenon, <2>4
    <3> QED BY Zenon, <2>4, <3>1, FreeIsIdle
  <2>5. CASE ~conn[c].open /\ ~free
    <3>1. x = [conn[c] EXCEPT !.waiting = rest, !.pooled = FALSE] BY Zenon, <2>5
    <3> QED BY Zenon, <2>1, <2>2, <3>1
  <2> QED BY Zenon, <2>3, <2>4, <2>5
<1> HIDE DEF x, e
<1>9. \A i \in Requests \ {r} : req[i].conn = c => x.proto = "h2" BY Zenon, <1>8
<1>10. IdleInv(x) /\ None \notin Conns BY Zenon, <1>8 DEF ConstantsOK
<1> QED BY Zenon, <1>1, <1>4, <1>5, <1>7, <1>9, <1>10, Releases

LEMMA RetryKeeps == ASSUME Inv, NEW r \in Requests, Retry(r) PROVE Inv'
<1> DEFINE p == req[r]
           q == [req[r] EXCEPT !.pc = "loop"]
<1>1. RequestInv(r, p) /\ p \in RequestState /\ req = [i \in Requests |-> req[i]] BY Zenon, StateOf
<1>2. req' = [req EXCEPT ![r] = q] BY Zenon, <1>1 DEF Retry, Goto
<1>3. p.pc = "decide" /\ p.error.retry = "yes" /\ UNCHANGED <<setup, conn>> BY Zenon DEF Retry, At
<1>4. q \in RequestState BY Zenon, <1>1 DEF RequestState, Unwritten
<1>5. /\ q.pc = "loop" /\ q.conn = p.conn /\ q.error = p.error /\ q.keep = p.keep
      /\ q.truncated = p.truncated /\ q.torn = p.torn /\ q.client = p.client /\ q.wrote = p.wrote /\ q.sent = p.sent
      /\ q.answers = p.answers /\ q.reuse = p.reuse
  BY Zenon, <1>1 DEF RequestState
<1> HIDE DEF q
<1>6. /\ "loop" \notin Trying /\ "loop" \notin Holding /\ "decide" \notin Holding /\ "yes" \notin {"none", "no"}
      /\ "loop" \notin {"connected", "sent", "body", "release", "decide", "end"}
      /\ "decide" \notin {"body", "release", "end"} /\ "decide" \in {"release", "decide"}
  BY Zenon DEF Trying, Holding
<1>7. p.wrote = {} BY Zenon, <1>1, <1>3, <1>6 DEF RequestInv, WroteInv
<1>8. ~(p.truncated \/ (r \notin setup.idempotent /\ p.sent # {})) BY Zenon, <1>1, <1>3 DEF RequestInv, SentInv
<1>9. SentInv(r, q) BY Zenon, <1>1, <1>5, <1>8 DEF RequestInv, SentInv
<1>10. WroteInv(q) BY Zenon, <1>1, <1>3, <1>5, <1>6, <1>7 DEF RequestInv, WroteInv
<1>11. ~p.keep /\ p.conn = None BY Zenon, <1>1, <1>3, <1>6 DEF RequestInv
<1>12. RequestInv(r, q) BY Zenon, <1>1, <1>4, <1>5, <1>6, <1>9, <1>10, <1>11 DEF RequestInv
<1> QED BY Zenon, <1>2, <1>3, <1>5, <1>6, <1>11, <1>12, QuietStep

-----------------------------------------------------------------------------
(* The origin and the watcher of the pool.                                 *)

LEMMA SameRequests ==
  ASSUME Inv, UNCHANGED <<setup, req>>
  PROVE  /\ req' = [i \in Requests |-> req'[i]]
         /\ \A i \in Requests : RequestInv(i, req[i])'
         /\ \A i \in Requests : req'[i].conn = req[i].conn /\ (req[i].conn # None => req'[i] = req[i])
<1>1. ASSUME NEW i \in Requests PROVE RequestInv(i, req[i])'
  <2>1. RequestInv(i, req'[i]) BY Zenon DEF Inv
  <2> QED BY Zenon, <2>1 DEF RequestInv, SentInv, WroteInv
<1> QED BY Zenon, <1>1 DEF Inv

LEMMA ClosesKeeps ==
  ASSUME ConstantsOK, Inv, NEW c \in Conns, OriginCloses(c) \/ PoolNotices(c)
  PROVE  Inv'
<1>1. conn = [d \in Conns |-> conn[d]] /\ (\A d \in Conns : IsConn(conn[d])) /\ None \notin Conns
  BY Zenon DEF Inv, IdleInv, ConstantsOK
<1>2. conn' = [d \in Conns |-> conn'[d]] BY Zenon, <1>1 DEF OriginCloses, PoolNotices
<1>3. ASSUME NEW d \in Conns PROVE Loosened(d)
  <2>1. CASE d # c
    <3>1. conn'[d] = conn[d] BY Zenon, <1>1, <2>1 DEF OriginCloses, PoolNotices
    <3>2. IsConn(conn'[d]) BY Zenon, <1>1, <3>1
    <3> QED BY Zenon, <3>1, <3>2 DEF Loosened
  <2>2. CASE d = c /\ OriginCloses(c)
    <3> DEFINE x == [conn[c] EXCEPT !.open = FALSE]
    <3>1. conn'[d] = x BY Zenon, <1>1, <2>2 DEF OriginCloses
    <3>2. IsConn(conn[c]) BY Zenon, <1>1
    <3>3. IsConn(x) /\ x.proto = conn[c].proto /\ x.waiting = conn[c].waiting /\ x.pooled = conn[c].pooled
      BY Zenon, <3>2 DEF IsConn
    <3> HIDE DEF x
    <3>4. IsConn(conn'[d]) BY Zenon, <3>1, <3>3
    <3> QED BY Zenon, <2>2, <3>1, <3>3, <3>4 DEF Loosened
  <2>3. CASE d = c /\ PoolNotices(c)
    <3>1. conn'[d] = FreeConn /\ ~InUse(d) BY Zenon, <1>1, <2>3 DEF PoolNotices
    <3> QED BY Zenon, <3>1 DEF Loosened
  <2> QED BY Zenon, <2>1, <2>2, <2>3
<1>4. UNCHANGED <<setup, req>> BY Zenon DEF OriginCloses, PoolNotices
<1> QED BY Zenon, <1>1, <1>2, <1>3, <1>4, SameRequests, Loosens

-----------------------------------------------------------------------------
LEMMA InitInv == ASSUME ConstantsOK, Init PROVE Inv
<1>1. req = [r \in Requests |-> req[r]] /\ conn = [c \in Conns |-> conn[c]] BY Zenon DEF Init
<1>2. ASSUME NEW r \in Requests PROVE RequestInv(r, req[r]) /\ req[r].conn = None
  <2> DEFINE q == NewRequest
  <2>1. req[r] = q BY Zenon DEF Init
  <2>2. q \in RequestState BY Zenon DEF NewRequest, NoError, RequestState, Errors, Unwritten
  <2>3. /\ q.pc = "start" /\ q.conn = None /\ ~q.keep /\ ~q.truncated /\ ~q.torn /\ q.client = "none" /\ q.wrote = {}
        /\ q.sent = {} /\ q.answers = {} /\ ~q.reuse
    BY Zenon DEF NewRequest
  <2>4. "start" \notin Holding /\ "start" \notin Trying BY Zenon DEF Holding, Trying
  <2> HIDE DEF q
  <2>5. SentInv(r, q) BY Zenon, <2>3 DEF SentInv
  <2>6. WroteInv(q) BY Zenon, <2>3 DEF WroteInv
  <2>7. RequestInv(r, q) BY Zenon, <2>2, <2>3, <2>4, <2>5, <2>6 DEF RequestInv
  <2> QED BY Zenon, <2>1, <2>3, <2>7
<1>3. ASSUME NEW c \in Conns PROVE IdleInv(conn[c])
  <2>1. conn[c] = FreeConn BY Zenon DEF Init
  <2> QED BY Zenon, <2>1, FreeIsIdle
<1> QED BY Zenon, <1>1, <1>2, <1>3 DEF Inv, AloneInv

LEMMA StutterKeeps == ASSUME ConstantsOK, Inv, UNCHANGED vars PROVE Inv'
<1>1. UNCHANGED <<setup, req>> /\ conn' = conn /\ None \notin Conns BY Zenon DEF vars, ConstantsOK
<1>2. conn' = [c \in Conns |-> conn'[c]] BY Zenon, <1>1 DEF Inv
<1>3. ASSUME NEW c \in Conns PROVE Loosened(c)
  <2>1. IsConn(conn'[c]) BY Zenon, <1>1 DEF Inv, IdleInv
  <2> QED BY Zenon, <1>1, <2>1 DEF Loosened
<1> QED BY Zenon, <1>1, <1>2, <1>3, SameRequests, Loosens

LEMMA NextInv == ASSUME ConstantsOK, Inv, [Next]_vars PROVE Inv'
<1>1. ASSUME NEW r \in Requests, FiltersPass(r) \/ FilterFails(r) \/ Responds(r) PROVE Inv'
  BY Zenon, <1>1, FiltersPassKeeps, FilterFailsKeeps, RespondsKeeps
<1>2. ASSUME NEW r \in Requests, GetSession(r) PROVE Inv'
  <2>1. CASE StartAttempt(r) BY Zenon, <2>1, StartAttemptKeeps
  <2>2. CASE NoAttempt(r) BY Zenon, <2>2, NoAttemptKeeps
  <2>3. CASE NoPeer(r) BY Zenon, <2>3, NoPeerKeeps
  <2>4. CASE NoH2(r) BY Zenon, <2>4, NoH2Keeps
  <2>5. CASE NoH1(r) BY Zenon, <2>5, NoH1Keeps
  <2>6. CASE NoCustom(r) BY Zenon, <2>6, NoCustomKeeps
  <2>7. CASE ConnectFails(r) BY Zenon, <2>7, ConnectFailsKeeps
  <2>8. ASSUME NEW c \in Conns, ReuseH2(r, c) PROVE Inv' BY Zenon, <2>8, ReuseH2Keeps
  <2>9. ASSUME NEW c \in Conns, ReuseH1(r, c) PROVE Inv' BY Zenon, <2>9, ReuseH1Keeps
  <2>10. ASSUME NEW c \in Conns, ReuseCustom(r, c) PROVE Inv' BY Zenon, <2>10, ReuseCustomKeeps
  <2>11. ASSUME NEW c \in Conns, Connect(r, c) PROVE Inv' BY Zenon, <2>11, ConnectKeeps
  <2> QED
    BY Zenon, <1>2, <2>1, <2>2, <2>3, <2>4, <2>5, <2>6, <2>7, <2>8, <2>9, <2>10, <2>11 DEF GetSession
<1>3. ASSUME NEW r \in Requests, Attempt(r) PROVE Inv'
  <2>1. CASE WriteRequest(r) BY Zenon, <2>1, WriteRequestKeeps
  <2>2. CASE HeaderArrives(r) BY Zenon, <2>2, HeaderArrivesKeeps
  <2>3. CASE BodyEnds(r) BY Zenon, <2>3, BodyEndsKeeps
  <2>4. CASE Downgrade(r) BY Zenon, <2>4, DowngradeKeeps
  <2>5. CASE \/ RequestRefused(r) \/ WriteFails(r) \/ ReadHeaderClosed(r) \/ ReadHeaderFails(r)
             \/ StreamRefused(r) \/ BodyFails(r) \/ DownstreamFails(r)
    BY Zenon, <2>5, AttemptFailsKeeps
  <2>6. CASE BodyOutgrowsBuffer(r) BY Zenon, <2>6, BodyOutgrowsBufferKeeps
  <2> QED BY Zenon, <1>3, <2>1, <2>2, <2>3, <2>4, <2>5, <2>6 DEF Attempt
<1>4. ASSUME NEW r \in Requests, AfterAttempt(r) PROVE Inv'
  <2>1. CASE ReleaseH1(r) BY Zenon, <2>1, ReleaseH1Keeps
  <2>2. CASE ReleaseH2(r) BY Zenon, <2>2, ReleaseH2Keeps
  <2>3. CASE ReleaseCustom(r) BY Zenon, <2>3, ReleaseCustomKeeps
  <2>4. CASE Retry(r) BY Zenon, <2>4, RetryKeeps
  <2>5. CASE Succeeds(r) BY Zenon, <2>5, SucceedsKeeps
  <2>6. CASE FailsToProxy(r) BY Zenon, <2>6, FailsToProxyKeeps
  <2> QED BY Zenon, <1>4, <2>1, <2>2, <2>3, <2>4, <2>5, <2>6 DEF AfterAttempt
<1>5. ASSUME NEW c \in Conns, OriginCloses(c) \/ PoolNotices(c) PROVE Inv' BY Zenon, <1>5, ClosesKeeps
<1>6. CASE UNCHANGED vars BY Zenon, <1>6, StutterKeeps
<1> QED BY Zenon, <1>1, <1>2, <1>3, <1>4, <1>5, <1>6 DEF Next

LEMMA InvIsSafe == ASSUME Inv PROVE ResentOnlyIfSafe /\ ResponsesApart
<1>1. ASSUME NEW r \in Requests
      PROVE  (r \notin setup.idempotent => AtMostOne(req[r].sent)) /\ ~req[r].torn
  <2>1. SentInv(r, req[r]) BY Zenon, StateOf DEF RequestInv
  <2> QED BY Zenon, <2>1 DEF SentInv, AtMostOne
<1>2. ASSUME NEW r \in Requests
      PROVE  /\ AtMostOne(req[r].wrote)
             /\ req[r].client = "whole" => req[r].wrote # {}
             /\ At(r, "end") /\ req[r].reuse => req[r].client \in {"whole", "error"}
             /\ req[r].answers \subseteq {r}
  <2>1. WroteInv(req[r]) /\ req[r].answers \subseteq {r} BY Zenon, StateOf DEF RequestInv
  <2>2. AtMostOne(req[r].wrote) BY Zenon, <2>1 DEF WroteInv, AtMostOne
  <2> QED BY Zenon, <2>1, <2>2 DEF WroteInv
<1> QED BY Zenon, <1>1, <1>2 DEF ResentOnlyIfSafe, ResponsesApart, OneResponse, OwnResponse

(* error_while_proxy() and the retry loop of process_request(): for any number *)
(* of requests and connections and any retry limit, a request whose method is  *)
(* not idempotent is written upstream at most once, and no request is written   *)
(* again once its body outgrew the retry buffer.                                *)
THEOREM ResendsAlwaysSafe == ASSUME ConstantsOK PROVE Spec => []ResentOnlyIfSafe
<1>1. Init => Inv BY Zenon, InitInv
<1>2. Inv /\ [Next]_vars => Inv' BY Zenon, NextInv
<1>3. Inv => ResentOnlyIfSafe BY Zenon, InvIsSafe
<1> QED BY <1>1, <1>2, <1>3, PTL DEF Spec

(* proxy_to_upstream(), the attempts and the connections handed out again: a   *)
(* client gets the response of one attempt, and it answers its own request,    *)
(* however connections fail, close and are reused.                              *)
THEOREM ResponsesAlwaysApart == ASSUME ConstantsOK PROVE Spec => []ResponsesApart
<1>1. Init => Inv BY Zenon, InitInv
<1>2. Inv /\ [Next]_vars => Inv' BY Zenon, NextInv
<1>3. Inv => ResponsesApart BY Zenon, InvIsSafe
<1> QED BY <1>1, <1>2, <1>3, PTL DEF Spec
=============================================================================
