--------------------------- MODULE FillPublication ---------------------------
(***************************************************************************)
(* What a cache writer publishes about its fill, and the readers who stop  *)
(* waiting because of it: LockCore.watch_fill(), LockCore.publish() and    *)
(* the part of wait_inner() after its age check, in                        *)
(* pingora-cache/src/lock.rs.                                              *)
(*                                                                         *)
(* One lock and its readers.  A reader that has left can come back as the  *)
(* next request, with a registration of its own.                           *)
(***************************************************************************)
EXTENDS Naturals, Sequences, FiniteSets, SequencesExt

CONSTANTS Readers,
          Tokens,
          Unusable,      \* per reader, the tokens of the fills it cannot use
          Budget,        \* WAITER_SWEEP_BUDGET
          Gone           \* a closed sender: its reader dropped the receiver

\* What the constants are taken to be.
ConstantsOK ==
  /\ Unusable \in [Readers -> SUBSET Tokens]
  /\ Budget \in Nat \ {0}
  /\ Gone \notin Readers

VARIABLES open,          \* the writer has released the lock
          published,     \* FillState.published
          publishedAny,  \* LockCore.published_any
          waiters,       \* FillState.waiters
          cursor,        \* FillState.sweep_cursor, 0-based
          woken,         \* the senders publish() took out and has yet to use
          told,          \* the readers with a message in their oneshot channel
          pc             \* where each reader is, or how its last wait ended

vars == <<open, published, publishedAny, waiters, cursor, woken, told, pc>>

\* How a wait ends: Abandoned, Released, or cut short by the lock's age, by the
\* request's own timeout or by the end of the request.
Outcomes == {"Released", "Abandoned", "CutShort"}

Init ==
  /\ open = FALSE
  /\ published = {}
  /\ publishedAny = FALSE
  /\ waiters = <<>>
  /\ cursor = 0
  /\ woken = <<>>
  /\ told = {}
  /\ pc = [r \in Readers |-> "CutShort"]

\* first_match() finds a fill this reader cannot use.  Which of several it
\* reports is a label for logs and is left out.
Matches(tokens, r) == Unusable[r] \cap tokens # {}

\* Vec::swap_remove, for a 1-based position.
SwapRemove(s, i) == Front([s EXCEPT ![i] = Last(s)])

\* One round of watch_fill()'s sweep.
SweepOne(s) ==
  IF s.waiters = <<>> THEN s
  ELSE LET at == IF s.cursor >= Len(s.waiters) THEN 0 ELSE s.cursor
       IN  IF s.waiters[at + 1] = Gone
             THEN [waiters |-> SwapRemove(s.waiters, at + 1), cursor |-> at]
             ELSE [s EXCEPT !.cursor = at + 1]

Sweep ==
  LET after[n \in 0..Budget] ==
        IF n = 0 THEN [waiters |-> waiters, cursor |-> cursor] ELSE SweepOne(after[n - 1])
  IN  after[Budget]

\* One round of publish()'s pass: departed readers are dropped, matched readers
\* taken out to be told.
ScanOne(tokens, s) ==
  LET w == s.waiters[s.at]
  IN  CASE w = Gone -> [s EXCEPT !.waiters = SwapRemove(@, s.at)]
        [] w # Gone /\ Matches(tokens, w) ->
             [s EXCEPT !.waiters = SwapRemove(@, s.at), !.woken = Append(@, w)]
        [] OTHER -> [s EXCEPT !.at = @ + 1]

Scan(tokens) ==
  LET after[n \in 0..Len(waiters)] ==
        IF n = 0 THEN [waiters |-> waiters, at |-> 1, woken |-> <<>>]
        ELSE ScanOne(tokens, after[n - 1])
  IN  after[Len(waiters)]

\* wait_inner() has found the lock held and not yet expired.
Enter(r) ==
  /\ pc[r] \in Outcomes
  /\ ~open
  /\ pc' = [pc EXCEPT ![r] = "entering"]
  /\ UNCHANGED <<open, published, publishedAny, waiters, cursor, woken, told>>

\* Mutant: registers without a look at what is published.
Watch_NoCheck(r) ==
  /\ pc[r] = "entering"
  /\ waiters' = Append(Sweep.waiters, r)
  /\ cursor' = Sweep.cursor
  /\ pc' = [pc EXCEPT ![r] = "watching"]
  /\ UNCHANGED <<open, published, publishedAny, woken, told>>

\* watch_fill(), under the fill mutex.
Watch(r) ==
  /\ pc[r] = "entering"
  /\ \/ /\ Matches(published, r)
        /\ pc' = [pc EXCEPT ![r] = "matched"]
        /\ UNCHANGED <<waiters, cursor>>
     \/ /\ ~Matches(published, r)
        /\ waiters' = Append(Sweep.waiters, r)
        /\ cursor' = Sweep.cursor
        /\ pc' = [pc EXCEPT ![r] = "watching"]
  /\ UNCHANGED <<open, published, publishedAny, woken, told>>

\* The reader's future ends: its receiver goes, and closes the sender.
End(r, o) ==
  LET close(s) == [i \in 1..Len(s) |-> IF s[i] = r THEN Gone ELSE s[i]]
  IN  /\ pc' = [pc EXCEPT ![r] = o]
      /\ told' = told \ {r}
      /\ waiters' = close(waiters)
      /\ woken' = close(woken)
      /\ UNCHANGED <<open, published, publishedAny, cursor>>

\* Watching::AlreadyPublished: a release that came first wins.
Matched(r) ==
  /\ pc[r] = "matched"
  /\ End(r, IF open THEN "Released" ELSE "Abandoned")

\* The biased select: the writer's release before a message.
Poll(r) ==
  /\ pc[r] = "watching"
  /\ open \/ r \in told
  /\ End(r, IF open THEN "Released" ELSE "Abandoned")

Leave(r) ==
  /\ pc[r] = "watching"
  /\ End(r, "CutShort")

\* Mutant: readers that already wait are not told.
Publish_Silent(tokens) ==
  /\ ~open
  /\ woken = <<>>
  /\ tokens # {} \/ publishedAny
  /\ published' = tokens
  /\ publishedAny' = (tokens # {})
  /\ UNCHANGED <<open, waiters, woken, cursor, told, pc>>

\* WritePermit::publish() and the locked part of LockCore::publish().
Publish(tokens) ==
  /\ ~open
  /\ woken = <<>>
  /\ tokens # {} \/ publishedAny
  /\ published' = tokens
  /\ publishedAny' = (tokens # {})
  /\ waiters' = Scan(tokens).waiters
  /\ woken' = Scan(tokens).woken
  /\ UNCHANGED <<open, cursor, told, pc>>

\* publish(), after the mutex is released: send to one reader.
Send ==
  /\ woken # <<>>
  /\ woken' = Tail(woken)
  /\ told' = (told \cup {Head(woken)}) \ {Gone}
  /\ UNCHANGED <<open, published, publishedAny, waiters, cursor, pc>>

\* The writer releases its permit, which ends its publications.
Unlock ==
  /\ ~open
  /\ woken = <<>>
  /\ open' = TRUE
  /\ UNCHANGED <<published, publishedAny, waiters, cursor, woken, told, pc>>

ReaderStep(r) == Watch(r) \/ Matched(r) \/ Poll(r)

Next ==
  \/ \E r \in Readers : Enter(r) \/ ReaderStep(r) \/ Leave(r)
  \/ \E tokens \in SUBSET Tokens : Publish(tokens)
  \/ Send
  \/ Unlock

Spec == Init /\ [][Next]_vars

\* Tasks that can run do, and publish() runs through its sends.
FairSpec ==
  Spec /\ WF_vars(Send) /\ \A r \in Readers : WF_vars(ReaderStep(r))

------------------------------------------------------------------------------
\* The shape of the fill's state: a sender that was dropped is Gone.
TypeOK ==
  /\ open \in BOOLEAN /\ publishedAny \in BOOLEAN
  /\ published \in SUBSET Tokens
  /\ waiters \in Seq(Readers \cup {Gone}) /\ woken \in Seq(Readers \cup {Gone})
  /\ cursor \in Nat
  /\ told \in SUBSET Readers
  /\ pc \in [Readers -> {"entering", "matched", "watching"} \cup Outcomes]

\* The sender of a waiting reader is in exactly one place: registered, taken out
\* by a publication, or used.  So told.await never sees its sender dropped (the
\* debug_assert "fill waiter sender dropped while registered"), and no sender
\* outlives its reader.
OneSender ==
  \A r \in Readers :
    LET registered == {i \in DOMAIN waiters : waiters[i] = r}
        taken == {i \in DOMAIN woken : woken[i] = r}
    IN  Cardinality(registered) + Cardinality(taken) + Cardinality(told \cap {r})
          = IF pc[r] = "watching" THEN 1 ELSE 0

\* No publication is missed: a reader still registered can use what is
\* published, because watch_fill() checks and registers under the mutex that
\* publish() replaces the tokens under.
NoMissedPublication ==
  \A r \in ToSet(waiters) \ {Gone} : ~Matches(published, r)

\* Nobody deregisters, yet however many readers come and go the registry keeps
\* to `live * BUDGET / (BUDGET - 1)`, the size the comment on
\* WAITER_SWEEP_BUDGET gives, for the most readers that wait at a time.
RegistryBounded ==
  Len(waiters) * (Budget - 1) <= Budget * Cardinality(Readers)

\* The registry of waiting readers, publish()'s promise about it and the
\* bound on its length together.
RegistrySound == OneSender /\ NoMissedPublication /\ RegistryBounded

\* A reader never abandons a lock that was already released, although releasing
\* does not clear what was published.
ReleaseWins ==
  [][\A r \in Readers :
       pc'[r] = "Abandoned" /\ pc[r] # "Abandoned" => ~open]_vars

\* A reader that cannot use what the writer publishes does not wait on.
UnusableFillEndsWait ==
  \A r \in Readers :
    pc[r] = "watching" /\ Matches(published, r) ~> pc[r] # "watching"
==============================================================================
