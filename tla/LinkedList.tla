----------------------------- MODULE LinkedList -----------------------------
(***************************************************************************)
(* The doubly linked list of pingora-lru (linked_list.rs): nodes in one    *)
(* growing arena, addressed by index, with two sentinels (HEAD and TAIL)   *)
(* and a stack of freed slots that new nodes take first.                   *)
(*                                                                         *)
(* The list is a record: prev and next give the links of every slot, data  *)
(* the payload, free the stack of freed slots.  An operation is one step,  *)
(* since every caller holds the list exclusively; the index it is given is *)
(* that of a node in the list, as the callers' lookup tables guarantee     *)
(* (Lru!UnitsExact).  `call` is the last operation with its argument and   *)
(* result.  The list implements a sequence of nodes (ListOrder), which is  *)
(* what the models of its users work with.                                 *)
(***************************************************************************)
EXTENDS Integers, Sequences, FiniteSets, SequencesExt

CONSTANTS
    NULL,      \* u32::MAX: the link of a node that is in no list
    Items,     \* the payloads
    MaxSlots   \* bound on the arena

\* What the constants are taken to be.
ConstantsOK == MaxSlots \in Nat /\ NULL \notin 0..(MaxSlots + 1)

VARIABLES list, call

vars == <<list, call>>

HEAD == 0

TAIL == 1

OFFSET == 2

Slots(l) == DOMAIN l.data

\* LinkedList::with_capacity: the two sentinels linked to each other.
EmptyList == [prev |-> [i \in {HEAD, TAIL} |-> IF i = TAIL THEN HEAD ELSE NULL],
              next |-> [i \in {HEAD, TAIL} |-> IF i = HEAD THEN TAIL ELSE NULL],
              data |-> [i \in {} |-> NULL],
              free |-> <<>>]

\* The slot new_node hands out: the last freed one, or one more at the end of
\* the arena.
NewIndex(l) == IF l.free # <<>> THEN Last(l.free) ELSE Cardinality(Slots(l)) + OFFSET

Grown(f, i, v) == [j \in DOMAIN f \union {i} |-> IF j = i THEN v ELSE f[j]]

NewNode(l, data) ==
    LET i == NewIndex(l)
    IN  [prev |-> IF l.free # <<>> THEN l.prev ELSE Grown(l.prev, i, NULL),
         next |-> IF l.free # <<>> THEN l.next ELSE Grown(l.next, i, NULL),
         data |-> Grown(l.data, i, data),
         free |-> IF l.free # <<>> THEN Front(l.free) ELSE l.free]

\* insert_after: put node i right after the node at.
InsertAfter(l, i, at) ==
    LET nxt == l.next[at]
    IN  [l EXCEPT !.next = [@ EXCEPT ![at] = i, ![i] = nxt],
                  !.prev = [@ EXCEPT ![i] = at, ![nxt] = i]]

PushedHead(l, data) == InsertAfter(NewNode(l, data), NewIndex(l), HEAD)

PushedTail(l, data) == LET n == NewNode(l, data) IN InsertAfter(n, NewIndex(l), n.prev[TAIL])

\* unlink: the neighbours skip over the node, whose own links become NULL.
\* A NULL neighbour (a freed node) is outside the domain of the links.
Unlink(l, i) ==
    LET p == l.prev[i]
        n == l.next[i]
    IN  [l EXCEPT !.next = [@ EXCEPT ![i] = NULL, ![p] = n],
                  !.prev = [@ EXCEPT ![i] = NULL, ![n] = p]]

Freed(l, i) == [Unlink(l, i) EXCEPT !.free = Append(@, i), !.data = [@ EXCEPT ![i] = NULL]]

\* A promotion behind the node that is the head.
Promoted_Behind(l, i) ==
    IF l.next[HEAD] = i THEN l ELSE InsertAfter(Unlink(l, i), i, l.next[HEAD])

\* promote: to the head, unless the node is the head already.
Promoted(l, i) == IF l.next[HEAD] = i THEN l ELSE InsertAfter(Unlink(l, i), i, HEAD)

\* tail(): the index of the last node, HEAD when the list is empty.
TailIndex(l) == l.prev[TAIL]

\* The nodes a walk visits from one sentinel to the other (LinkedListIter): link
\* is the link of a node, NULL that of the sentinel the walk ends on.
Walk(links, from, to) ==
    LET link(i) == IF i \in {to, NULL} THEN NULL ELSE links[i]
        at[n \in 0..Cardinality(DOMAIN links)] == IF n = 0 THEN from ELSE link(at[n - 1])
    IN  SelectSeq([n \in 1..Cardinality(DOMAIN links) |-> at[n]], LAMBDA i : i \notin {to, NULL})

Forward(l) == Walk(l.next, HEAD, TAIL)

Backward(l) == Walk(l.prev, TAIL, HEAD)

\* The nodes of the list, most recent first.
Nodes(l) == LET f == Forward(l) IN [k \in DOMAIN f |-> [slot |-> f[k], data |-> l.data[f[k]]]]

Linked == Slots(list) \ ToSet(list.free)

Call(op, arg, ret) == [op |-> op, arg |-> arg, ret |-> ret]

Init == list = EmptyList /\ call = Call("with_capacity", NULL, NULL)

\* The arena has room: a freed slot, or a new one within the bound.
HasRoom == NewIndex(list) < MaxSlots + OFFSET

PushHead(d) ==
    HasRoom /\ list' = PushedHead(list, d) /\ call' = Call("push_head", d, NewIndex(list))

PushTail(d) ==
    HasRoom /\ list' = PushedTail(list, d) /\ call' = Call("push_tail", d, NewIndex(list))

RemoveNode(i) ==
    i \in Linked /\ list' = Freed(list, i) /\ call' = Call("remove", i, list.data[i])

PopTail ==
    LET t == TailIndex(list)
    IN  IF t = HEAD THEN list' = list /\ call' = Call("pop_tail", NULL, NULL)
        ELSE list' = Freed(list, t) /\ call' = Call("pop_tail", NULL, list.data[t])

Promote(i) ==
    i \in Linked /\ list' = Promoted(list, i) /\ call' = Call("promote", i, NULL)

Next ==
    \/ \E d \in Items : PushHead(d) \/ PushTail(d)
    \/ \E i \in Slots(list) : RemoveNode(i) \/ Promote(i)
    \/ PopTail

Spec == Init /\ [][Next]_vars

-----------------------------------------------------------------------------
\* The links are one chain: the walk back (next_back) is the walk forth reversed,
\* it visits every slot that is not free, and a freed slot is on the stack once
\* and has no links (unlink asserts on them).
WellFormed ==
    /\ Backward(list) = Reverse(Forward(list))
    /\ ToSet(Forward(list)) = Linked
    /\ IsInjective(Forward(list)) /\ IsInjective(list.free)
    /\ \A i \in ToSet(list.free) : list.prev[i] = NULL /\ list.next[i] = NULL

Abstract == INSTANCE ListOrder WITH order <- Nodes(list), Nothing <- NULL

\* The list is a sequence of nodes: each operation on the links, with the argument
\* it was given, is the step on the sequence that its name says and returns what
\* that step returns, whichever freed slot a new node takes (push_head(),
\* push_tail(), remove(), pop_tail() and promote()).
ImplementsListOrder == Abstract!Spec

\* The links are sound and show the sequence.
ListKept == []WellFormed /\ ImplementsListOrder
=============================================================================
