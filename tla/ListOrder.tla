----------------------------- MODULE ListOrder -----------------------------
(***************************************************************************)
(* What a list promises its users: a sequence of nodes, each a slot (the   *)
(* index push_head and push_tail return) and its payload.  `call` is the   *)
(* last operation with what it was given and what it returned, so that     *)
(* every operation is bound to the change that its name says.              *)
(***************************************************************************)
EXTENDS Naturals, Sequences, SequencesExt

CONSTANT Items, Nothing

VARIABLES order, call

Call(op, arg, ret) == [op |-> op, arg |-> arg, ret |-> ret]

Init == order = <<>> /\ call = Call("with_capacity", Nothing, Nothing)

SlotsUsed == {order[k].slot : k \in DOMAIN order}

\* The new node is on a slot no other node has.
PushHead(d) ==
    /\ call' = Call("push_head", d, call'.ret) /\ call'.ret \notin SlotsUsed
    /\ order' = <<[slot |-> call'.ret, data |-> d]>> \o order

PushTail(d) ==
    /\ call' = Call("push_tail", d, call'.ret) /\ call'.ret \notin SlotsUsed
    /\ order' = Append(order, [slot |-> call'.ret, data |-> d])

\* The payload of the node taken out goes to the caller.
RemoveNode(k) ==
    /\ call' = Call("remove", order[k].slot, order[k].data)
    /\ order' = RemoveAt(order, k)

PopTail ==
    /\ call' = Call("pop_tail", Nothing, IF order = <<>> THEN Nothing ELSE Last(order).data)
    /\ order' = IF order = <<>> THEN order ELSE Front(order)

Promote(k) ==
    /\ call' = Call("promote", order[k].slot, Nothing)
    /\ order' = <<order[k]>> \o RemoveAt(order, k)

Next ==
    \/ \E d \in Items : PushHead(d) \/ PushTail(d)
    \/ \E k \in DOMAIN order : RemoveNode(k) \/ Promote(k)
    \/ PopTail

Spec == Init /\ [][Next]_<<order, call>>
=============================================================================
