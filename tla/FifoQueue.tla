----------------------------- MODULE FifoQueue -----------------------------
(***************************************************************************)
(* What a bounded blocking queue promises: items leave it in the order in  *)
(* which they entered, each goes to one consumer, and nothing enters a     *)
(* queue that is full.                                                     *)
(***************************************************************************)
EXTENDS Integers, Sequences

CONSTANTS Consumers, Items, NULL, Capacity

VARIABLES
    q,      \* the items, oldest first
    got     \* per consumer: what its last pop returned, NULL if it failed

Init ==
    /\ q = <<>>
    /\ got = [c \in Consumers |-> NULL]

Enter(x) ==
    /\ Len(q) < Capacity
    /\ q' = Append(q, x)
    /\ UNCHANGED got

Leave(c) ==
    /\ q # <<>>
    /\ got' = [got EXCEPT ![c] = Head(q)]
    /\ q' = Tail(q)

GiveUp(c) ==
    /\ got' = [got EXCEPT ![c] = NULL]
    /\ UNCHANGED q

Discard ==
    /\ q' = <<>>
    /\ UNCHANGED got

Next ==
    \/ \E x \in Items : Enter(x)
    \/ \E c \in Consumers : Leave(c) \/ GiveUp(c)
    \/ Discard

Spec == Init /\ [][Next]_<<q, got>>
============================================================================
