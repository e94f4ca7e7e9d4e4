---------------------------- MODULE ListContents ----------------------------
(***************************************************************************)
(* What list.c promises: lists of values, changed at either end, in the    *)
(* middle, by rotation and by moving all elements of one to another.       *)
(***************************************************************************)
EXTENDS Integers, Sequences, SequencesExt

CONSTANTS Lists, Values

VARIABLE contents   \* per list, its values from head to tail

Init == contents = [l \in Lists |-> <<>>]

AddHead(l, v) == contents' = [contents EXCEPT ![l] = <<v>> \o @]

AddTail(l, v) == contents' = [contents EXCEPT ![l] = Append(@, v)]

\* Before position i, or after it.
Insert(l, i, v) == contents' = [contents EXCEPT ![l] = InsertAt(@, i, v)]

Delete(l, i) == contents' = [contents EXCEPT ![l] = RemoveAt(@, i)]

Rotate(l) ==
    /\ Len(contents[l]) > 1
    /\ contents' = [contents EXCEPT ![l] = <<Last(@)>> \o Front(@)]

Join(l, o) ==
    /\ l # o
    /\ contents' = [contents EXCEPT ![l] = @ \o contents[o], ![o] = <<>>]

\* A list just created gets the values of another.
Copy(l, o) ==
    /\ contents[o] = <<>>
    /\ contents' = [contents EXCEPT ![o] = contents[l]]

Clear(l) == contents' = [contents EXCEPT ![l] = <<>>]

Next ==
    \E l \in Lists :
        \/ \E v \in Values : AddHead(l, v) \/ AddTail(l, v)
        \/ \E v \in Values, i \in 1..(Len(contents[l]) + 1) : Insert(l, i, v)
        \/ \E i \in 1..Len(contents[l]) : Delete(l, i)
        \/ Rotate(l) \/ Clear(l)
        \/ \E o \in Lists : Join(l, o) \/ Copy(l, o)

Spec == Init /\ [][Next]_contents
=============================================================================
