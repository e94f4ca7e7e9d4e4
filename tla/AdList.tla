-------------------------------- MODULE AdList --------------------------------
(***************************************************************************)
(* The doubly linked list of list.c, pointer by pointer.  cmd_list,        *)
(* reconn_list and free_ac_list are such lists; the other modules take     *)
(* them to be sequences, which is what RefinesContents shows.              *)
(***************************************************************************)
EXTENDS Integers, FiniteSets, Sequences, SequencesExt

CONSTANTS
    Nodes,      \* the cells malloc can return; bounds the elements
    Lists,      \* list structures
    Values,     \* what listNode.value can point to
    NULL,
    JoinEmpty   \* whether listJoin is called with an empty second list

ASSUME ListConstants ==
    NULL \notin Nodes /\ IsFiniteSet(Nodes) /\ JoinEmpty \in BOOLEAN

VARIABLES
    head, tail, len,    \* per list
    prev, next, value,  \* per node
    alloc,              \* nodes allocated
    iter                \* a listIter in use, with the list and what it
                        \* has returned; todo is what it must still return

listVars == <<head, tail, len>>
nodeVars == <<prev, next, value, alloc>>
vars == <<listVars, nodeVars, iter>>

NoIter == [list |-> NULL, at |-> NULL, dir |-> "head", cur |-> NULL,
           todo |-> <<>>]

Init ==
    /\ head = [l \in Lists |-> NULL]
    /\ tail = [l \in Lists |-> NULL]
    /\ len = [l \in Lists |-> 0]
    /\ prev = [n \in Nodes |-> NULL]
    /\ next = [n \in Nodes |-> NULL]
    /\ value = [n \in Nodes |-> NULL]
    /\ alloc = {}
    /\ iter = NoIter

\* The node reached from n by k steps of link, or NULL.
Steps(link, n, k) ==
    LET at[i \in 0..k] == IF i = 0 THEN n
                          ELSE IF at[i - 1] = NULL THEN NULL
                          ELSE link[at[i - 1]]
    IN  at[k]

\* The nodes met from n along link, cut off where a cycle would begin.
Walk(link, n) ==
    LET reached == {k \in 1..Cardinality(Nodes) : Steps(link, n, k - 1) # NULL}
    IN  [k \in 1..Cardinality(reached) |-> Steps(link, n, k - 1)]

Forward(l) == Walk(next, head[l])
Backward(l) == Walk(prev, tail[l])

\* A list is changed during an iteration only by deleting the node the
\* iterator returned last (the rule stated above listNext).
Free(l) == iter.list # l

------------------------------------------------------------------------------
(* Insertion and deletion *)

listAddNodeHead(l, v) ==
    /\ Free(l)
    /\ \E n \in Nodes \ alloc :
          /\ alloc' = alloc \cup {n}
          /\ value' = [value EXCEPT ![n] = v]
          /\ head' = [head EXCEPT ![l] = n]
          /\ IF len[l] = 0
             THEN /\ tail' = [tail EXCEPT ![l] = n]
                  /\ prev' = [prev EXCEPT ![n] = NULL]
                  /\ next' = [next EXCEPT ![n] = NULL]
             ELSE /\ prev' = [prev EXCEPT ![n] = NULL, ![head[l]] = n]
                  /\ next' = [next EXCEPT ![n] = head[l]]
                  /\ UNCHANGED tail
    /\ len' = [len EXCEPT ![l] = @ + 1]
    /\ UNCHANGED iter

listAddNodeTail(l, v) ==
    /\ Free(l)
    /\ \E n \in Nodes \ alloc :
          /\ alloc' = alloc \cup {n}
          /\ value' = [value EXCEPT ![n] = v]
          /\ tail' = [tail EXCEPT ![l] = n]
          /\ IF len[l] = 0
             THEN /\ head' = [head EXCEPT ![l] = n]
                  /\ prev' = [prev EXCEPT ![n] = NULL]
                  /\ next' = [next EXCEPT ![n] = NULL]
             ELSE /\ prev' = [prev EXCEPT ![n] = tail[l]]
                  /\ next' = [next EXCEPT ![n] = NULL, ![tail[l]] = n]
                  /\ UNCHANGED head
    /\ len' = [len EXCEPT ![l] = @ + 1]
    /\ UNCHANGED iter

\* The neighbours a node inserted next to old gets.
NewPrev(old, after) == IF after THEN old ELSE prev[old]
NewNext(old, after) == IF after THEN next[old] ELSE old

listInsertNode(l, old, v, after) ==
    /\ Free(l)
    /\ \E n \in Nodes \ alloc :
          LET p == NewPrev(old, after)
              x == NewNext(old, after)
          IN  /\ alloc' = alloc \cup {n}
              /\ value' = [value EXCEPT ![n] = v]
              /\ tail' = [tail EXCEPT ![l] = IF after /\ @ = old THEN n ELSE @]
              /\ head' = [head EXCEPT ![l] = IF ~after /\ @ = old THEN n ELSE @]
              /\ prev' = [m \in Nodes |-> IF m = n THEN p
                                          ELSE IF m = x THEN n ELSE prev[m]]
              /\ next' = [m \in Nodes |-> IF m = n THEN x
                                          ELSE IF m = p THEN n ELSE next[m]]
    /\ len' = [len EXCEPT ![l] = @ + 1]
    /\ UNCHANGED iter

\* What listDelNode makes of the tail pointer.
FaultyTailAfter(l, n) == tail[l]
TailAfter(l, n) == IF next[n] = NULL THEN prev[n] ELSE tail[l]

listDelNode(l, n) ==
    /\ iter.list = l => n = iter.cur
    /\ head' = [head EXCEPT ![l] = IF prev[n] = NULL THEN next[n] ELSE @]
    /\ tail' = [tail EXCEPT ![l] = TailAfter(l, n)]
    /\ next' = [m \in Nodes |-> IF m = prev[n] THEN next[n] ELSE next[m]]
    /\ prev' = [m \in Nodes |-> IF m = next[n] THEN prev[n] ELSE prev[m]]
    /\ alloc' = alloc \ {n}
    /\ len' = [len EXCEPT ![l] = @ - 1]
    /\ iter' = IF iter.list = l THEN [iter EXCEPT !.cur = NULL] ELSE iter
    /\ UNCHANGED value

\* listEmpty frees len nodes from the head; listRelease is listEmpty.
listEmpty(l) ==
    /\ Free(l)
    /\ alloc' = alloc \ {Steps(next, head[l], k) : k \in 0..(len[l] - 1)}
    /\ head' = [head EXCEPT ![l] = NULL]
    /\ tail' = [tail EXCEPT ![l] = NULL]
    /\ len' = [len EXCEPT ![l] = 0]
    /\ UNCHANGED <<prev, next, value, iter>>

listRotate(l) ==
    /\ Free(l) /\ len[l] > 1
    /\ LET t == tail[l]
       IN  /\ tail' = [tail EXCEPT ![l] = prev[t]]
           /\ prev' = [prev EXCEPT ![head[l]] = t, ![t] = NULL]
           /\ next' = [next EXCEPT ![prev[t]] = NULL, ![t] = head[l]]
           /\ head' = [head EXCEPT ![l] = t]
    /\ UNCHANGED <<len, value, alloc, iter>>

listJoin(l, o) ==
    /\ l # o /\ Free(l) /\ Free(o)
    /\ JoinEmpty \/ len[o] > 0
    /\ prev' = [n \in Nodes |-> IF n = head[o] THEN tail[l] ELSE prev[n]]
    /\ next' = [n \in Nodes |-> IF n = tail[l] THEN head[o] ELSE next[n]]
    /\ head' = [head EXCEPT ![l] = IF tail[l] = NULL THEN head[o] ELSE @,
                            ![o] = NULL]
    /\ tail' = [tail EXCEPT ![l] = tail[o], ![o] = NULL]
    /\ len' = [len EXCEPT ![l] = @ + len[o], ![o] = 0]
    /\ UNCHANGED <<value, alloc, iter>>

\* The value copied to position i, met by an iterator from the head. Faulty:
\* from the tail.
FaultyCopied(l, i) == value[Backward(l)[i]]
Copied(l, i) == value[Forward(l)[i]]

\* listDup into a list just created.  When malloc fails, what was copied is
\* released again and nothing has changed.
listDup(l, o) ==
    /\ l # o /\ Free(l) /\ Free(o) /\ len[o] = 0
    /\ \E copy \in [1..Len(Forward(l)) -> Nodes \ alloc] :
          LET n == Len(copy)
              pos(m) == CHOOSE i \in 1..n : copy[i] = m
              new == ToSet(copy)
          IN  /\ n > 0 /\ Cardinality(new) = n
              /\ alloc' = alloc \cup new
              /\ value' = [m \in Nodes |-> IF m \in new
                                           THEN Copied(l, pos(m))
                                           ELSE value[m]]
              /\ prev' = [m \in Nodes |-> IF m \notin new THEN prev[m]
                                          ELSE IF pos(m) = 1 THEN NULL
                                          ELSE copy[pos(m) - 1]]
              /\ next' = [m \in Nodes |-> IF m \notin new THEN next[m]
                                          ELSE IF pos(m) = n THEN NULL
                                          ELSE copy[pos(m) + 1]]
              /\ head' = [head EXCEPT ![o] = copy[1]]
              /\ tail' = [tail EXCEPT ![o] = copy[n]]
              /\ len' = [len EXCEPT ![o] = n]
    /\ UNCHANGED iter

------------------------------------------------------------------------------
(* Iteration and lookup *)

\* listGetIterator, listRewind and listRewindTail.
listRewind(l, dir) ==
    /\ iter = NoIter
    /\ iter' = [list |-> l, dir |-> dir, cur |-> NULL,
                at |-> IF dir = "head" THEN head[l] ELSE tail[l],
                todo |-> IF dir = "head" THEN Forward(l)
                                         ELSE Reverse(Forward(l))]
    /\ UNCHANGED <<listVars, nodeVars>>

\* Where listNext leaves iter->next when it returns n.
FaultyAfterNext(n) == next[n]
AfterNext(n) == IF iter.dir = "head" THEN next[n] ELSE prev[n]

\* The iterator is released when listNext has returned NULL.
listNext ==
    /\ iter.list # NULL
    /\ iter' = IF iter.at = NULL THEN NoIter
               ELSE [iter EXCEPT !.at = AfterNext(iter.at), !.cur = iter.at,
                                 !.todo = Tail(@)]
    /\ UNCHANGED <<listVars, nodeVars>>

\* listIndex.
FromTail(i) == (-i) - 1
listIndex(l, i) == IF i < 0 THEN Steps(prev, tail[l], FromTail(i))
                            ELSE Steps(next, head[l], i)

\* listSearchKey without a match method: from the head until the value is key
\* or the list ends.
listSearchKey(l, key) ==
    LET at[k \in 0..Cardinality(Nodes)] ==
            IF k = 0 THEN head[l]
            ELSE IF at[k - 1] = NULL \/ value[at[k - 1]] = key THEN at[k - 1]
            ELSE next[at[k - 1]]
    IN  at[Cardinality(Nodes)]

Next ==
    \/ \E l \in Lists :
          \/ \E v \in Values : listAddNodeHead(l, v) \/ listAddNodeTail(l, v)
          \/ \E n \in ToSet(Forward(l)), v \in Values, after \in BOOLEAN :
                listInsertNode(l, n, v, after)
          \/ \E n \in ToSet(Forward(l)) : listDelNode(l, n)
          \/ listEmpty(l) \/ listRotate(l)
          \/ \E o \in Lists : listJoin(l, o) \/ listDup(l, o)
          \/ \E dir \in {"head", "tail"} : listRewind(l, dir)
    \/ listNext

Spec == Init /\ [][Next]_vars

------------------------------------------------------------------------------
(* Properties *)

\* Read from either end a list shows the same nodes, as many as len says, and
\* the lists share no node: every pointer update of list.c leaves both chains
\* consistent. The allocated nodes are those on a list: nothing is leaked and
\* nothing freed is still linked.
WellFormed ==
    /\ \A l \in Lists :
          /\ Backward(l) = Reverse(Forward(l))
          /\ len[l] = Len(Forward(l))
    /\ \A l, o \in Lists :
          l # o => ToSet(Forward(l)) \cap ToSet(Forward(o)) = {}
    /\ alloc = UNION {ToSet(Forward(l)) : l \in Lists}

\* An iterator is about to return exactly the nodes it has not returned yet,
\* although nodes it returned were deleted on the way ("It's valid to remove
\* the currently returned element", list.c:215), and the lookups see the list as
\* it is read from its head: listIndex counts from the head, or from the tail
\* for negative indexes (-1 is the last), and is NULL out of range, and
\* listSearchKey returns the match nearest to the head.
TraversalsAgree ==
    /\ iter.list # NULL =>
          iter.at = IF iter.todo = <<>> THEN NULL ELSE Head(iter.todo)
    /\ \A l \in Lists :
          LET s == Forward(l)
              first(v) == SelectInSeq(s, LAMBDA n : value[n] = v)
          IN  /\ \A i \in -(Cardinality(Nodes) + 1)..Cardinality(Nodes) :
                    LET p == IF i < 0 THEN Len(s) + i + 1 ELSE i + 1
                    IN  listIndex(l, i) = IF p \in 1..Len(s) THEN s[p] ELSE NULL
              /\ \A v \in Values :
                    listSearchKey(l, v) = IF first(v) = 0 THEN NULL
                                                          ELSE s[first(v)]

\* The lists as sequences of values, by their positions.
Contents == INSTANCE ListContents WITH
    contents <- [l \in Lists |-> [k \in 1..len[l] |-> value[listIndex(l, k - 1)]]]

\* Every operation of list.c does to the sequence of values what it says.
RefinesContents == Contents!Spec
==============================================================================
