---------------------------- MODULE AdListProofs ----------------------------
(***************************************************************************)
(* Proofs about AdList, for any number of nodes, lists and values: the     *)
(* lists stay linked both ways, iterators and lookups see them as they     *)
(* are read from the head, and list.c does to the sequences of values what *)
(* ListContents says.                                                      *)
(***************************************************************************)
EXTENDS AdList, FiniteSetTheorems, SequenceTheorems, WellFoundedInduction, TLAPS

\* A nonempty set of natural numbers has a least element.
LEMMA LeastNatural ==
    ASSUME NEW S \in SUBSET Nat, S # {}
    PROVE  \E n \in S : \A m \in S : n <= m
<1> DEFINE R == {ss \in Nat \X Nat : ss[1] < ss[2]}
<1>1. IsWellFoundedOn(R, Nat)
  BY NatLessThanWellFounded, Zenon DEF OpToRel
<1>2. PICK n \in S : \A m \in S : <<m, n>> \notin R
  <2> HIDE DEF R
  <2> QED BY <1>1, WFMin
<1>3. \A m \in S : n <= m
  <2> TAKE m \in S
  <2>1. <<m, n>> \notin R /\ m \in Nat /\ n \in Nat
    BY <1>2
  <2> QED BY <2>1
<1> QED BY <1>3

\* Induction over the natural numbers, for a property given as a set.
LEMMA InductiveSet ==
    ASSUME NEW P, 0 \in P, \A n \in Nat : n \in P => n + 1 \in P
    PROVE  \A n \in Nat : n \in P
<1> SUFFICES ASSUME NEW k \in Nat, k \notin P PROVE FALSE
  OBVIOUS
<1> DEFINE U == {n \in Nat : n \notin P}
<1>1. PICK j \in U : \A i \in U : j <= i
  <2>1. U \in SUBSET Nat /\ U # {}
    OBVIOUS
  <2> HIDE DEF U
  <2> QED BY <2>1, LeastNatural
<1>2. j \in Nat /\ j # 0 /\ j \notin P
  OBVIOUS
<1>3. j - 1 \in Nat /\ j - 1 \notin P
  BY <1>2
<1>4. j - 1 \in U
  BY <1>3
<1> QED BY <1>1, <1>2, <1>4

\* s is the path of nodes from n along link.
Path(link, n, s) ==
    /\ s \in Seq(Nodes)
    /\ n = IF s = << >> THEN NULL ELSE s[1]
    /\ \A i \in 1..Len(s) : link[s[i]] = IF i = Len(s) THEN NULL ELSE s[i + 1]

\* Following a path of nodes k times meets its node k, or its end: what the loops of
\* listIndex and listEmpty walk over.
LEMMA StepsOnPath ==
    ASSUME NEW link, NEW n, NEW s, Path(link, n, s), NEW k \in Nat
    PROVE  Steps(link, n, k) = IF k < Len(s) THEN s[k + 1] ELSE NULL
<1> DEFINE g == [i \in 0..k |-> IF i < Len(s) THEN s[i + 1] ELSE NULL]
           Step(f) == [i \in 0..k |-> IF i = 0 THEN n
                                      ELSE IF f[i - 1] = NULL THEN NULL
                                      ELSE link[f[i - 1]]]
<1>0. Len(s) \in Nat /\ (s = << >> <=> Len(s) = 0) /\ \A i \in 1..Len(s) : s[i] \in Nodes
  BY LenProperties, EmptySeq DEF Path
<1>1. g = Step(g)
  <2>1. ASSUME NEW i \in 0..k PROVE g[i] = Step(g)[i]
    <3>1. CASE i = 0
      BY <3>1, <1>0 DEF Path
    <3>2. CASE i # 0
      <4>1. i - 1 \in 0..k /\ i - 1 \in Nat /\ i - 1 + 1 = i
        BY <3>2
      <4>2. CASE i - 1 < Len(s)
        <5>1. i \in 1..Len(s) /\ g[i - 1] = s[i] /\ g[i - 1] # NULL
          BY <4>1, <4>2, <1>0, ListConstants
        <5>2. link[s[i]] = IF i = Len(s) THEN NULL ELSE s[i + 1]
          BY <5>1 DEF Path
        <5> QED BY <5>1, <5>2, <3>2, <1>0
      <4>3. CASE ~(i - 1 < Len(s))
        BY <4>1, <4>3, <3>2, <1>0
      <4> QED BY <4>2, <4>3
    <3> QED BY <3>1, <3>2
  <2> QED BY <2>1
<1>2. ASSUME NEW f, f = Step(f) PROVE f = g
  <2> DEFINE P == {i \in Nat : i <= k => f[i] = g[i]}
  <2>1. 0 \in P
    <3>1. Step(f)[0] = n /\ Step(g)[0] = n
      OBVIOUS
    <3> QED BY <3>1, <1>1, <1>2
  <2>2. ASSUME NEW i \in Nat, i \in P PROVE i + 1 \in P
    <3> SUFFICES ASSUME i + 1 <= k PROVE f[i + 1] = g[i + 1]
      OBVIOUS
    <3>1. i \in 0..k /\ i + 1 \in 0..k /\ i + 1 # 0 /\ (i + 1) - 1 = i /\ f[i] = g[i]
      BY <2>2
    <3> HIDE DEF g
    <3>2. Step(f)[i + 1] = Step(g)[i + 1]
      BY <3>1
    <3> HIDE DEF Step
    <3> QED BY <3>2, <1>1, <1>2
  <2> HIDE DEF P, g, Step
  <2>3. \A i \in Nat : i \in P
    BY <2>1, <2>2, InductiveSet
  <2>4. \A i \in 0..k : f[i] = g[i]
    BY <2>3 DEF P
  <2>5. f = [i \in 0..k |-> f[i]]
    <3>1. Step(f) = [i \in 0..k |-> Step(f)[i]]
      BY DEF Step
    <3> QED BY <3>1, <1>2
  <2>6. g = [i \in 0..k |-> g[i]]
    BY DEF g
  <2> QED BY <2>4, <2>5, <2>6
<1> HIDE DEF g
<1>3. (CHOOSE f : f = Step(f)) = g
  BY <1>1, <1>2
<1>4. Steps(link, n, k) = (CHOOSE f : f = Step(f))[k]
  BY DEF Steps
<1>5. g[k] = IF k < Len(s) THEN s[k + 1] ELSE NULL
  BY DEF g
<1> HIDE DEF Step
<1> QED BY <1>3, <1>4, <1>5

\* No node is met twice.
Distinct(s) == \A i, j \in 1..Len(s) : s[i] = s[j] => i = j

\* How many numbers there are from 1 to n.
LEMMA CountTo ==
    ASSUME NEW n \in Nat
    PROVE  IsFiniteSet(1..n) /\ Cardinality(1..n) = n
<1>1. /\ IsFiniteSet(1..n)
      /\ Cardinality(1..n) = IF 1 > n THEN 0 ELSE n - 1 + 1
  BY FS_Interval
<1> QED BY <1>1

\* A path that meets no node twice is no longer than there are nodes.
LEMMA PathBound ==
    ASSUME NEW s \in Seq(Nodes), Distinct(s)
    PROVE  Len(s) <= Cardinality(Nodes) /\ Cardinality(Nodes) \in Nat
<1>1. s \in [1..Len(s) -> Nodes] /\ Len(s) \in Nat
  BY LenProperties
<1>2. s \in Injection(1..Len(s), Nodes)
  BY <1>1 DEF Injection, IsInjective, Distinct
<1>3. IsFiniteSet(1..Len(s)) /\ Cardinality(1..Len(s)) = Len(s)
  BY <1>1, CountTo
<1>4. Cardinality(1..Len(s)) <= Cardinality(Nodes)
  BY <1>2, FS_Injection, ListConstants
<1> QED BY <1>3, <1>4, FS_CardinalityType, ListConstants

\* A walk along a path, cut off after as many steps as there are nodes, is the path.
LEMMA WalkOnPath ==
    ASSUME NEW link, NEW n, NEW s, Path(link, n, s), Distinct(s)
    PROVE  Walk(link, n) = s
<1> DEFINE N == Cardinality(Nodes)
           reached == {k \in 1..N : Steps(link, n, k - 1) # NULL}
<1>1. s \in Seq(Nodes) /\ Len(s) \in Nat /\ \A i \in 1..Len(s) : s[i] \in Nodes
  BY LenProperties, ElementOfSeq DEF Path
<1>2. N \in Nat /\ Len(s) <= N
  BY <1>1, PathBound
<1>3. ASSUME NEW k \in 1..N
      PROVE  Steps(link, n, k - 1) = IF k <= Len(s) THEN s[k] ELSE NULL
  <2>1. k - 1 \in Nat /\ (k - 1) + 1 = k /\ (k - 1 < Len(s) <=> k <= Len(s))
    BY <1>1, <1>2
  <2>2. Steps(link, n, k - 1) = IF k - 1 < Len(s) THEN s[(k - 1) + 1] ELSE NULL
    BY <2>1, StepsOnPath
  <2> QED BY <2>1, <2>2
<1> HIDE DEF N
<1>4. reached = 1..Len(s)
  <2>1. ASSUME NEW k \in 1..N PROVE Steps(link, n, k - 1) # NULL <=> k <= Len(s)
    <3>1. CASE k <= Len(s)
      BY <3>1, <1>1, <1>2, <1>3, ListConstants, SMTT(60)
    <3>2. CASE ~(k <= Len(s))
      BY <3>2, <1>3
    <3> QED BY <3>1, <3>2
  <2> QED BY <2>1, <1>1, <1>2
<1>5. Cardinality(reached) = Len(s)
  BY <1>1, <1>4, CountTo
<1>6. Walk(link, n) = [k \in 1..Cardinality(reached) |-> Steps(link, n, k - 1)]
  BY DEF Walk, N
<1> HIDE DEF reached
<1>7. Walk(link, n) = [k \in 1..Len(s) |-> Steps(link, n, k - 1)]
  BY <1>5, <1>6
<1>8. \A k \in 1..Len(s) : Steps(link, n, k - 1) = s[k]
  BY <1>1, <1>2, <1>3
<1>9. s = [k \in 1..Len(s) |-> s[k]]
  BY <1>1
<1> QED BY <1>7, <1>8, <1>9
-----------------------------------------------------------------------------
(* The invariant *)

\* What head, tail, next and prev are when a list consists of the nodes s.
First(s) == IF Len(s) = 0 THEN NULL ELSE s[1]
Final(s) == IF Len(s) = 0 THEN NULL ELSE s[Len(s)]
After(s, i) == IF i = Len(s) THEN NULL ELSE s[i + 1]
Before(s, i) == IF i = 1 THEN NULL ELSE s[i - 1]

\* List l consists of the nodes s, linked both ways.
Chain(l, s) ==
    /\ head[l] = First(s) /\ tail[l] = Final(s) /\ len[l] = Len(s)
    /\ \A i \in 1..Len(s) : next[s[i]] = After(s, i) /\ prev[s[i]] = Before(s, i)

\* A node is at one place of one list.
Apart(c) ==
    \A l, o \in Lists : \A i \in 1..Len(c[l]), j \in 1..Len(c[o]) :
       c[l][i] = c[o][j] => l = o /\ i = j

\* The allocated nodes are those on a list.
Allocated(c) == \A n : n \in alloc <=> \E l \in Lists : \E i \in 1..Len(c[l]) : c[l][i] = n

\* Every list l consists of the nodes c[l].
Linked(c) ==
    /\ c \in [Lists -> Seq(Nodes)]
    /\ \A l \in Lists : Chain(l, c[l])
    /\ Apart(c) /\ Allocated(c)

Cell == Nodes \cup {NULL}

\* The types of the pointers and of the iterator.
Types ==
    /\ head \in [Lists -> Cell] /\ tail \in [Lists -> Cell] /\ len \in [Lists -> Nat]
    /\ prev \in [Nodes -> Cell] /\ next \in [Nodes -> Cell]
    /\ DOMAIN value = Nodes /\ value = [n \in Nodes |-> value[n]]

IterTypes ==
    iter \in [list : Lists \cup {NULL}, at : Cell, dir : {"head", "tail"}, cur : Cell,
              todo : Seq(Nodes)]

\* An iterator from the head has passed k nodes of s, one from the tail all but k:
\* it still returns the others, in its order.
HeadCursor(s, k) ==
    /\ iter.dir = "head"
    /\ Len(iter.todo) = Len(s) - k
    /\ \A i \in 1..Len(iter.todo) : iter.todo[i] = s[k + i]
    /\ iter.at = IF k = Len(s) THEN NULL ELSE s[k + 1]
    /\ iter.cur # NULL => k # 0 /\ iter.cur = s[k]
TailCursor(s, k) ==
    /\ iter.dir = "tail"
    /\ Len(iter.todo) = k
    /\ \A i \in 1..Len(iter.todo) : iter.todo[i] = s[(k - i) + 1]
    /\ iter.at = IF k = 0 THEN NULL ELSE s[k]
    /\ iter.cur # NULL => k # Len(s) /\ iter.cur = s[k + 1]
\* Where an iterator over the nodes s is, and the invariant: there are sequences of
\* nodes the lists consist of, one of them read by the iterator.
Cursor(s) == \E k \in 0..Len(s) : HeadCursor(s, k) \/ TailCursor(s, k)

IterOK(c) == iter.list \in Lists /\ iter.list # NULL => Cursor(c[iter.list])

ListInv == Types /\ IterTypes /\ \E c : Linked(c) /\ IterOK(c)

\* What is used of a sequence of nodes.
LEMMA SeqFacts ==
    ASSUME NEW s \in Seq(Nodes)
    PROVE  /\ Len(s) \in Nat /\ (s = << >> <=> Len(s) = 0)
           /\ \A i \in 1..Len(s) : s[i] \in Nodes
BY LenProperties, ElementOfSeq, EmptySeq

\* The reverse of a sequence, position by position.
LEMMA ReverseFacts ==
    ASSUME NEW s \in Seq(Nodes)
    PROVE  /\ Reverse(s) \in Seq(Nodes) /\ Len(Reverse(s)) = Len(s)
           /\ \A i \in 1..Len(s) : Reverse(s)[i] = s[(Len(s) - i) + 1]
<1>1. /\ Len(s) \in Nat
      /\ \A i \in 1..Len(s) : (Len(s) - i) + 1 \in 1..Len(s) /\ s[(Len(s) - i) + 1] \in Nodes
  BY SeqFacts
<1>2. Reverse(s) \in [1..Len(s) -> Nodes]
  BY <1>1 DEF Reverse
<1> QED BY <1>1, <1>2, SeqDef, LenProperties DEF Reverse

\* Read along next a linked list is its nodes, along prev their reverse.
LEMMA ListRead ==
    ASSUME NEW c, Linked(c), NEW l \in Lists
    PROVE  /\ Forward(l) = c[l] /\ Backward(l) = Reverse(c[l])
           /\ Path(next, head[l], c[l]) /\ Path(prev, tail[l], Reverse(c[l]))
           /\ Distinct(c[l])
<1> DEFINE s == c[l]
           r == Reverse(s)
<1>1. s \in Seq(Nodes) /\ Chain(l, s)
  BY DEF Linked
<1>2. /\ Len(s) \in Nat /\ (s = << >> <=> Len(s) = 0)
      /\ \A i \in 1..Len(s) : s[i] \in Nodes
  BY <1>1, SeqFacts
<1>3. Distinct(s)
  BY DEF Linked, Apart, Distinct
<1>4. /\ r \in Seq(Nodes) /\ Len(r) = Len(s)
      /\ \A i \in 1..Len(s) : r[i] = s[(Len(s) - i) + 1]
  BY <1>1, ReverseFacts
<1>5. r = << >> <=> Len(s) = 0
  BY <1>4, SeqFacts
<1> HIDE DEF s, r
<1>6. Path(next, head[l], s)
  BY <1>1, <1>2 DEF Path, Chain, First, After
<1>7. Path(prev, tail[l], r)
  <2>1. tail[l] = IF r = << >> THEN NULL ELSE r[1]
    BY <1>1, <1>2, <1>4, <1>5 DEF Chain, Final
  <2>2. ASSUME NEW i \in 1..Len(r)
        PROVE  prev[r[i]] = IF i = Len(r) THEN NULL ELSE r[i + 1]
    <3>1. r[i] = s[(Len(s) - i) + 1] /\ (Len(s) - i) + 1 \in 1..Len(s)
      BY <1>2, <1>4
    <3>2. prev[r[i]] = IF i = Len(s) THEN NULL ELSE s[Len(s) - i]
      BY <1>1, <1>2, <3>1 DEF Chain, Before
    <3>3. CASE i = Len(r)
      BY <1>4, <3>2, <3>3
    <3>4. CASE i # Len(r)
      <4>1. i + 1 \in 1..Len(s) /\ (Len(s) - (i + 1)) + 1 = Len(s) - i
        BY <1>2, <1>4, <3>4
      <4>2. r[i + 1] = s[Len(s) - i]
        BY <4>1, <1>4
      <4> QED BY <1>4, <3>2, <3>4, <4>2
    <3> QED BY <3>3, <3>4
  <2> QED BY <1>4, <2>1, <2>2 DEF Path
<1>8. Distinct(r)
  <2> SUFFICES ASSUME NEW i \in 1..Len(r), NEW j \in 1..Len(r), r[i] = r[j]
               PROVE  i = j
    BY DEF Distinct
  <2>1. (Len(s) - i) + 1 \in 1..Len(s) /\ (Len(s) - j) + 1 \in 1..Len(s)
    BY <1>2, <1>4
  <2>2. (Len(s) - i) + 1 = (Len(s) - j) + 1
    BY <2>1, <1>3, <1>4 DEF Distinct
  <2> QED BY <2>2, <1>2, <1>4
<1> QED BY <1>3, <1>6, <1>7, <1>8, WalkOnPath DEF Forward, Backward, s, r

\* Lists that consist of nodes no other list has are read alike from both ends.
LEMMA LinkedWellFormed ==
    ASSUME NEW c, Linked(c)
    PROVE  WellFormed
<1>1. \A l \in Lists : Forward(l) = c[l] /\ Backward(l) = Reverse(c[l])
  BY ListRead
<1>2. \A l \in Lists : c[l] \in Seq(Nodes) /\ ToSet(c[l]) = {c[l][i] : i \in 1..Len(c[l])}
  BY LenProperties DEF Linked, ToSet
<1>3. \A l \in Lists : len[l] = Len(c[l])
  BY DEF Linked, Chain
<1>4. ASSUME NEW l \in Lists, NEW o \in Lists, l # o
      PROVE  ToSet(c[l]) \cap ToSet(c[o]) = {}
  BY <1>2, <1>4 DEF Linked, Apart
<1>5. alloc = UNION {ToSet(c[l]) : l \in Lists}
  BY <1>2 DEF Linked, Allocated
<1> QED BY <1>1, <1>3, <1>4, <1>5 DEF WellFormed

-----------------------------------------------------------------------------
(* One list changed *)

\* A function on 1..n is a sequence of length n.
LEMMA FunctionSeq ==
    ASSUME NEW n \in Nat, NEW S, NEW f \in [1..n -> S]
    PROVE  f \in Seq(S) /\ Len(f) = n
<1>1. f \in Seq(S)
  BY SeqDef
<1>2. DOMAIN f = 1..n /\ DOMAIN f = 1..Len(f) /\ Len(f) \in Nat
  BY <1>1, LenProperties
<1> QED BY <1>1, <1>2

\* A list whose fields and nodes are as before.
LEMMA ChainKept ==
    ASSUME NEW l, NEW s, Chain(l, s),
           head'[l] = head[l], tail'[l] = tail[l], len'[l] = len[l],
           \A i \in 1..Len(s) : next'[s[i]] = next[s[i]] /\ prev'[s[i]] = prev[s[i]]
    PROVE  Chain(l, s)'
BY DEF Chain

\* The sequence s with n at position p, and what was there.
Put(s, p, n) ==
    [i \in 1..(Len(s) + 1) |-> IF i < p THEN s[i] ELSE IF i = p THEN n ELSE s[i - 1]]
At(s, p) == IF p = Len(s) + 1 THEN NULL ELSE s[p]

\* A new node at position p of list l.
Inserted(l, s, p, n) ==
    /\ alloc' = alloc \cup {n}
    /\ head' = [head EXCEPT ![l] = IF p = 1 THEN n ELSE @]
    /\ tail' = [tail EXCEPT ![l] = IF p = Len(s) + 1 THEN n ELSE @]
    /\ len' = [len EXCEPT ![l] = @ + 1]
    /\ prev' = [m \in Nodes |-> IF m = n THEN Before(s, p)
                                ELSE IF m = At(s, p) THEN n ELSE prev[m]]
    /\ next' = [m \in Nodes |-> IF m = n THEN At(s, p)
                                ELSE IF m = Before(s, p) THEN n ELSE next[m]]

\* An insertion leaves every list linked, with the new node at position p of l.
LEMMA InsertStep ==
    ASSUME Types, NEW c, Linked(c), NEW l \in Lists, NEW n \in Nodes \ alloc,
           NEW p \in 1..(Len(c[l]) + 1), Inserted(l, c[l], p, n)
    PROVE  Linked([c EXCEPT ![l] = Put(c[l], p, n)])'
<1> SUFFICES ASSUME NEW s, s = c[l], NEW t, t = Put(s, p, n),
                    NEW d, d = [c EXCEPT ![l] = t]
             PROVE  Linked(d)'
  OBVIOUS
<1>1. /\ s \in Seq(Nodes) /\ Len(s) \in Nat /\ (s = << >> <=> Len(s) = 0)
      /\ \A i \in 1..Len(s) : s[i] \in Nodes
  BY SeqFacts DEF Linked
<1>2. t \in Seq(Nodes) /\ Len(t) = Len(s) + 1
  <2>1. t \in [1..(Len(s) + 1) -> Nodes]
    BY <1>1 DEF Put
  <2>2. Len(s) + 1 \in Nat
    BY <1>1
  <2> QED BY <2>1, <2>2, FunctionSeq
<1>p. p \in Nat /\ 1 <= p /\ p <= Len(s) + 1 /\ p - 1 \in Nat
  BY <1>1
<1>3. d \in [Lists -> Seq(Nodes)] /\ d[l] = t /\ \A o \in Lists : o # l => d[o] = c[o]
  BY <1>2 DEF Linked
<1>4. \A i \in 1..(Len(s) + 1) : t[i] = IF i < p THEN s[i] ELSE IF i = p THEN n ELSE s[i - 1]
  BY DEF Put
<1>r. ASSUME NEW j \in 1..Len(s)
      PROVE  /\ j \in Int /\ j \in 1..Len(t) /\ j + 1 \in 1..Len(t)
             /\ j < p => t[j] = s[j]
             /\ ~(j < p) => t[j + 1] = s[j]
  <2>1. j \in Nat /\ j \in 1..(Len(s) + 1) /\ j + 1 \in 1..(Len(s) + 1) /\ (j + 1) - 1 = j
    BY <1>1
  <2>2. CASE j < p
    BY <2>1, <2>2, <1>2, <1>4
  <2>3. CASE ~(j < p)
    <3>1. ~(j + 1 < p) /\ j + 1 # p
      BY <2>1, <2>3, <1>p
    <3>2. t[j + 1] = s[(j + 1) - 1]
      BY <2>1, <3>1, <1>4
    <3> QED BY <2>1, <2>3, <3>2, <1>2
  <2> QED BY <2>2, <2>3
<1>q. ASSUME NEW i \in 1..Len(t), i # p
      PROVE  \E j \in 1..Len(s) : t[i] = s[j] /\ j = IF i < p THEN i ELSE i - 1
  <2>1. CASE i < p
    BY <1>1, <1>p, <1>2, <1>4, <2>1
  <2>2. CASE i > p
    <3>1. i - 1 \in 1..Len(s) /\ t[i] = s[i - 1]
      BY <1>1, <1>p, <1>2, <1>4, <2>2, SMTT(60)
    <3> QED BY <3>1, <2>2, <1>p
  <2> QED BY <2>1, <2>2, <1>2, <1>p, <1>q
<1>t. p \in 1..Len(t) /\ t[p] = n /\ Len(t) # 0
  <2>1. p \in 1..Len(t) /\ t[p] = n
    BY <1>1, <1>p, <1>2, <1>4
  <2> QED BY <2>1, <1>1, <1>2
<1>5. /\ \A o \in Lists : \A i \in 1..Len(c[o]) : c[o][i] # n /\ c[o][i] \in Nodes
      /\ \A o \in Lists : \A i \in 1..Len(c[o]), j \in 1..Len(s) :
            c[o][i] = s[j] => o = l /\ i = j
  BY SeqFacts DEF Linked, Apart, Allocated
<1>6. ASSUME NEW o \in Lists PROVE Chain(o, d[o])'
  <2>1. CASE o # l
    <3>1. \A i \in 1..Len(c[o]) : c[o][i] # At(s, p) /\ c[o][i] # Before(s, p)
      BY <1>1, <1>p, <1>5, <2>1, ListConstants, SMTT(60) DEF At, Before
    <3>2. \A i \in 1..Len(c[o]) : next'[c[o][i]] = next[c[o][i]] /\ prev'[c[o][i]] = prev[c[o][i]]
      BY <1>5, <3>1 DEF Inserted
    <3>3. head'[o] = head[o] /\ tail'[o] = tail[o] /\ len'[o] = len[o]
      BY <2>1 DEF Inserted, Types
    <3>4. Chain(o, c[o])
      BY DEF Linked
    <3>5. Chain(o, c[o])'
      BY <3>2, <3>3, <3>4, ChainKept
    <3>6. d[o] = c[o]
      BY <1>3, <2>1
    <3> QED BY <3>5, <3>6
  <2>2. CASE o = l
    <3>1. /\ head[l] = First(s) /\ tail[l] = Final(s) /\ len[l] = Len(s)
          /\ \A i \in 1..Len(s) : next[s[i]] = After(s, i) /\ prev[s[i]] = Before(s, i)
      BY DEF Linked, Chain
    <3>2. /\ head'[l] = IF p = 1 THEN n ELSE head[l]
          /\ tail'[l] = IF p = Len(s) + 1 THEN n ELSE tail[l]
          /\ len'[l] = Len(s) + 1
      BY <3>1 DEF Inserted, Types
    <3>3. head'[l] = First(t)
      <4>1. p # 1 => t[1] = s[1] /\ Len(s) # 0
        <5> SUFFICES ASSUME p # 1 PROVE t[1] = s[1] /\ Len(s) # 0
          OBVIOUS
        <5>1. 1 \in 1..(Len(s) + 1) /\ 1 < p
          BY <1>1, <1>p
        <5> QED BY <5>1, <1>p, <1>1, <1>4
      <4> QED BY <1>t, <3>1, <3>2, <4>1 DEF First
    <3>4. tail'[l] = Final(t)
      <4>1. p # Len(s) + 1 => t[Len(t)] = s[Len(s)] /\ Len(s) # 0
        <5> SUFFICES ASSUME p # Len(s) + 1 PROVE t[Len(s) + 1] = s[Len(s)] /\ Len(s) # 0
          BY <1>2
        <5>1. Len(s) + 1 \in 1..(Len(s) + 1) /\ p < Len(s) + 1 /\ (Len(s) + 1) - 1 = Len(s)
          BY <1>1, <1>p
        <5>2. t[Len(s) + 1] = s[(Len(s) + 1) - 1]
          BY <5>1, <1>1, <1>p, <1>4
        <5> QED BY <5>1, <5>2, <1>p, <1>1
      <4> QED BY <1>2, <1>t, <3>1, <3>2, <4>1 DEF Final
    <3>5. /\ \A m \in Nodes : m # n /\ m # At(s, p) => prev'[m] = prev[m]
          /\ \A m \in Nodes : m # n /\ m # Before(s, p) => next'[m] = next[m]
          /\ prev'[n] = Before(s, p) /\ next'[n] = At(s, p)
          /\ p # Len(s) + 1 => prev'[s[p]] = n
          /\ p # 1 => next'[s[p - 1]] = n
      <4>1. p # Len(s) + 1 => p \in 1..Len(s)
        BY <1>1, <1>p
      <4>2. p # 1 => p - 1 \in 1..Len(s)
        BY <1>1, <1>p
      <4>3. \A j \in 1..Len(s) : s[j] \in Nodes /\ s[j] # n
        BY <1>5
      <4> QED BY <4>1, <4>2, <4>3 DEF Inserted, At, Before
    <3>6. ASSUME NEW i \in 1..Len(t) PROVE next'[t[i]] = After(t, i) /\ prev'[t[i]] = Before(t, i)
      <4>1. CASE i = p
        <5>1. Before(t, p) = Before(s, p)
          BY <1>1, <1>p, <1>2, <1>4 DEF Before
        <5>2. After(t, p) = At(s, p)
          <6>1. CASE p = Len(s) + 1
            BY <6>1, <1>2 DEF After, At
          <6>2. CASE p # Len(s) + 1
            <7>1. p \in 1..Len(s) /\ p # Len(t)
              BY <6>2, <1>p, <1>1, <1>2
            <7>2. t[p + 1] = s[p]
              BY <7>1, <1>r, <1>p
            <7> QED BY <6>2, <7>1, <7>2 DEF After, At
          <6> QED BY <6>1, <6>2
        <5> QED BY <4>1, <5>1, <5>2, <3>5, <1>t
      <4>2. CASE i # p
        <5>1. PICK j \in 1..Len(s) : t[i] = s[j] /\ j = IF i < p THEN i ELSE i - 1
          BY <1>q, <4>2
        <5>2. s[j] \in Nodes /\ s[j] # n
          BY <1>5
        <5>3. next'[t[i]] = After(t, i)
          <6>1. CASE j = p - 1
            <7>1. p # 1 /\ i = p - 1 /\ i # Len(t) /\ t[i + 1] = n
              BY <5>1, <6>1, <1>1, <1>2, <1>p, <1>t, <4>2
            <7> QED BY <5>1, <6>1, <7>1, <3>5 DEF After
          <6>2. CASE j # p - 1
            <7>1. s[j] # Before(s, p)
              BY <5>2, <6>2, <1>5, <1>p, <1>1, ListConstants, SMTT(60) DEF Before
            <7>2. next'[s[j]] = After(s, j)
              BY <3>1, <3>5, <5>2, <7>1
            <7>3. After(t, i) = After(s, j)
              <8>1. CASE j = Len(s)
                <9>1. i = Len(t)
                  <10>1. CASE i < p
                    <11>1. i = Len(s) /\ i # p - 1
                      BY <10>1, <8>1, <5>1, <6>2
                    <11>2. i \in Int /\ Len(s) \in Int /\ p <= Len(s) + 1 /\ p \in Int
                      BY <1>1, <1>2, <1>p
                    <11> QED BY <10>1, <11>1, <11>2
                  <10>2. CASE ~(i < p)
                    <11>1. i - 1 = Len(s)
                      BY <10>2, <8>1, <5>1
                    <11>2. i \in Int /\ Len(s) \in Int
                      BY <1>1, <1>2
                    <11> QED BY <11>1, <11>2, <1>2
                  <10> QED BY <10>1, <10>2
                <9> QED BY <8>1, <9>1 DEF After
              <8>2. CASE j # Len(s)
                <9>1. j + 1 \in 1..Len(s) /\ (j + 1 < p <=> i < p) /\ i # Len(t)
                  BY <8>2, <5>1, <6>2, <4>2, <1>1, <1>2, <1>p, SMTT(60)
                <9>2. t[i + 1] = s[j + 1]
                  <10>1. CASE i < p
                    BY <10>1, <9>1, <5>1, <1>r
                  <10>2. CASE ~(i < p)
                    <11>1. i = j + 1 /\ t[(j + 1) + 1] = s[j + 1]
                      BY <10>2, <9>1, <5>1, <1>r, <1>2
                    <11> QED BY <11>1
                  <10> QED BY <10>1, <10>2
                <9> QED BY <8>2, <9>1, <9>2 DEF After
              <8> QED BY <8>1, <8>2
            <7> QED BY <5>1, <7>2, <7>3
          <6> QED BY <6>1, <6>2
        <5>4. prev'[t[i]] = Before(t, i)
          <6>1. CASE j = p
            <7>1. p # Len(s) + 1 /\ i = p + 1 /\ t[i - 1] = n /\ i # 1
              BY <5>1, <6>1, <1>1, <1>2, <1>p, <1>t, <4>2
            <7> QED BY <5>1, <6>1, <7>1, <3>5 DEF Before
          <6>2. CASE j # p
            <7>1. s[j] # At(s, p)
              <8>1. CASE p = Len(s) + 1
                BY <8>1, <5>2, ListConstants DEF At
              <8>2. CASE p # Len(s) + 1
                <9>1. p \in 1..Len(s)
                  BY <8>2, <1>p, <1>1
                <9> QED BY <9>1, <8>2, <6>2, <1>5 DEF At
              <8> QED BY <8>1, <8>2
            <7>2. prev'[s[j]] = Before(s, j)
              BY <3>1, <3>5, <5>2, <7>1
            <7>3. Before(t, i) = Before(s, j)
              <8>1. CASE j = 1
                <9>1. i = 1
                  BY <8>1, <5>1, <6>2, <4>2, <1>1, <1>2, <1>p
                <9> QED BY <8>1, <9>1 DEF Before
              <8>2. CASE j # 1
                <9>1. j - 1 \in 1..Len(s) /\ (j - 1 < p <=> i < p) /\ i # 1 /\ (j - 1) + 1 = j
                  BY <8>2, <5>1, <6>2, <4>2, <1>1, <1>2, <1>p, SMTT(60)
                <9>2. t[i - 1] = s[j - 1]
                  <10>1. CASE i < p
                    BY <10>1, <9>1, <5>1, <1>r
                  <10>2. CASE ~(i < p)
                    <11>1. i - 1 = j /\ t[(j - 1) + 1] = s[j - 1]
                      BY <10>2, <9>1, <5>1, <1>r, <1>2
                    <11> QED BY <11>1, <9>1
                  <10> QED BY <10>1, <10>2
                <9> QED BY <8>2, <9>1, <9>2 DEF Before
              <8> QED BY <8>1, <8>2
            <7> QED BY <5>1, <7>2, <7>3
          <6> QED BY <6>1, <6>2
        <5> QED BY <5>3, <5>4
      <4> QED BY <4>1, <4>2
    <3> QED BY <1>2, <1>3, <2>2, <3>2, <3>3, <3>4, <3>6 DEF Chain
  <2> QED BY <2>1, <2>2
<1>7. Apart(d)
  <2>1. ASSUME NEW i \in 1..Len(t), NEW j \in 1..Len(t), t[i] = t[j] PROVE i = j
    <3>1. CASE i = p \/ j = p
      BY <2>1, <3>1, <1>q, <1>t, <1>5
    <3>2. CASE i # p /\ j # p
      <4>1. PICK a \in 1..Len(s) : t[i] = s[a] /\ a = IF i < p THEN i ELSE i - 1
        BY <1>q, <3>2
      <4>2. PICK b \in 1..Len(s) : t[j] = s[b] /\ b = IF j < p THEN j ELSE j - 1
        BY <1>q, <3>2
      <4>3. a = b
        BY <4>1, <4>2, <2>1, <1>5
      <4> QED BY <4>1, <4>2, <4>3, <3>2, <1>2, <1>p
    <3> QED BY <3>1, <3>2
  <2>2. ASSUME NEW o \in Lists, NEW i \in 1..Len(c[o]), NEW j \in 1..Len(t), c[o][i] = t[j]
        PROVE  o = l
    <3>1. j # p
      BY <2>2, <1>5, <1>t
    <3> QED BY <2>2, <3>1, <1>q, <1>5
  <2>3. Apart(c)
    BY DEF Linked
  <2> QED BY <1>3, <2>1, <2>2, <2>3 DEF Apart
<1>8. Allocated(d)'
  <2>1. ASSUME NEW m PROVE (\E i \in 1..Len(t) : t[i] = m)
              <=> m = n \/ \E i \in 1..Len(s) : s[i] = m
    <3>1. ASSUME NEW i \in 1..Len(s) PROVE \E j \in 1..Len(t) : t[j] = s[i]
      BY <1>r
    <3>2. ASSUME NEW j \in 1..Len(t), t[j] # n PROVE \E i \in 1..Len(s) : s[i] = t[j]
      BY <3>2, <1>q, <1>t
    <3> QED BY <3>1, <3>2, <1>t
  <2>2. Allocated(c)
    BY DEF Linked
  <2>3. ASSUME NEW m
        PROVE  (\E o \in Lists : \E i \in 1..Len(d[o]) : d[o][i] = m)
                 <=> m = n \/ \E o \in Lists : \E i \in 1..Len(c[o]) : c[o][i] = m
    <3>1. ASSUME NEW o \in Lists
          PROVE  (\E i \in 1..Len(d[o]) : d[o][i] = m)
                   <=> (o = l /\ m = n) \/ \E i \in 1..Len(c[o]) : c[o][i] = m
      <4>1. CASE o = l
        <5>1. d[o] = t /\ c[o] = s
          BY <4>1, <1>3
        <5>2. (\E i \in 1..Len(t) : t[i] = m) <=> m = n \/ \E i \in 1..Len(s) : s[i] = m
          BY <2>1
        <5>3. (\E i \in 1..Len(d[o]) : d[o][i] = m) <=> \E i \in 1..Len(t) : t[i] = m
          BY <5>1
        <5>4. (\E i \in 1..Len(c[o]) : c[o][i] = m) <=> \E i \in 1..Len(s) : s[i] = m
          BY <5>1
        <5> QED BY <5>2, <5>3, <5>4, <4>1
      <4>2. CASE o # l
        BY <4>2, <1>3
      <4> QED BY <4>1, <4>2
    <3> QED BY <3>1
  <2> QED BY <2>2, <2>3 DEF Allocated, Inserted
<1> QED BY <1>3, <1>6, <1>7, <1>8 DEF Linked

\* An insertion keeps the types.
LEMMA InsertTypes ==
    ASSUME Types, NEW c, Linked(c), NEW l \in Lists, NEW n \in Nodes,
           NEW p \in 1..(Len(c[l]) + 1), Inserted(l, c[l], p, n),
           DOMAIN value' = Nodes /\ value' = [m \in Nodes |-> value'[m]]
    PROVE  Types'
<1> DEFINE s == c[l]
<1>1. /\ s \in Seq(Nodes) /\ Len(s) \in Nat
      /\ \A i \in 1..Len(s) : s[i] \in Nodes
  BY SeqFacts DEF Linked
<1>2. Before(s, p) \in Cell
  <2>1. CASE p = 1
    BY <2>1 DEF Before, Cell
  <2>2. CASE p # 1
    <3>1. p - 1 \in 1..Len(s)
      BY <2>2, <1>1
    <3> QED BY <2>2, <3>1, <1>1 DEF Before, Cell
  <2> QED BY <2>1, <2>2
<1>3. At(s, p) \in Cell
  <2>1. CASE p = Len(s) + 1
    BY <2>1 DEF At, Cell
  <2>2. CASE p # Len(s) + 1
    <3>1. p \in 1..Len(s)
      BY <2>2, <1>1
    <3> QED BY <2>2, <3>1, <1>1 DEF At, Cell
  <2> QED BY <2>1, <2>2
<1> HIDE DEF s
<1>4. Inserted(l, s, p, n)
  BY DEF s
<1>5. head' \in [Lists -> Cell] /\ tail' \in [Lists -> Cell]
  BY <1>4 DEF Inserted, Types, Cell
<1>6. len' \in [Lists -> Nat]
  BY <1>4 DEF Inserted, Types
<1>7. prev' \in [Nodes -> Cell] /\ next' \in [Nodes -> Cell]
  BY <1>2, <1>3, <1>4 DEF Inserted, Types, Cell
<1> QED BY <1>5, <1>6, <1>7 DEF Types

\* Where the nodes of a list come from: a node not allocated is on none.
LEMMA NodeFacts ==
    ASSUME NEW c, Linked(c), NEW l \in Lists
    PROVE  /\ c[l] \in Seq(Nodes) /\ Len(c[l]) \in Nat /\ len[l] = Len(c[l])
           /\ head[l] = First(c[l]) /\ tail[l] = Final(c[l])
           /\ \A i \in 1..Len(c[l]) :
                /\ c[l][i] \in Nodes /\ c[l][i] \in alloc
                /\ next[c[l][i]] = After(c[l], i) /\ prev[c[l][i]] = Before(c[l], i)
BY SeqFacts DEF Linked, Chain, Allocated

\* What a step makes of the sequences of nodes.
Adds(c, l, p, n, v) ==
    Inserted(l, c[l], p, n) /\ value' = [value EXCEPT ![n] = v] /\ UNCHANGED iter

\* listAddNodeHead inserts at position 1, in an empty list too.
LEMMA AddHeadInserts ==
    ASSUME Types, NEW c, Linked(c), NEW l \in Lists, NEW v, listAddNodeHead(l, v)
    PROVE  \E n \in Nodes \ alloc : Adds(c, l, 1, n, v)
<1> DEFINE s == c[l]
<1>1. /\ s \in Seq(Nodes) /\ Len(s) \in Nat /\ len[l] = Len(s)
      /\ head[l] = First(s) /\ tail[l] = Final(s)
      /\ \A i \in 1..Len(s) : s[i] \in Nodes /\ s[i] \in alloc
  BY NodeFacts
<1>2. PICK n \in Nodes \ alloc :
          /\ alloc' = alloc \cup {n}
          /\ value' = [value EXCEPT ![n] = v]
          /\ head' = [head EXCEPT ![l] = n]
          /\ IF len[l] = 0
             THEN /\ tail' = [tail EXCEPT ![l] = n]
                  /\ prev' = [prev EXCEPT ![n] = NULL]
                  /\ next' = [next EXCEPT ![n] = NULL]
             ELSE /\ prev' = [prev EXCEPT ![n] = NULL, ![head[l]] = n]
                  /\ next' = [next EXCEPT ![n] = head[l]]
                  /\ UNCHANGED tail
  BY DEF listAddNodeHead
<1>3. len' = [len EXCEPT ![l] = @ + 1] /\ UNCHANGED iter
  BY DEF listAddNodeHead
<1> HIDE DEF s
<1>4. Before(s, 1) = NULL
  BY DEF Before
<1>5. CASE Len(s) = 0
  <2>1. At(s, 1) = NULL
    BY <1>5 DEF At
  <2>2. prev' = [m \in Nodes |-> IF m = n THEN NULL ELSE prev[m]]
    BY <1>1, <1>2, <1>5 DEF Types
  <2>3. next' = [m \in Nodes |-> IF m = n THEN NULL ELSE next[m]]
    BY <1>1, <1>2, <1>5 DEF Types
  <2>4. /\ prev' = [m \in Nodes |-> IF m = n THEN Before(s, 1)
                                    ELSE IF m = At(s, 1) THEN n ELSE prev[m]]
        /\ next' = [m \in Nodes |-> IF m = n THEN At(s, 1)
                                    ELSE IF m = Before(s, 1) THEN n ELSE next[m]]
    BY <2>1, <2>2, <2>3, <1>4, ListConstants
  <2>5. /\ head' = [head EXCEPT ![l] = IF 1 = 1 THEN n ELSE @]
        /\ tail' = [tail EXCEPT ![l] = IF 1 = Len(s) + 1 THEN n ELSE @]
    BY <1>1, <1>2, <1>5
  <2> QED BY <1>2, <1>3, <2>4, <2>5 DEF Adds, Inserted, s
<1>6. CASE Len(s) # 0
  <2>1. At(s, 1) = s[1] /\ head[l] = s[1] /\ s[1] \in Nodes /\ s[1] # n
    <3>1. 1 \in 1..Len(s)
      BY <1>1, <1>6
    <3> QED BY <3>1, <1>1, <1>2, <1>6 DEF At, First
  <2>2. prev' = [m \in Nodes |-> IF m = n THEN NULL ELSE IF m = s[1] THEN n ELSE prev[m]]
    BY <1>1, <1>2, <1>6, <2>1 DEF Types
  <2>3. next' = [m \in Nodes |-> IF m = n THEN s[1] ELSE next[m]]
    BY <1>1, <1>2, <1>6, <2>1 DEF Types
  <2>4. /\ prev' = [m \in Nodes |-> IF m = n THEN Before(s, 1)
                                    ELSE IF m = At(s, 1) THEN n ELSE prev[m]]
        /\ next' = [m \in Nodes |-> IF m = n THEN At(s, 1)
                                    ELSE IF m = Before(s, 1) THEN n ELSE next[m]]
    BY <2>1, <2>2, <2>3, <1>4, ListConstants
  <2>5. /\ head' = [head EXCEPT ![l] = IF 1 = 1 THEN n ELSE @]
        /\ tail' = [tail EXCEPT ![l] = IF 1 = Len(s) + 1 THEN n ELSE @]
    <3>1. head' = [head EXCEPT ![l] = n] /\ tail' = tail
      BY <1>1, <1>2, <1>6
    <3>2. 1 # Len(s) + 1
      BY <1>1, <1>6
    <3> QED BY <3>1, <3>2 DEF Types
  <2> QED BY <1>2, <1>3, <2>4, <2>5 DEF Adds, Inserted, s
<1> QED BY <1>5, <1>6

\* listAddNodeTail inserts behind the last position, in an empty list too.
LEMMA AddTailInserts ==
    ASSUME Types, NEW c, Linked(c), NEW l \in Lists, NEW v, listAddNodeTail(l, v)
    PROVE  \E n \in Nodes \ alloc : Adds(c, l, Len(c[l]) + 1, n, v)
<1> DEFINE s == c[l]
           p == Len(s) + 1
<1>1. /\ s \in Seq(Nodes) /\ Len(s) \in Nat /\ len[l] = Len(s)
      /\ head[l] = First(s) /\ tail[l] = Final(s)
      /\ \A i \in 1..Len(s) : s[i] \in Nodes /\ s[i] \in alloc
  BY NodeFacts
<1>2. PICK n \in Nodes \ alloc :
          /\ alloc' = alloc \cup {n}
          /\ value' = [value EXCEPT ![n] = v]
          /\ tail' = [tail EXCEPT ![l] = n]
          /\ IF len[l] = 0
             THEN /\ head' = [head EXCEPT ![l] = n]
                  /\ prev' = [prev EXCEPT ![n] = NULL]
                  /\ next' = [next EXCEPT ![n] = NULL]
             ELSE /\ prev' = [prev EXCEPT ![n] = tail[l]]
                  /\ next' = [next EXCEPT ![n] = NULL, ![tail[l]] = n]
                  /\ UNCHANGED head
  BY DEF listAddNodeTail
<1>3. len' = [len EXCEPT ![l] = @ + 1] /\ UNCHANGED iter
  BY DEF listAddNodeTail
<1> HIDE DEF s
<1>4. At(s, p) = NULL /\ p - 1 = Len(s)
  BY <1>1 DEF At
<1>5. CASE Len(s) = 0
  <2>1. Before(s, p) = NULL
    BY <1>5 DEF Before
  <2>2. prev' = [m \in Nodes |-> IF m = n THEN NULL ELSE prev[m]]
    BY <1>1, <1>2, <1>5 DEF Types
  <2>3. next' = [m \in Nodes |-> IF m = n THEN NULL ELSE next[m]]
    BY <1>1, <1>2, <1>5 DEF Types
  <2>4. /\ prev' = [m \in Nodes |-> IF m = n THEN Before(s, p)
                                    ELSE IF m = At(s, p) THEN n ELSE prev[m]]
        /\ next' = [m \in Nodes |-> IF m = n THEN At(s, p)
                                    ELSE IF m = Before(s, p) THEN n ELSE next[m]]
    BY <2>1, <2>2, <2>3, <1>4, ListConstants
  <2>5. /\ head' = [head EXCEPT ![l] = IF p = 1 THEN n ELSE @]
        /\ tail' = [tail EXCEPT ![l] = IF p = Len(s) + 1 THEN n ELSE @]
    BY <1>1, <1>2, <1>5
  <2> QED BY <1>2, <1>3, <2>4, <2>5 DEF Adds, Inserted, s
<1>6. CASE Len(s) # 0
  <2>1. /\ Before(s, p) = s[Len(s)] /\ tail[l] = s[Len(s)]
        /\ s[Len(s)] \in Nodes /\ s[Len(s)] # n
    <3>1. Len(s) \in 1..Len(s) /\ p # 1
      BY <1>1, <1>6
    <3> QED BY <3>1, <1>1, <1>2, <1>4, <1>6 DEF Before, Final
  <2>2. prev' = [m \in Nodes |-> IF m = n THEN s[Len(s)] ELSE prev[m]]
    BY <1>1, <1>2, <1>6, <2>1 DEF Types
  <2>3. next' = [m \in Nodes |-> IF m = n THEN NULL
                                 ELSE IF m = s[Len(s)] THEN n ELSE next[m]]
    BY <1>1, <1>2, <1>6, <2>1 DEF Types
  <2>4. /\ prev' = [m \in Nodes |-> IF m = n THEN Before(s, p)
                                    ELSE IF m = At(s, p) THEN n ELSE prev[m]]
        /\ next' = [m \in Nodes |-> IF m = n THEN At(s, p)
                                    ELSE IF m = Before(s, p) THEN n ELSE next[m]]
    BY <2>1, <2>2, <2>3, <1>4, ListConstants
  <2>5. /\ head' = [head EXCEPT ![l] = IF p = 1 THEN n ELSE @]
        /\ tail' = [tail EXCEPT ![l] = IF p = Len(s) + 1 THEN n ELSE @]
    <3>1. tail' = [tail EXCEPT ![l] = n] /\ head' = head
      BY <1>1, <1>2, <1>6
    <3>2. p # 1
      BY <1>1, <1>6
    <3> QED BY <3>1, <3>2 DEF Types
  <2> QED BY <1>2, <1>3, <2>4, <2>5 DEF Adds, Inserted, s
<1> QED BY <1>5, <1>6

\* A node read from a list has a position in it.
LEMMA MemberPosition ==
    ASSUME NEW c, Linked(c), NEW l \in Lists, NEW n \in ToSet(Forward(l))
    PROVE  \E i \in 1..Len(c[l]) : n = c[l][i]
<1>1. Forward(l) = c[l] /\ c[l] \in Seq(Nodes)
  BY ListRead DEF Linked
<1>2. DOMAIN c[l] = 1..Len(c[l])
  BY <1>1, LenProperties
<1> QED BY <1>1, <1>2 DEF ToSet

\* listInsertNode inserts at the position of the old node or behind it.
LEMMA InsertNodeInserts ==
    ASSUME Types, NEW c, Linked(c), NEW l \in Lists, NEW v, NEW after \in BOOLEAN,
           NEW i \in 1..Len(c[l]), listInsertNode(l, c[l][i], v, after)
    PROVE  \E n \in Nodes \ alloc : Adds(c, l, IF after THEN i + 1 ELSE i, n, v)
<1> DEFINE s == c[l]
           p == IF after THEN i + 1 ELSE i
           old == s[i]
<1>1. /\ s \in Seq(Nodes) /\ Len(s) \in Nat /\ len[l] = Len(s)
      /\ head[l] = First(s) /\ tail[l] = Final(s)
      /\ \A j \in 1..Len(s) : s[j] \in Nodes /\ s[j] \in alloc
                              /\ next[s[j]] = After(s, j) /\ prev[s[j]] = Before(s, j)
  BY NodeFacts
<1>d. \A j, k \in 1..Len(s) : s[j] = s[k] => j = k
  BY DEF Linked, Apart
<1>2. PICK n \in Nodes \ alloc :
        /\ alloc' = alloc \cup {n}
        /\ value' = [value EXCEPT ![n] = v]
        /\ tail' = [tail EXCEPT ![l] = IF after /\ @ = old THEN n ELSE @]
        /\ head' = [head EXCEPT ![l] = IF ~after /\ @ = old THEN n ELSE @]
        /\ prev' = [m \in Nodes |-> IF m = n THEN NewPrev(old, after)
                                    ELSE IF m = NewNext(old, after) THEN n ELSE prev[m]]
        /\ next' = [m \in Nodes |-> IF m = n THEN NewNext(old, after)
                                    ELSE IF m = NewPrev(old, after) THEN n ELSE next[m]]
  BY DEF listInsertNode
<1>3. len' = [len EXCEPT ![l] = @ + 1] /\ UNCHANGED iter
  BY DEF listInsertNode
<1>i. i \in 1..Len(s) /\ i \in Nat /\ i >= 1 /\ i <= Len(s)
  BY <1>1
<1> HIDE DEF s
<1>4. NewPrev(old, after) = Before(s, p)
  <2>1. CASE after
    <3>1. p # 1 /\ p - 1 = i
      BY <1>i, <2>1
    <3> QED BY <2>1, <3>1 DEF NewPrev, Before
  <2>2. CASE ~after
    BY <2>2, <1>1, <1>i DEF NewPrev
  <2> QED BY <2>1, <2>2
<1>5. NewNext(old, after) = At(s, p)
  <2>1. CASE after
    <3>1. p = Len(s) + 1 <=> i = Len(s)
      BY <1>1, <1>i, <2>1
    <3> QED BY <2>1, <3>1, <1>1, <1>i DEF NewNext, At, After
  <2>2. CASE ~after
    <3>1. p = i /\ p # Len(s) + 1
      BY <1>1, <1>i, <2>2
    <3> QED BY <2>2, <3>1 DEF NewNext, At
  <2> QED BY <2>1, <2>2
<1>6. head' = [head EXCEPT ![l] = IF p = 1 THEN n ELSE @]
  <2>1. ~after /\ head[l] = old <=> p = 1
    <3>1. head[l] = s[1] /\ 1 \in 1..Len(s)
      BY <1>1, <1>i DEF First
    <3>2. head[l] = old <=> i = 1
      BY <3>1, <1>d, <1>i
    <3> QED BY <3>2, <1>i
  <2> QED BY <2>1, <1>2
<1>7. tail' = [tail EXCEPT ![l] = IF p = Len(s) + 1 THEN n ELSE @]
  <2>1. after /\ tail[l] = old <=> p = Len(s) + 1
    <3>1. tail[l] = s[Len(s)] /\ Len(s) \in 1..Len(s)
      BY <1>1, <1>i DEF Final
    <3>2. tail[l] = old <=> i = Len(s)
      BY <3>1, <1>d, <1>i
    <3> QED BY <3>2, <1>i, <1>1
  <2> QED BY <2>1, <1>2
<1> HIDE DEF p
<1>8. Adds(c, l, p, n, v)
  BY <1>2, <1>3, <1>4, <1>5, <1>6, <1>7 DEF Adds, Inserted, s
<1> QED BY <1>8 DEF p

\* The three insertions of list.c leave every list linked.
LEMMA AddsKeep ==
    ASSUME Types, NEW c, Linked(c), NEW l \in Lists, NEW n \in Nodes \ alloc,
           NEW p \in 1..(Len(c[l]) + 1), NEW v, Adds(c, l, p, n, v)
    PROVE  Types' /\ Linked([c EXCEPT ![l] = Put(c[l], p, n)])'
<1>1. Inserted(l, c[l], p, n) /\ value' = [value EXCEPT ![n] = v]
  BY DEF Adds
<1>2. DOMAIN value' = Nodes /\ value' = [m \in Nodes |-> value'[m]]
  BY <1>1 DEF Types
<1> QED BY <1>1, <1>2, InsertStep, InsertTypes

-----------------------------------------------------------------------------
(* Deletion *)

\* The sequence s without its position p.
Cut(s, p) == [i \in 1..(Len(s) - 1) |-> IF i < p THEN s[i] ELSE s[i + 1]]

\* The node at position p of list l is taken out.
Deleted(l, s, p) ==
    /\ alloc' = alloc \ {s[p]}
    /\ head' = [head EXCEPT ![l] = IF p = 1 THEN After(s, p) ELSE @]
    /\ tail' = [tail EXCEPT ![l] = IF p = Len(s) THEN Before(s, p) ELSE @]
    /\ len' = [len EXCEPT ![l] = @ - 1]
    /\ next' = [m \in Nodes |-> IF m = Before(s, p) THEN After(s, p) ELSE next[m]]
    /\ prev' = [m \in Nodes |-> IF m = After(s, p) THEN Before(s, p) ELSE prev[m]]

\* Arithmetic of a list that has another node besides the deleted one.
LEMMA OneMore ==
    ASSUME NEW a \in Nat, NEW b \in Nat, a + 1 = b, a # 0
    PROVE  1 \in 1..a /\ a \in 1..a /\ b # 1 /\ b # 0
OBVIOUS

\* A deletion leaves every list linked, without the deleted node.
LEMMA DeleteStep ==
    ASSUME Types, NEW c, Linked(c), NEW l \in Lists,
           NEW p \in 1..Len(c[l]), Deleted(l, c[l], p)
    PROVE  Linked([c EXCEPT ![l] = Cut(c[l], p)])'
<1> SUFFICES ASSUME NEW s, s = c[l], NEW t, t = Cut(s, p),
                    NEW d, d = [c EXCEPT ![l] = t]
             PROVE  Linked(d)'
  OBVIOUS
<1>1. /\ s \in Seq(Nodes) /\ Len(s) \in Nat
      /\ \A i \in 1..Len(s) : s[i] \in Nodes
  BY SeqFacts DEF Linked
<1>p. p \in Nat /\ 1 <= p /\ p <= Len(s) /\ p \in 1..Len(s) /\ Len(s) - 1 \in Nat
  BY <1>1
<1>2. t \in Seq(Nodes) /\ Len(t) = Len(s) - 1
  <2>1. t \in [1..(Len(s) - 1) -> Nodes]
    BY <1>1, <1>p DEF Cut
  <2> QED BY <2>1, <1>p, FunctionSeq
<1>n. Len(t) \in Nat /\ Len(s) \in Nat /\ Len(t) + 1 = Len(s)
  BY <1>1, <1>2, <1>p
<1>3. d \in [Lists -> Seq(Nodes)] /\ d[l] = t /\ \A o \in Lists : o # l => d[o] = c[o]
  BY <1>2 DEF Linked
<1>4. \A i \in 1..(Len(s) - 1) : t[i] = IF i < p THEN s[i] ELSE s[i + 1]
  BY DEF Cut
\* Where a node of the shorter list was, and where a node of the longer one went.
<1>q. ASSUME NEW i \in 1..Len(t)
      PROVE  /\ i \in Nat /\ i \in 1..Len(s) /\ i + 1 \in 1..Len(s)
             /\ i < p => t[i] = s[i]
             /\ ~(i < p) => t[i] = s[i + 1]
  <2>1. i \in 1..(Len(s) - 1)
    BY <1>2
  <2> QED BY <2>1, <1>1, <1>4
<1>r. ASSUME NEW j \in 1..Len(s), j # p
      PROVE  /\ j < p => j \in 1..Len(t) /\ t[j] = s[j]
             /\ ~(j < p) => j - 1 \in 1..Len(t) /\ t[j - 1] = s[j]
  <2>1. CASE j < p
    <3>1. j \in 1..Len(t)
      BY <2>1, <1>p, <1>1, <1>2
    <3> QED BY <2>1, <3>1, <1>q
  <2>2. CASE ~(j < p)
    <3>1. j - 1 \in 1..Len(t) /\ ~(j - 1 < p) /\ (j - 1) + 1 = j
      BY <2>2, <1>p, <1>1, <1>2, <1>r
    <3>2. t[j - 1] = s[(j - 1) + 1]
      BY <3>1, <1>q
    <3> QED BY <2>2, <3>1, <3>2
  <2> QED BY <2>1, <2>2
<1>5. /\ \A o \in Lists : \A i \in 1..Len(c[o]) : c[o][i] \in Nodes /\ c[o][i] \in alloc
      /\ \A o \in Lists : \A i \in 1..Len(c[o]), j \in 1..Len(s) :
            c[o][i] = s[j] => o = l /\ i = j
  BY SeqFacts DEF Linked, Apart, Allocated
<1>6. ASSUME NEW o \in Lists PROVE Chain(o, d[o])'
  <2>1. CASE o # l
    <3>1. ASSUME NEW i \in 1..Len(c[o])
          PROVE  c[o][i] # After(s, p) /\ c[o][i] # Before(s, p)
      <4>1. c[o][i] # After(s, p)
        <5>1. CASE p = Len(s)
          BY <5>1, <1>5, ListConstants DEF After
        <5>2. CASE p # Len(s)
          <6>1. p + 1 \in 1..Len(s)
            BY <5>2, <1>p
          <6> QED BY <6>1, <5>2, <2>1, <1>5 DEF After
        <5> QED BY <5>1, <5>2
      <4>2. c[o][i] # Before(s, p)
        <5>1. CASE p = 1
          BY <5>1, <1>5, ListConstants DEF Before
        <5>2. CASE p # 1
          <6>1. p - 1 \in 1..Len(s)
            BY <5>2, <1>p
          <6> QED BY <6>1, <5>2, <2>1, <1>5 DEF Before
        <5> QED BY <5>1, <5>2
      <4> QED BY <4>1, <4>2
    <3>2. \A i \in 1..Len(c[o]) : next'[c[o][i]] = next[c[o][i]] /\ prev'[c[o][i]] = prev[c[o][i]]
      BY <1>5, <3>1 DEF Deleted
    <3>3. head'[o] = head[o] /\ tail'[o] = tail[o] /\ len'[o] = len[o]
      BY <2>1 DEF Deleted, Types
    <3>4. Chain(o, c[o])
      BY DEF Linked
    <3>5. Chain(o, c[o])'
      BY <3>2, <3>3, <3>4, ChainKept
    <3>6. d[o] = c[o]
      BY <1>3, <2>1
    <3> QED BY <3>5, <3>6
  <2>2. CASE o = l
    <3>1. /\ head[l] = First(s) /\ tail[l] = Final(s) /\ len[l] = Len(s)
          /\ \A i \in 1..Len(s) : next[s[i]] = After(s, i) /\ prev[s[i]] = Before(s, i)
      BY DEF Linked, Chain
    <3>2. /\ head'[l] = IF p = 1 THEN After(s, p) ELSE head[l]
          /\ tail'[l] = IF p = Len(s) THEN Before(s, p) ELSE tail[l]
          /\ len'[l] = Len(s) - 1
      BY <3>1 DEF Deleted, Types
    <3>3. head'[l] = First(t)
      <4>1. CASE Len(t) = 0
        <5>1. p = 1 /\ p = Len(s)
          BY <4>1, <1>1, <1>2, <1>p
        <5>2. After(s, p) = NULL
          BY <5>1 DEF After
        <5> QED BY <4>1, <5>1, <5>2, <3>2 DEF First
      <4>2. CASE Len(t) # 0
        <5>1. 1 \in 1..Len(t) /\ Len(s) # 1 /\ Len(s) # 0
          BY <4>2, <1>n, OneMore
        <5>2. t[1] = IF p = 1 THEN s[2] ELSE s[1]
          BY <5>1, <1>q, <1>p
        <5>3. p = 1 => After(s, p) = s[2]
          BY <5>1 DEF After
        <5> QED BY <4>2, <5>1, <5>2, <5>3, <3>1, <3>2 DEF First
      <4> QED BY <4>1, <4>2
    <3>4. tail'[l] = Final(t)
      <4>1. CASE Len(t) = 0
        <5>1. p = 1 /\ p = Len(s)
          BY <4>1, <1>1, <1>2, <1>p
        <5>2. Before(s, p) = NULL
          BY <5>1 DEF Before
        <5> QED BY <4>1, <5>1, <5>2, <3>2 DEF Final
      <4>2. CASE Len(t) # 0
        <5>1. Len(t) \in 1..Len(t) /\ Len(t) + 1 = Len(s) /\ Len(s) # 1 /\ Len(s) # 0
          BY <4>2, <1>n, OneMore
        <5>2. CASE p = Len(s)
          <6>1. Len(t) < p /\ p # 1 /\ p - 1 = Len(t)
            BY <5>1, <5>2, <1>p, <1>2
          <6>2. t[Len(t)] = s[Len(t)]
            BY <5>1, <6>1, <1>q
          <6> QED BY <4>2, <5>2, <6>1, <6>2, <3>2 DEF Final, Before
        <5>3. CASE p # Len(s)
          <6>1. ~(Len(t) < p)
            BY <5>1, <5>3, <1>p, <1>2
          <6>2. t[Len(t)] = s[Len(t) + 1]
            BY <5>1, <6>1, <1>q
          <6> QED BY <4>2, <5>1, <5>3, <6>2, <3>1, <3>2 DEF Final
        <5> QED BY <5>2, <5>3
      <4> QED BY <4>1, <4>2
    <3>5. /\ \A m \in Nodes : m # After(s, p) => prev'[m] = prev[m]
          /\ \A m \in Nodes : m # Before(s, p) => next'[m] = next[m]
          /\ p # Len(s) => prev'[s[p + 1]] = Before(s, p)
          /\ p # 1 => next'[s[p - 1]] = After(s, p)
      <4>1. p # Len(s) => p + 1 \in 1..Len(s)
        BY <1>p
      <4>2. p # 1 => p - 1 \in 1..Len(s)
        BY <1>p
      <4> QED BY <4>1, <4>2, <1>1 DEF Deleted, After, Before
    <3>6. ASSUME NEW j \in 1..Len(s)
          PROVE  /\ s[j] \in Nodes
                 /\ j # p + 1 => prev'[s[j]] = Before(s, j)
                 /\ j # p - 1 => next'[s[j]] = After(s, j)
      <4>1. ASSUME j # p + 1 PROVE s[j] # After(s, p)
        <5>1. CASE p = Len(s)
          BY <5>1, <1>1, ListConstants DEF After
        <5>2. CASE p # Len(s)
          <6>1. p + 1 \in 1..Len(s)
            BY <5>2, <1>p
          <6> QED BY <6>1, <5>2, <4>1, <1>5 DEF After
        <5> QED BY <5>1, <5>2
      <4>2. ASSUME j # p - 1 PROVE s[j] # Before(s, p)
        <5>1. CASE p = 1
          BY <5>1, <1>1, ListConstants DEF Before
        <5>2. CASE p # 1
          <6>1. p - 1 \in 1..Len(s)
            BY <5>2, <1>p
          <6> QED BY <6>1, <5>2, <4>2, <1>5 DEF Before
        <5> QED BY <5>1, <5>2
      <4> QED BY <4>1, <4>2, <1>1, <3>1, <3>5
    <3>7. ASSUME NEW i \in 1..Len(t) PROVE next'[t[i]] = After(t, i) /\ prev'[t[i]] = Before(t, i)
      <4>0. i \in Nat /\ i \in 1..Len(s) /\ i + 1 \in 1..Len(s) /\ i >= 1 /\ i <= Len(s) - 1
        BY <1>q, <1>2, <1>1
      <4>1. CASE i < p
        <5>1. t[i] = s[i] /\ i # p + 1
          BY <4>1, <1>q, <1>p, <4>0
        <5>2. prev'[t[i]] = Before(t, i)
          <6>1. Before(t, i) = Before(s, i)
            <7>1. CASE i = 1
              BY <7>1 DEF Before
            <7>2. CASE i # 1
              <8>1. i - 1 \in 1..Len(t) /\ i - 1 < p
                BY <7>2, <4>0, <4>1, <1>2, <1>p
              <8> QED BY <8>1, <7>2, <1>q DEF Before
            <7> QED BY <7>1, <7>2
          <6> QED BY <5>1, <6>1, <3>6, <4>0
        <5>3. next'[t[i]] = After(t, i)
          <6>1. CASE i = p - 1
            <7>1. p # 1 /\ next'[s[i]] = After(s, p)
              BY <6>1, <4>0, <3>5
            <7>2. After(t, i) = After(s, p)
              <8>1. CASE p = Len(s)
                BY <8>1, <6>1, <1>2 DEF After
              <8>2. CASE p # Len(s)
                <9>1. i + 1 = p /\ i # Len(t) /\ p \in 1..Len(t) /\ ~(p < p)
                  BY <8>2, <6>1, <4>0, <1>2, <1>p
                <9>2. t[p] = s[p + 1]
                  BY <9>1, <1>q
                <9> QED BY <8>2, <9>1, <9>2 DEF After
              <8> QED BY <8>1, <8>2
            <7> QED BY <5>1, <7>1, <7>2
          <6>2. CASE i # p - 1
            <7>1. i # Len(t) /\ i # Len(s) /\ i + 1 \in 1..Len(t) /\ i + 1 < p
              BY <6>2, <4>0, <4>1, <1>2, <1>p
            <7>2. t[i + 1] = s[i + 1]
              BY <7>1, <1>q
            <7> QED BY <5>1, <6>2, <7>1, <7>2, <3>6, <4>0 DEF After
          <6> QED BY <6>1, <6>2
        <5> QED BY <5>2, <5>3
      <4>2. CASE ~(i < p)
        <5>1. t[i] = s[i + 1] /\ i + 1 # p - 1
          BY <4>2, <1>q, <1>p, <4>0
        <5>2. next'[t[i]] = After(t, i)
          <6>1. After(t, i) = After(s, i + 1)
            <7>1. CASE i + 1 = Len(s)
              BY <7>1, <1>2, <4>0 DEF After
            <7>2. CASE i + 1 # Len(s)
              <8>1. i # Len(t) /\ i + 1 \in 1..Len(t) /\ ~(i + 1 < p)
                BY <7>2, <4>0, <4>2, <1>2, <1>p, <1>1
              <8>2. t[i + 1] = s[(i + 1) + 1]
                BY <8>1, <1>q
              <8> QED BY <8>1, <8>2, <7>2 DEF After
            <7> QED BY <7>1, <7>2
          <6> QED BY <5>1, <6>1, <3>6, <4>0
        <5>3. prev'[t[i]] = Before(t, i)
          <6>1. CASE i = p
            <7>1. p # Len(s) /\ prev'[s[p + 1]] = Before(s, p)
              BY <6>1, <4>0, <3>5, <1>1
            <7>2. Before(t, p) = Before(s, p)
              <8>1. CASE p = 1
                BY <8>1 DEF Before
              <8>2. CASE p # 1
                <9>1. p - 1 \in 1..Len(t) /\ p - 1 < p
                  BY <8>2, <6>1, <4>0, <1>2, <1>p
                <9> QED BY <8>2, <9>1, <1>q DEF Before
              <8> QED BY <8>1, <8>2
            <7> QED BY <5>1, <6>1, <7>1, <7>2
          <6>2. CASE i # p
            <7>1. i # 1 /\ i + 1 # 1 /\ i + 1 # p + 1 /\ i - 1 \in 1..Len(t) /\ ~(i - 1 < p)
              BY <6>2, <4>0, <4>2, <1>2, <1>p
            <7>2. t[i - 1] = s[(i - 1) + 1]
              BY <7>1, <1>q
            <7>3. (i - 1) + 1 = i /\ (i + 1) - 1 = i
              BY <4>0
            <7> QED BY <5>1, <7>1, <7>2, <7>3, <3>6, <4>0, SMTT(60) DEF Before
          <6> QED BY <6>1, <6>2
        <5> QED BY <5>2, <5>3
      <4> QED BY <4>1, <4>2
    <3> QED BY <1>2, <1>3, <2>2, <3>2, <3>3, <3>4, <3>7 DEF Chain
  <2> QED BY <2>1, <2>2
<1>7. Apart(d)
  <2>1. ASSUME NEW i \in 1..Len(t)
        PROVE  \E j \in 1..Len(s) : t[i] = s[j] /\ j = IF i < p THEN i ELSE i + 1
    BY <1>q
  <2>2. ASSUME NEW i \in 1..Len(t), NEW j \in 1..Len(t), t[i] = t[j] PROVE i = j
    <3>1. PICK a \in 1..Len(s) : t[i] = s[a] /\ a = IF i < p THEN i ELSE i + 1
      BY <2>1
    <3>2. PICK b \in 1..Len(s) : t[j] = s[b] /\ b = IF j < p THEN j ELSE j + 1
      BY <2>1
    <3>3. a = b
      BY <3>1, <3>2, <2>2, <1>5
    <3>4. i \in Nat /\ j \in Nat
      BY <1>q
    <3>5. p \in Int
      BY <1>p
    <3>6. CASE i < p /\ j < p
      BY <3>1, <3>2, <3>3, <3>6
    <3>7. CASE i < p /\ ~(j < p)
      BY <3>1, <3>2, <3>3, <3>4, <3>5, <3>7
    <3>8. CASE ~(i < p) /\ j < p
      BY <3>1, <3>2, <3>3, <3>4, <3>5, <3>8
    <3>9. CASE ~(i < p) /\ ~(j < p)
      <4>1. a = i + 1 /\ b = j + 1
        BY <3>1, <3>2, <3>9
      <4> QED BY <4>1, <3>3, <3>4
    <3> QED BY <3>6, <3>7, <3>8, <3>9
  <2>3. ASSUME NEW o \in Lists, NEW i \in 1..Len(c[o]), NEW j \in 1..Len(t), c[o][i] = t[j]
        PROVE  o = l
    <3>1. PICK k \in 1..Len(s) : t[j] = s[k]
      BY <2>1
    <3> QED BY <3>1, <2>3, <1>5
  <2>4. Apart(c)
    BY DEF Linked
  <2> QED BY <1>3, <2>2, <2>3, <2>4 DEF Apart
<1>8. Allocated(d)'
  <2>1. ASSUME NEW m PROVE (\E i \in 1..Len(t) : t[i] = m)
              <=> \E i \in 1..Len(s) : s[i] = m /\ i # p
    <3>1. ASSUME NEW i \in 1..Len(s), i # p PROVE \E j \in 1..Len(t) : t[j] = s[i]
      BY <3>1, <1>r
    <3>2. ASSUME NEW j \in 1..Len(t) PROVE \E i \in 1..Len(s) : s[i] = t[j] /\ i # p
      <4>1. CASE j < p
        BY <4>1, <1>q, <1>p
      <4>2. CASE ~(j < p)
        <5>1. j + 1 # p
          BY <4>2, <1>q, <1>p
        <5> QED BY <5>1, <4>2, <1>q
      <4> QED BY <4>1, <4>2
    <3>3. ASSUME NEW i \in 1..Len(t), t[i] = m PROVE \E j \in 1..Len(s) : s[j] = m /\ j # p
      BY <3>2, <3>3
    <3>4. ASSUME NEW i \in 1..Len(s), s[i] = m, i # p PROVE \E j \in 1..Len(t) : t[j] = m
      BY <3>1, <3>4
    <3> QED BY <3>3, <3>4
  <2>2. Allocated(c)
    BY DEF Linked
  <2>3. ASSUME NEW m
        PROVE  (\E o \in Lists : \E i \in 1..Len(d[o]) : d[o][i] = m)
                 <=> m # s[p] /\ \E o \in Lists : \E i \in 1..Len(c[o]) : c[o][i] = m
    <3>1. ASSUME NEW o \in Lists
          PROVE  (\E i \in 1..Len(d[o]) : d[o][i] = m)
                   <=> m # s[p] /\ \E i \in 1..Len(c[o]) : c[o][i] = m
      <4>1. CASE o = l
        <5>1. d[o] = t /\ c[o] = s
          BY <4>1, <1>3
        <5>2. (\E i \in 1..Len(t) : t[i] = m) <=> \E i \in 1..Len(s) : s[i] = m /\ i # p
          BY <2>1
        <5>3. (\E i \in 1..Len(s) : s[i] = m /\ i # p)
                    <=> m # s[p] /\ \E i \in 1..Len(s) : s[i] = m
          BY <1>5, <1>p
        <5>4. (\E i \in 1..Len(d[o]) : d[o][i] = m) <=> \E i \in 1..Len(t) : t[i] = m
          BY <5>1
        <5>5. (\E i \in 1..Len(c[o]) : c[o][i] = m) <=> \E i \in 1..Len(s) : s[i] = m
          BY <5>1
        <5> QED BY <5>2, <5>3, <5>4, <5>5
      <4>2. CASE o # l
        <5>1. d[o] = c[o]
          BY <4>2, <1>3
        <5>2. \A i \in 1..Len(c[o]) : c[o][i] # s[p]
          BY <4>2, <1>5, <1>p
        <5> QED BY <5>1, <5>2
      <4> QED BY <4>1, <4>2
    <3> QED BY <3>1
  <2> QED BY <2>2, <2>3 DEF Allocated, Deleted
<1> QED BY <1>3, <1>6, <1>7, <1>8 DEF Linked

\* listDelNode takes out the node it is given, at either end or in the middle.
LEMMA DelNodeDeletes ==
    ASSUME Types, NEW c, Linked(c), NEW l \in Lists, NEW p \in 1..Len(c[l]),
           listDelNode(l, c[l][p])
    PROVE  Deleted(l, c[l], p)
<1> DEFINE s == c[l]
           n == s[p]
<1>1. /\ s \in Seq(Nodes) /\ Len(s) \in Nat /\ tail[l] = Final(s)
      /\ \A j \in 1..Len(s) : s[j] \in Nodes
      /\ next[n] = After(s, p) /\ prev[n] = Before(s, p)
  BY NodeFacts
<1>p. p \in 1..Len(s) /\ p \in Nat
  BY <1>1
<1>2. /\ head' = [head EXCEPT ![l] = IF prev[n] = NULL THEN next[n] ELSE @]
      /\ tail' = [tail EXCEPT ![l] = IF next[n] = NULL THEN prev[n] ELSE tail[l]]
      /\ next' = [m \in Nodes |-> IF m = prev[n] THEN next[n] ELSE next[m]]
      /\ prev' = [m \in Nodes |-> IF m = next[n] THEN prev[n] ELSE prev[m]]
      /\ alloc' = alloc \ {n}
      /\ len' = [len EXCEPT ![l] = @ - 1]
  BY DEF listDelNode, TailAfter
<1> HIDE DEF s
<1>3. Before(s, p) = NULL <=> p = 1
  <2>1. p # 1 => p - 1 \in 1..Len(s)
    BY <1>p, <1>1
  <2> QED BY <2>1, <1>1, ListConstants DEF Before
<1>4. After(s, p) = NULL <=> p = Len(s)
  <2>1. p # Len(s) => p + 1 \in 1..Len(s)
    BY <1>p, <1>1
  <2> QED BY <2>1, <1>1, ListConstants DEF After
<1>5. head' = [head EXCEPT ![l] = IF p = 1 THEN After(s, p) ELSE @]
  BY <1>1, <1>2, <1>3
<1>6. tail' = [tail EXCEPT ![l] = IF p = Len(s) THEN Before(s, p) ELSE @]
  BY <1>1, <1>2, <1>4
<1>7. /\ next' = [m \in Nodes |-> IF m = Before(s, p) THEN After(s, p) ELSE next[m]]
      /\ prev' = [m \in Nodes |-> IF m = After(s, p) THEN Before(s, p) ELSE prev[m]]
  BY <1>1, <1>2
<1>8. alloc' = alloc \ {s[p]} /\ len' = [len EXCEPT ![l] = @ - 1]
  BY <1>2
<1>9. Deleted(l, s, p)
  BY <1>5, <1>6, <1>7, <1>8 DEF Deleted
<1> QED BY <1>9 DEF s

\* listDelNode leaves every list linked.
LEMMA DelNodeKeeps ==
    ASSUME Types, NEW c, Linked(c), NEW l \in Lists, NEW p \in 1..Len(c[l]),
           listDelNode(l, c[l][p])
    PROVE  Types' /\ Linked([c EXCEPT ![l] = Cut(c[l], p)])'
<1>1. Deleted(l, c[l], p) /\ value' = value
  BY DelNodeDeletes DEF listDelNode
<1>2. /\ c[l] \in Seq(Nodes) /\ Len(c[l]) \in Nat /\ len[l] = Len(c[l])
      /\ \A j \in 1..Len(c[l]) : c[l][j] \in Nodes
  BY NodeFacts
<1>3. Before(c[l], p) \in Cell /\ After(c[l], p) \in Cell
  <2>1. (p # 1 => p - 1 \in 1..Len(c[l])) /\ (p # Len(c[l]) => p + 1 \in 1..Len(c[l]))
    BY <1>2
  <2> QED BY <2>1, <1>2 DEF Before, After, Cell
<1>4. head' \in [Lists -> Cell] /\ tail' \in [Lists -> Cell]
  BY <1>1, <1>3 DEF Deleted, Types
<1>5. prev' \in [Nodes -> Cell] /\ next' \in [Nodes -> Cell]
  BY <1>1, <1>3 DEF Deleted, Types
<1>6. len' \in [Lists -> Nat]
  <2>1. len[l] - 1 \in Nat
    BY <1>2
  <2> QED BY <1>1, <2>1 DEF Deleted, Types
<1>7. Types'
  BY <1>1, <1>4, <1>5, <1>6 DEF Types
<1> QED BY <1>1, <1>7, DeleteStep

-----------------------------------------------------------------------------
(* Emptying *)

\* The empty sequence of nodes.
LEMMA EmptyFacts ==
    Len(<< >>) = 0 /\ << >> \in Seq(Nodes)
BY EmptySeq

\* listEmpty frees the nodes of its list, all of them and no others.
LEMMA EmptyKeeps ==
    ASSUME Types, NEW c, Linked(c), NEW l \in Lists, listEmpty(l)
    PROVE  Types' /\ Linked([c EXCEPT ![l] = << >>])'
<1> SUFFICES ASSUME NEW d, d = [c EXCEPT ![l] = << >>]
             PROVE  Types' /\ Linked(d)'
  OBVIOUS
<1>1. /\ c[l] \in Seq(Nodes) /\ Len(c[l]) \in Nat /\ len[l] = Len(c[l])
      /\ \A j \in 1..Len(c[l]) : c[l][j] \in Nodes
  BY NodeFacts
<1>2. /\ head' = [head EXCEPT ![l] = NULL] /\ tail' = [tail EXCEPT ![l] = NULL]
      /\ len' = [len EXCEPT ![l] = 0] /\ prev' = prev /\ next' = next /\ value' = value
      /\ alloc' = alloc \ {Steps(next, head[l], k) : k \in 0..(len[l] - 1)}
  BY DEF listEmpty
<1>3. Types'
  <2>1. NULL \in Cell /\ 0 \in Nat
    BY DEF Cell
  <2> QED BY <1>2, <2>1 DEF Types
<1>4. d \in [Lists -> Seq(Nodes)] /\ d[l] = << >> /\ \A o \in Lists : o # l => d[o] = c[o]
  BY EmptyFacts DEF Linked
<1>5. ASSUME NEW o \in Lists PROVE Chain(o, d[o])'
  <2>1. CASE o = l
    <3>1. head'[l] = NULL /\ tail'[l] = NULL /\ len'[l] = 0
      BY <1>2 DEF Types
    <3> QED BY <2>1, <3>1, <1>4, EmptyFacts DEF Chain, First, Final
  <2>2. CASE o # l
    <3>1. head'[o] = head[o] /\ tail'[o] = tail[o] /\ len'[o] = len[o]
      BY <2>2, <1>2 DEF Types
    <3>2. Chain(o, c[o]) /\ d[o] = c[o]
      BY <2>2, <1>4 DEF Linked
    <3>3. Chain(o, c[o])'
      BY <1>2, <3>1, <3>2, ChainKept
    <3> QED BY <3>2, <3>3
  <2> QED BY <2>1, <2>2
<1>6. Apart(d)
  <2>1. Apart(c)
    BY DEF Linked
  <2> QED BY <1>4, <2>1, EmptyFacts DEF Apart
<1>7. {Steps(next, head[l], k) : k \in 0..(len[l] - 1)} = {c[l][i] : i \in 1..Len(c[l])}
  <2>1. Path(next, head[l], c[l])
    BY ListRead
  <2>2. ASSUME NEW k \in 0..(len[l] - 1)
        PROVE  Steps(next, head[l], k) = c[l][k + 1] /\ k + 1 \in 1..Len(c[l])
    <3>1. k \in Nat /\ k < Len(c[l]) /\ k + 1 \in 1..Len(c[l])
      BY <1>1
    <3> QED BY <2>1, <3>1, StepsOnPath
  <2>3. ASSUME NEW i \in 1..Len(c[l])
        PROVE  i - 1 \in 0..(len[l] - 1) /\ Steps(next, head[l], i - 1) = c[l][i]
    <3>1. i - 1 \in 0..(len[l] - 1) /\ (i - 1) + 1 = i
      BY <1>1
    <3>2. Steps(next, head[l], i - 1) = c[l][(i - 1) + 1]
      BY <2>2, <3>1
    <3> QED BY <3>1, <3>2
  <2> QED BY <2>2, <2>3
<1>8. Allocated(d)'
  <2>1. ASSUME NEW m
        PROVE  (\E o \in Lists : \E i \in 1..Len(d[o]) : d[o][i] = m)
                 <=> /\ \E o \in Lists : \E i \in 1..Len(c[o]) : c[o][i] = m
                     /\ ~ \E i \in 1..Len(c[l]) : c[l][i] = m
    <3>1. ASSUME NEW o \in Lists
          PROVE  (\E i \in 1..Len(d[o]) : d[o][i] = m)
                   <=> o # l /\ \E i \in 1..Len(c[o]) : c[o][i] = m
      <4>1. CASE o = l
        <5>1. d[o] = << >> /\ Len(d[o]) = 0
          BY <4>1, <1>4, EmptyFacts
        <5> QED BY <5>1, <4>1
      <4>2. CASE o # l
        BY <4>2, <1>4
      <4> QED BY <4>1, <4>2
    <3>2. ASSUME NEW o \in Lists, o # l, \E i \in 1..Len(c[o]) : c[o][i] = m
          PROVE  ~ \E i \in 1..Len(c[l]) : c[l][i] = m
      BY <3>2 DEF Linked, Apart
    <3> QED BY <3>1, <3>2
  <2>2. Allocated(c)
    BY DEF Linked
  <2>3. alloc' = alloc \ {c[l][i] : i \in 1..Len(c[l])}
    BY <1>2, <1>7
  <2>4. ASSUME NEW m
        PROVE  m \in alloc' <=> m \in alloc /\ ~ \E i \in 1..Len(c[l]) : c[l][i] = m
    BY <2>3
  <2>5. ASSUME NEW m
        PROVE  m \in alloc' <=> \E o \in Lists : \E i \in 1..Len(d[o]) : d[o][i] = m
    <3>1. m \in alloc <=> \E o \in Lists : \E i \in 1..Len(c[o]) : c[o][i] = m
      BY <2>2 DEF Allocated
    <3> QED BY <2>1, <2>4, <3>1
  <2> QED BY <2>5 DEF Allocated
<1> QED BY <1>3, <1>4, <1>5, <1>6, <1>8 DEF Linked

-----------------------------------------------------------------------------
(* Rotation *)

\* The sequence s with its last element moved to the front.
Turn(s) == [i \in 1..Len(s) |-> IF i = 1 THEN s[Len(s)] ELSE s[i - 1]]

\* listRotate leaves every list linked, the tail of l being its head now.
LEMMA RotateKeeps ==
    ASSUME Types, NEW c, Linked(c), NEW l \in Lists, listRotate(l)
    PROVE  Types' /\ Linked([c EXCEPT ![l] = Turn(c[l])])'
<1> SUFFICES ASSUME NEW s, s = c[l], NEW t, t = Turn(s),
                    NEW d, d = [c EXCEPT ![l] = t], NEW k, k = Len(s)
             PROVE  Types' /\ Linked(d)'
  OBVIOUS
<1>1. /\ s \in Seq(Nodes) /\ k \in Nat /\ len[l] = k
      /\ head[l] = First(s) /\ tail[l] = Final(s)
      /\ \A i \in 1..k : /\ s[i] \in Nodes
                         /\ next[s[i]] = After(s, i) /\ prev[s[i]] = Before(s, i)
  BY NodeFacts
<1>2. k > 1
  BY <1>1 DEF listRotate
<1>n. k # 0 /\ k - 1 \in 1..k /\ k \in 1..k /\ 1 \in 1..k /\ k # 1 /\ k - 1 # k
  BY <1>1, <1>2
<1>d. \A i, j \in 1..k : s[i] = s[j] => i = j
  BY DEF Linked, Apart
<1>3. head[l] = s[1] /\ tail[l] = s[k] /\ prev[s[k]] = s[k - 1] /\ s[1] # s[k] /\ s[k - 1] # s[k]
  BY <1>1, <1>n, <1>d DEF First, Final, Before
<1>4. /\ tail' = [tail EXCEPT ![l] = s[k - 1]]
      /\ head' = [head EXCEPT ![l] = s[k]]
      /\ prev' = [prev EXCEPT ![s[1]] = s[k], ![s[k]] = NULL]
      /\ next' = [next EXCEPT ![s[k - 1]] = NULL, ![s[k]] = s[1]]
      /\ UNCHANGED <<len, value, alloc>>
  BY <1>3 DEF listRotate
<1>5. /\ prev' = [m \in Nodes |-> IF m = s[k] THEN NULL ELSE IF m = s[1] THEN s[k] ELSE prev[m]]
      /\ next' = [m \in Nodes |-> IF m = s[k] THEN s[1] ELSE IF m = s[k - 1] THEN NULL
                                  ELSE next[m]]
  BY <1>1, <1>n, <1>3, <1>4 DEF Types
<1>6. Types'
  <2>1. s[1] \in Cell /\ s[k] \in Cell /\ s[k - 1] \in Cell /\ NULL \in Cell
    BY <1>1, <1>n DEF Cell
  <2>2. head' \in [Lists -> Cell] /\ tail' \in [Lists -> Cell]
    BY <1>4, <2>1 DEF Types
  <2>3. prev' \in [Nodes -> Cell] /\ next' \in [Nodes -> Cell]
    BY <1>5, <2>1 DEF Types
  <2> QED BY <1>4, <2>2, <2>3 DEF Types
<1>7. t \in Seq(Nodes) /\ Len(t) = k
  <2>1. \A i \in 1..k : i # 1 => i - 1 \in 1..k
    BY <1>1
  <2>2. t \in [1..k -> Nodes]
    BY <1>1, <1>n, <2>1 DEF Turn
  <2> QED BY <2>2, <1>1, FunctionSeq
<1>8. d \in [Lists -> Seq(Nodes)] /\ d[l] = t /\ \A o \in Lists : o # l => d[o] = c[o]
  BY <1>7 DEF Linked
\* Node i of the rotated list.
<1>t. /\ t[1] = s[k]
      /\ \A i \in 1..k : i # 1 => i - 1 \in 1..k /\ i - 1 # k /\ t[i] = s[i - 1]
  <2>1. \A i \in 1..k : t[i] = IF i = 1 THEN s[k] ELSE s[i - 1]
    BY DEF Turn
  <2>2. \A i \in 1..k : i # 1 => i - 1 \in 1..k /\ i - 1 # k
    BY <1>1
  <2> QED BY <2>1, <2>2, <1>n
<1>s. \A j \in 1..k : j # k => j + 1 \in 1..k /\ j + 1 # 1 /\ t[j + 1] = s[j]
  <2> TAKE j \in 1..k
  <2> SUFFICES ASSUME j # k PROVE j + 1 \in 1..k /\ j + 1 # 1 /\ t[j + 1] = s[j]
    OBVIOUS
  <2>1. j + 1 \in 1..k /\ j + 1 # 1 /\ (j + 1) - 1 = j
    BY <1>1
  <2>2. t[j + 1] = s[(j + 1) - 1]
    BY <1>t, <2>1
  <2> QED BY <2>1, <2>2
<1>9. ASSUME NEW o \in Lists PROVE Chain(o, d[o])'
  <2>1. CASE o # l
    <3>1. \A i \in 1..Len(c[o]), j \in 1..k : c[o][i] # s[j]
      BY <2>1 DEF Linked, Apart
    <3>2. \A i \in 1..Len(c[o]) : c[o][i] \in Nodes
      BY SeqFacts DEF Linked
    <3>3. \A i \in 1..Len(c[o]) : next'[c[o][i]] = next[c[o][i]] /\ prev'[c[o][i]] = prev[c[o][i]]
      BY <3>1, <3>2, <1>5, <1>n
    <3>4. head'[o] = head[o] /\ tail'[o] = tail[o] /\ len'[o] = len[o]
      BY <2>1, <1>4 DEF Types
    <3>5. Chain(o, c[o]) /\ d[o] = c[o]
      BY <2>1, <1>8 DEF Linked
    <3>6. Chain(o, c[o])'
      BY <3>3, <3>4, <3>5, ChainKept
    <3> QED BY <3>5, <3>6
  <2>2. CASE o = l
    <3>1. head'[l] = s[k] /\ tail'[l] = s[k - 1] /\ len'[l] = k
      BY <1>1, <1>4 DEF Types
    <3>2. head'[l] = First(t)
      BY <3>1, <1>7, <1>n, <1>t DEF First
    <3>3. tail'[l] = Final(t)
      BY <3>1, <1>7, <1>n, <1>t DEF Final
    <3>4. ASSUME NEW i \in 1..k PROVE next'[t[i]] = After(t, i) /\ prev'[t[i]] = Before(t, i)
      <4>1. CASE i = 1
        <5>1. t[2] = s[1] /\ 1 # k
          BY <1>s, <1>n
        <5>2. next'[s[k]] = s[1] /\ prev'[s[k]] = NULL
          BY <1>1, <1>n, <1>5
        <5> QED BY <4>1, <5>1, <5>2, <1>t, <1>7 DEF After, Before
      <4>2. CASE i # 1
        <5>1. i - 1 \in 1..k /\ i - 1 # k /\ t[i] = s[i - 1] /\ (i - 1) + 1 = i
          BY <4>2, <1>t, <1>1
        <5>2. next'[t[i]] = After(t, i)
          <6>1. CASE i = k
            <7>1. next'[s[k - 1]] = NULL
              BY <1>1, <1>n, <1>3, <1>5
            <7> QED BY <5>1, <6>1, <7>1, <1>7 DEF After
          <6>2. CASE i # k
            <7>1. i - 1 # k - 1
              BY <6>2, <1>1
            <7>2. next'[s[i - 1]] = next[s[i - 1]]
              BY <5>1, <7>1, <1>1, <1>n, <1>d, <1>5
            <7>3. next[s[i - 1]] = s[i]
              BY <5>1, <1>1 DEF After
            <7>4. t[i + 1] = s[i]
              BY <6>2, <1>s
            <7> QED BY <5>1, <6>2, <7>2, <7>3, <7>4, <1>7 DEF After
          <6> QED BY <6>1, <6>2
        <5>3. prev'[t[i]] = Before(t, i)
          <6>1. CASE i - 1 = 1
            <7>1. prev'[s[1]] = s[k]
              BY <1>1, <1>n, <1>3, <1>5
            <7> QED BY <4>2, <5>1, <6>1, <7>1, <1>t DEF Before
          <6>2. CASE i - 1 # 1
            <7>1. prev'[s[i - 1]] = prev[s[i - 1]]
              BY <5>1, <6>2, <1>1, <1>n, <1>d, <1>5
            <7>2. prev[s[i - 1]] = s[(i - 1) - 1]
              BY <5>1, <6>2, <1>1 DEF Before
            <7>3. t[i - 1] = s[(i - 1) - 1]
              BY <5>1, <6>2, <1>t
            <7> QED BY <4>2, <5>1, <7>1, <7>2, <7>3 DEF Before
          <6> QED BY <6>1, <6>2
        <5> QED BY <5>2, <5>3
      <4> QED BY <4>1, <4>2
    <3> QED BY <1>7, <1>8, <2>2, <3>1, <3>2, <3>3, <3>4 DEF Chain
  <2> QED BY <2>1, <2>2
\* The same nodes in another order.
<1>r. ASSUME NEW i \in 1..k PROVE \E j \in 1..k : t[i] = s[j] /\ j = IF i = 1 THEN k ELSE i - 1
  <2>1. CASE i = 1
    BY <2>1, <1>t, <1>n
  <2>2. CASE i # 1
    BY <2>2, <1>t
  <2> QED BY <2>1, <2>2
<1>q. ASSUME NEW m PROVE (\E i \in 1..k : t[i] = m) <=> \E j \in 1..k : s[j] = m
  <2>1. ASSUME NEW j \in 1..k PROVE \E i \in 1..k : t[i] = s[j]
    BY <1>s, <1>t, <1>n
  <2>2. ASSUME NEW i \in 1..k PROVE \E j \in 1..k : s[j] = t[i]
    BY <1>r
  <2>3. (\E i \in 1..k : t[i] = m) => \E j \in 1..k : s[j] = m
    BY <2>2
  <2>4. (\E j \in 1..k : s[j] = m) => \E i \in 1..k : t[i] = m
    <3> SUFFICES ASSUME NEW j \in 1..k, s[j] = m PROVE \E i \in 1..k : t[i] = m
      OBVIOUS
    <3> QED BY <2>1
  <2> QED BY <2>3, <2>4
<1>10. Apart(d)
  <2>1. ASSUME NEW i \in 1..k, NEW j \in 1..k, t[i] = t[j] PROVE i = j
    <3>1. PICK a \in 1..k : t[i] = s[a] /\ a = IF i = 1 THEN k ELSE i - 1
      BY <1>r
    <3>2. PICK b \in 1..k : t[j] = s[b] /\ b = IF j = 1 THEN k ELSE j - 1
      BY <1>r
    <3>3. a = b
      BY <2>1, <3>1, <3>2, <1>d, ZenonT(90)
    <3>4. (i # 1 => i - 1 # k) /\ (j # 1 => j - 1 # k)
      BY <1>t
    <3>5. CASE i = 1 \/ j = 1
      BY <3>1, <3>2, <3>3, <3>4, <3>5
    <3>6. CASE i # 1 /\ j # 1
      <4>1. i - 1 = j - 1
        BY <3>1, <3>2, <3>3, <3>6
      <4> QED BY <4>1, <1>1
    <3> QED BY <3>5, <3>6
  <2>2. ASSUME NEW o \in Lists, NEW i \in 1..Len(c[o]), NEW j \in 1..k, c[o][i] = t[j]
        PROVE  o = l
    <3>1. PICK b \in 1..k : t[j] = s[b]
      BY <1>r
    <3> QED BY <3>1, <2>2 DEF Linked, Apart
  <2>3. Apart(c)
    BY DEF Linked
  <2> QED BY <1>7, <1>8, <2>1, <2>2, <2>3 DEF Apart
<1>11. Allocated(d)'
  <2>1. ASSUME NEW m, NEW o \in Lists
        PROVE  (\E i \in 1..Len(d[o]) : d[o][i] = m) <=> \E i \in 1..Len(c[o]) : c[o][i] = m
    <3>1. CASE o = l
      <4>1. d[o] = t /\ c[o] = s
        BY <3>1, <1>8
      <4>2. (\E i \in 1..Len(d[o]) : d[o][i] = m) <=> \E i \in 1..k : t[i] = m
        BY <4>1, <1>7
      <4>3. (\E i \in 1..Len(c[o]) : c[o][i] = m) <=> \E i \in 1..k : s[i] = m
        BY <4>1
      <4> QED BY <4>2, <4>3, <1>q
    <3>2. CASE o # l
      BY <3>2, <1>8
    <3> QED BY <3>1, <3>2
  <2>2. Allocated(c) /\ alloc' = alloc
    BY <1>4 DEF Linked
  <2> QED BY <2>1, <2>2 DEF Allocated
<1> QED BY <1>6, <1>8, <1>9, <1>10, <1>11 DEF Linked

-----------------------------------------------------------------------------
(* Joining *)

\* The nodes of the lists when those of o have been moved behind those of l.
Joined(c, l, o) ==
    [q \in Lists |-> IF q = l THEN c[l] \o c[o] ELSE IF q = o THEN << >> ELSE c[q]]

\* A concatenation, position by position.
LEMMA ConcatFacts ==
    ASSUME NEW s \in Seq(Nodes), NEW r \in Seq(Nodes)
    PROVE  /\ s \o r \in Seq(Nodes) /\ Len(s \o r) = Len(s) + Len(r)
           /\ \A i \in 1..(Len(s) + Len(r)) :
                (s \o r)[i] = IF i <= Len(s) THEN s[i] ELSE r[i - Len(s)]
BY ConcatProperties

\* listJoin leaves every list linked when the second list is not empty.
LEMMA JoinKeeps ==
    ASSUME Types, NEW c, Linked(c), NEW l \in Lists, NEW o \in Lists, listJoin(l, o),
           ~JoinEmpty
    PROVE  Types' /\ Linked(Joined(c, l, o))'
<1>0. SUFFICES ASSUME NEW s, s = c[l], NEW r, r = c[o], NEW t, t = s \o r,
                    NEW d, d = Joined(c, l, o),
                    NEW a, a = Len(s), NEW b, b = Len(r)
             PROVE  Types' /\ Linked(d)'
  OBVIOUS
<1>1. /\ s \in Seq(Nodes) /\ a \in Nat /\ len[l] = a
      /\ head[l] = First(s) /\ tail[l] = Final(s)
      /\ \A i \in 1..a : /\ s[i] \in Nodes
                         /\ next[s[i]] = After(s, i) /\ prev[s[i]] = Before(s, i)
  BY <1>0, NodeFacts
<1>2. /\ r \in Seq(Nodes) /\ b \in Nat /\ len[o] = b
      /\ head[o] = First(r) /\ tail[o] = Final(r)
      /\ \A i \in 1..b : /\ r[i] \in Nodes
                         /\ next[r[i]] = After(r, i) /\ prev[r[i]] = Before(r, i)
  BY <1>0, NodeFacts
<1>3. l # o /\ b > 0
  BY <1>2 DEF listJoin
<1>m. a \in Nat /\ b \in Nat
  BY <1>1, <1>2
<1>n. 1 \in 1..b /\ b \in 1..b /\ b # 0 /\ a + b \in Nat /\ a + b # 0 /\ a + b # a
  BY <1>m, <1>3
<1>a. a # 0 => 1 \in 1..a /\ a \in 1..a /\ s[1] \in Nodes /\ s[a] \in Nodes
  BY <1>1
<1>b. r[1] \in Nodes /\ r[b] \in Nodes /\ head[o] = r[1] /\ tail[o] = r[b]
  BY <1>2, <1>0, <1>n DEF First, Final
<1>c. Final(s) = NULL <=> a = 0
  BY <1>0, <1>1, <1>a, ListConstants DEF Final
<1>d. /\ \A i, j \in 1..a : s[i] = s[j] => i = j
      /\ \A i, j \in 1..b : r[i] = r[j] => i = j
      /\ \A i \in 1..a, j \in 1..b : s[i] # r[j]
  <2>1. Apart(c)
    BY DEF Linked
  <2>2. \A i, j \in 1..a : s[i] = s[j] => i = j
    BY <2>1, <1>0 DEF Apart
  <2>3. \A i, j \in 1..b : r[i] = r[j] => i = j
    BY <2>1, <1>0 DEF Apart
  <2>4. \A i \in 1..a, j \in 1..b : s[i] # r[j]
    BY <2>1, <1>0, <1>3 DEF Apart
  <2> QED BY <2>2, <2>3, <2>4
<1>4. /\ prev' = [n \in Nodes |-> IF n = r[1] THEN Final(s) ELSE prev[n]]
      /\ next' = [n \in Nodes |-> IF n = Final(s) THEN r[1] ELSE next[n]]
      /\ UNCHANGED <<value, alloc>>
  BY <1>1, <1>b DEF listJoin
<1>5. /\ head'[l] = IF a = 0 THEN r[1] ELSE First(s)
      /\ tail'[l] = r[b] /\ len'[l] = a + b
      /\ head'[o] = NULL /\ tail'[o] = NULL /\ len'[o] = 0
      /\ \A q \in Lists \ {l, o} :
           head'[q] = head[q] /\ tail'[q] = tail[q] /\ len'[q] = len[q]
  BY <1>1, <1>2, <1>3, <1>b, <1>c DEF listJoin, Types
<1>6. Types'
  <2>1. Final(s) \in Cell /\ r[1] \in Cell /\ r[b] \in Cell /\ NULL \in Cell
    BY <1>1, <1>0, <1>a, <1>b DEF Cell, Final
  <2>2. head' \in [Lists -> Cell]
    BY <1>b, <2>1 DEF listJoin, Types
  <2>3. tail' \in [Lists -> Cell]
    BY <1>b, <2>1 DEF listJoin, Types
  <2>4. len' \in [Lists -> Nat]
    BY <1>1, <1>2, <1>n DEF listJoin, Types
  <2>5. prev' \in [Nodes -> Cell] /\ next' \in [Nodes -> Cell]
    BY <1>4, <2>1 DEF Types
  <2> QED BY <1>4, <2>2, <2>3, <2>4, <2>5 DEF Types
<1>7. t \in Seq(Nodes) /\ Len(t) = a + b
  BY <1>0, <1>1, <1>2, ConcatFacts
\* Node i of the list joined.
<1>t. \A i \in 1..(a + b) : t[i] = IF i <= a THEN s[i] ELSE r[i - a]
  BY <1>0, <1>1, <1>2, ConcatFacts
<1>s. ASSUME NEW i \in 1..a PROVE i \in 1..(a + b) /\ t[i] = s[i]
  <2>1. i \in 1..(a + b) /\ i <= a
    BY <1>m
  <2> QED BY <2>1, <1>t
<1>r. ASSUME NEW j \in 1..b PROVE a + j \in 1..(a + b) /\ t[a + j] = r[j]
  <2>1. a + j \in 1..(a + b) /\ ~(a + j <= a) /\ (a + j) - a = j
    BY <1>m
  <2>2. t[a + j] = r[(a + j) - a]
    BY <2>1, <1>t
  <2> QED BY <2>1, <2>2
<1>p. ASSUME NEW i \in 1..(a + b)
      PROVE  i \in 1..a \/ \E j \in 1..b : i = a + j
  <2>1. CASE i <= a
    BY <2>1, <1>1, <1>2
  <2>2. CASE ~(i <= a)
    <3>1. i - a \in 1..b /\ i = a + (i - a)
      BY <2>2, <1>m
    <3> QED BY <3>1
  <2> QED BY <2>1, <2>2
<1>8. /\ d \in [Lists -> Seq(Nodes)] /\ d[l] = t /\ d[o] = << >>
      /\ \A q \in Lists \ {l, o} : d[q] = c[q]
  BY <1>0, <1>3, <1>7, EmptyFacts DEF Joined, Linked
<1>9. ASSUME NEW q \in Lists PROVE Chain(q, d[q])'
  <2>1. CASE q \notin {l, o}
    <3>1. /\ \A i \in 1..Len(c[q]), j \in 1..a : c[q][i] # s[j]
          /\ \A i \in 1..Len(c[q]), j \in 1..b : c[q][i] # r[j]
      BY <1>0, <2>1 DEF Linked, Apart
    <3>2. \A i \in 1..Len(c[q]) : c[q][i] \in Nodes
      BY SeqFacts DEF Linked
    <3>3. ASSUME NEW i \in 1..Len(c[q])
          PROVE  next'[c[q][i]] = next[c[q][i]] /\ prev'[c[q][i]] = prev[c[q][i]]
      <4>1. c[q][i] # r[1]
        BY <3>1, <1>n
      <4>2. c[q][i] # Final(s)
        BY <3>1, <3>2, <1>0, <1>a, <1>c, ListConstants DEF Final
      <4> QED BY <3>2, <4>1, <4>2, <1>4
    <3>4. head'[q] = head[q] /\ tail'[q] = tail[q] /\ len'[q] = len[q]
      BY <2>1, <1>5
    <3>5. Chain(q, c[q]) /\ d[q] = c[q]
      BY <2>1, <1>8 DEF Linked
    <3>6. Chain(q, c[q])'
      BY <3>3, <3>4, <3>5, ChainKept
    <3> QED BY <3>5, <3>6
  <2>2. CASE q = o
    BY <2>2, <1>5, <1>8, EmptyFacts DEF Chain, First, Final
  <2>3. CASE q = l
    <3>1. head'[l] = First(t)
      <4>1. CASE a = 0
        <5>1. t[a + 1] = r[1] /\ a + 1 = 1
          BY <4>1, <1>r, <1>n
        <5>2. t[1] = r[1]
          BY <5>1
        <5> QED BY <4>1, <5>2, <1>5, <1>7, <1>n DEF First
      <4>2. CASE a # 0
        BY <4>2, <1>5, <1>7, <1>n, <1>a, <1>s, <1>0 DEF First
      <4> QED BY <4>1, <4>2
    <3>2. tail'[l] = Final(t)
      <4>1. t[a + b] = r[b]
        BY <1>r, <1>n
      <4> QED BY <4>1, <1>5, <1>7, <1>n DEF Final
    <3>3. ASSUME NEW i \in 1..a PROVE next'[t[i]] = After(t, i) /\ prev'[t[i]] = Before(t, i)
      <4>1. t[i] = s[i] /\ s[i] \in Nodes /\ i # a + b /\ i \in Nat
        <5>1. i # a + b /\ i \in Nat
          BY <1>m, <1>3
        <5> QED BY <5>1, <1>s, <1>1
      <4>2. next'[s[i]] = After(t, i)
        <5>1. CASE i = a
          <6>1. Final(s) = s[i]
            <7>1. a # 0
              BY <5>1, <1>m
            <7> QED BY <5>1, <7>1, <1>0 DEF Final
          <6>2. t[a + 1] = r[1]
            BY <1>r, <1>n
          <6> QED BY <4>1, <5>1, <6>1, <6>2, <1>4, <1>7 DEF After
        <5>2. CASE i # a
          <6>1. i + 1 \in 1..a /\ a # 0
            BY <5>2, <1>1
          <6>2. s[i] # Final(s)
            BY <5>2, <6>1, <1>0, <1>a, <1>d DEF Final
          <6>3. next'[s[i]] = s[i + 1]
            BY <4>1, <5>2, <6>2, <1>0, <1>1, <1>4 DEF After
          <6>4. t[i + 1] = s[i + 1]
            BY <6>1, <1>s
          <6> QED BY <4>1, <6>3, <6>4, <1>7 DEF After
        <5> QED BY <5>1, <5>2
      <4>3. prev'[s[i]] = Before(t, i)
        <5>1. prev'[s[i]] = Before(s, i)
          BY <4>1, <1>n, <1>d, <1>1, <1>4
        <5>2. i # 1 => t[i - 1] = s[i - 1]
          <6>1. i # 1 => i - 1 \in 1..a
            BY <1>1
          <6> QED BY <6>1, <1>s
        <5> QED BY <5>1, <5>2 DEF Before
      <4> QED BY <4>1, <4>2, <4>3
    <3>4. ASSUME NEW j \in 1..b
          PROVE  next'[t[a + j]] = After(t, a + j) /\ prev'[t[a + j]] = Before(t, a + j)
      <4>1. t[a + j] = r[j] /\ r[j] \in Nodes /\ j \in Nat /\ (a + j = a + b <=> j = b)
        <5>1. j \in Nat /\ (a + j = a + b <=> j = b)
          BY <1>m
        <5> QED BY <5>1, <1>r, <1>2
      <4>2. next'[r[j]] = After(t, a + j)
        <5>1. r[j] # Final(s)
          BY <4>1, <1>a, <1>0, <1>c, <1>d, ListConstants DEF Final
        <5>2. next'[r[j]] = After(r, j)
          BY <4>1, <5>1, <1>2, <1>4
        <5>3. j # b => t[(a + j) + 1] = r[j + 1]
          <6>1. j # b => j + 1 \in 1..b /\ a + (j + 1) = (a + j) + 1
            BY <1>m
          <6> QED BY <6>1, <1>r
        <5>4. After(r, j) = After(t, a + j)
          <6>1. After(r, j) = IF j = b THEN NULL ELSE r[j + 1]
            BY <1>0 DEF After
          <6>2. After(t, a + j) = IF a + j = a + b THEN NULL ELSE t[(a + j) + 1]
            BY <1>7 DEF After
          <6> QED BY <6>1, <6>2, <4>1, <5>3
        <5> QED BY <5>2, <5>4
      <4>3. prev'[r[j]] = Before(t, a + j)
        <5>1. CASE j = 1
          <6>1. prev'[r[j]] = Final(s)
            BY <4>1, <5>1, <1>4
          <6>2. (a + 1) - 1 = a /\ (a + 1 = 1 <=> a = 0)
            BY <1>1
          <6>3. a # 0 => t[a] = s[a]
            BY <1>a, <1>s
          <6> QED BY <5>1, <6>1, <6>2, <6>3, <1>0 DEF Before, Final
        <5>2. CASE j # 1
          <6>1. j - 1 \in 1..b /\ a + (j - 1) = (a + j) - 1 /\ a + j # 1
            BY <5>2, <1>m
          <6>2. t[(a + j) - 1] = r[j - 1]
            BY <6>1, <1>r
          <6>3. r[j] # r[1]
            BY <5>2, <1>n, <1>d
          <6>4. prev'[r[j]] = r[j - 1]
            BY <4>1, <5>2, <6>3, <1>0, <1>2, <1>4 DEF Before
          <6> QED BY <6>1, <6>2, <6>4 DEF Before
        <5> QED BY <5>1, <5>2
      <4> QED BY <4>1, <4>2, <4>3
    <3>5. ASSUME NEW i \in 1..(a + b)
          PROVE  next'[t[i]] = After(t, i) /\ prev'[t[i]] = Before(t, i)
      BY <1>p, <3>3, <3>4
    <3>6. d[q] = t /\ Len(t) = a + b
      BY <2>3, <1>7, <1>8
    <3> QED BY <2>3, <1>5, <3>1, <3>2, <3>5, <3>6 DEF Chain
  <2> QED BY <2>1, <2>2, <2>3
\* The nodes of both lists, each once.
<1>q. ASSUME NEW m
      PROVE  (\E i \in 1..(a + b) : t[i] = m)
               <=> (\E i \in 1..a : s[i] = m) \/ (\E j \in 1..b : r[j] = m)
  <2>1. ASSUME NEW i \in 1..(a + b), t[i] = m
        PROVE  (\E k \in 1..a : s[k] = m) \/ (\E j \in 1..b : r[j] = m)
    <3>1. CASE i \in 1..a
      BY <3>1, <2>1, <1>s
    <3>2. ASSUME NEW j \in 1..b, i = a + j PROVE r[j] = m
      BY <3>2, <2>1, <1>r
    <3> QED BY <3>1, <3>2, <1>p
  <2>2. ASSUME NEW i \in 1..a, s[i] = m PROVE \E k \in 1..(a + b) : t[k] = m
    BY <2>2, <1>s
  <2>3. ASSUME NEW j \in 1..b, r[j] = m PROVE \E k \in 1..(a + b) : t[k] = m
    BY <2>3, <1>r
  <2> QED BY <2>1, <2>2, <2>3
<1>10. Apart(d)
  <2>1. ASSUME NEW i \in 1..(a + b), NEW j \in 1..(a + b), t[i] = t[j] PROVE i = j
    <3>1. CASE i \in 1..a /\ j \in 1..a
      BY <3>1, <2>1, <1>s, <1>d
    <3>2. ASSUME NEW k \in 1..b, i = a + k, j \in 1..a PROVE FALSE
      <4>1. s[j] = r[k]
        BY <3>2, <2>1, <1>s, <1>r
      <4> QED BY <3>2, <4>1, <1>d
    <3>3. ASSUME NEW k \in 1..b, j = a + k, i \in 1..a PROVE FALSE
      <4>1. s[i] = r[k]
        BY <3>3, <2>1, <1>s, <1>r
      <4> QED BY <3>3, <4>1, <1>d
    <3>4. ASSUME NEW k \in 1..b, i = a + k, NEW g \in 1..b, j = a + g PROVE i = j
      <4>1. r[k] = r[g]
        BY <3>4, <2>1, <1>r
      <4> QED BY <3>4, <4>1, <1>d
    <3> QED BY <3>1, <3>2, <3>3, <3>4, <1>p
  <2>2. ASSUME NEW q \in Lists, q \notin {l, o}, NEW i \in 1..Len(c[q]), NEW j \in 1..(a + b),
               c[q][i] = t[j]
        PROVE  FALSE
    <3>1. (\E k \in 1..a : s[k] = t[j]) \/ (\E k \in 1..b : r[k] = t[j])
      BY <1>q
    <3> QED BY <1>0, <3>1, <2>2 DEF Linked, Apart
  <2>3. Apart(c)
    BY DEF Linked
  <2> SUFFICES ASSUME NEW x \in Lists, NEW y \in Lists,
                      NEW i \in 1..Len(d[x]), NEW j \in 1..Len(d[y]), d[x][i] = d[y][j]
               PROVE  x = y /\ i = j
    BY DEF Apart
  <2>4. x # o /\ y # o
    BY <1>8, EmptyFacts
  <2>e. Len(d[l]) = a + b /\ d[l] = t
    BY <1>7, <1>8
  <2>5. CASE x = l /\ y = l
    <3>1. i \in 1..(a + b) /\ j \in 1..(a + b) /\ t[i] = t[j]
      BY <2>5, <2>e
    <3> QED BY <3>1, <2>1, <2>5
  <2>6. CASE x = l /\ y # l
    <3>1. y \notin {l, o} /\ d[y] = c[y]
      BY <2>4, <2>6, <1>8
    <3>2. i \in 1..(a + b) /\ j \in 1..Len(c[y]) /\ c[y][j] = t[i]
      BY <2>6, <3>1, <2>e
    <3> QED BY <3>1, <3>2, <2>2
  <2>7. CASE x # l /\ y = l
    <3>1. x \notin {l, o} /\ d[x] = c[x]
      BY <2>4, <2>7, <1>8
    <3>2. j \in 1..(a + b) /\ i \in 1..Len(c[x]) /\ c[x][i] = t[j]
      BY <2>7, <3>1, <2>e
    <3> QED BY <3>1, <3>2, <2>2
  <2>8. CASE x # l /\ y # l
    <3>1. d[x] = c[x] /\ d[y] = c[y]
      BY <2>4, <2>8, <1>8
    <3> QED BY <3>1, <2>3 DEF Apart
  <2> QED BY <2>5, <2>6, <2>7, <2>8
<1>11. Allocated(d)'
  <2>1. ASSUME NEW m
        PROVE  (\E q \in Lists : \E i \in 1..Len(d[q]) : d[q][i] = m)
                 <=> \E q \in Lists : \E i \in 1..Len(c[q]) : c[q][i] = m
    <3>1. (\E i \in 1..Len(d[l]) : d[l][i] = m)
            <=> (\E i \in 1..Len(c[l]) : c[l][i] = m) \/ (\E i \in 1..Len(c[o]) : c[o][i] = m)
      <4>1. d[l] = t /\ Len(d[l]) = a + b
              /\ c[l] = s /\ c[o] = r /\ Len(c[l]) = a /\ Len(c[o]) = b
        BY <1>0, <1>7, <1>8
      <4> QED BY <4>1, <1>q
    <3>2. ~ \E i \in 1..Len(d[o]) : d[o][i] = m
      BY <1>8, EmptyFacts
    <3>3. ASSUME NEW q \in Lists, q \notin {l, o} PROVE d[q] = c[q]
      BY <3>3, <1>8
    <3>4. ASSUME NEW q \in Lists, \E i \in 1..Len(d[q]) : d[q][i] = m
          PROVE  \E x \in Lists : \E i \in 1..Len(c[x]) : c[x][i] = m
      <4>1. CASE q = l
        BY <3>1, <3>4, <4>1
      <4>2. CASE q # l
        BY <3>2, <3>3, <3>4, <4>2
      <4> QED BY <4>1, <4>2
    <3>5. ASSUME NEW q \in Lists, \E i \in 1..Len(c[q]) : c[q][i] = m
          PROVE  \E x \in Lists : \E i \in 1..Len(d[x]) : d[x][i] = m
      <4>1. CASE q \in {l, o}
        BY <3>1, <3>5, <4>1
      <4>2. CASE q \notin {l, o}
        BY <3>3, <3>5, <4>2
      <4> QED BY <4>1, <4>2
    <3> QED BY <3>4, <3>5
  <2>2. Allocated(c) /\ alloc' = alloc
    BY <1>4 DEF Linked
  <2> QED BY <2>1, <2>2 DEF Allocated
<1> QED BY <1>6, <1>8, <1>9, <1>10, <1>11 DEF Linked

-----------------------------------------------------------------------------
(* Copying *)

\* As many different nodes as positions: no position is given twice.
LEMMA DifferentNodes ==
    ASSUME NEW n \in Nat, NEW copy \in [1..n -> Nodes],
           Cardinality({copy[i] : i \in 1..n}) = n
    PROVE  \A i, j \in 1..n : copy[i] = copy[j] => i = j
<1> DEFINE T == {copy[i] : i \in 1..n}
<1>1. copy \in Surjection(1..n, T)
  BY DEF Surjection
<1>2. IsFiniteSet(1..n) /\ Cardinality(1..n) = n
  BY CountTo
<1> HIDE DEF T
<1>3. copy \in Injection(1..n, T)
  BY <1>1, <1>2, FS_Surjection DEF T
<1> QED BY <1>3 DEF Injection, IsInjective

\* Where the node m is in a copy.
Position(copy, n, m) == CHOOSE i \in 1..n : copy[i] = m

\* The fields of the nodes of a copy that becomes list o.
Copies(o, n, copy) ==
    /\ alloc' = alloc \cup {copy[i] : i \in 1..n}
    /\ DOMAIN value' = Nodes /\ value' = [m \in Nodes |-> value'[m]]
    /\ prev' = [m \in Nodes |->
                  IF m \notin {copy[i] : i \in 1..n} THEN prev[m]
                  ELSE IF Position(copy, n, m) = 1 THEN NULL
                  ELSE copy[Position(copy, n, m) - 1]]
    /\ next' = [m \in Nodes |->
                  IF m \notin {copy[i] : i \in 1..n} THEN next[m]
                  ELSE IF Position(copy, n, m) = n THEN NULL
                  ELSE copy[Position(copy, n, m) + 1]]
    /\ head' = [head EXCEPT ![o] = copy[1]]
    /\ tail' = [tail EXCEPT ![o] = copy[n]]
    /\ len' = [len EXCEPT ![o] = n]

\* A list of new nodes linked in the order of copy is linked.
LEMMA CopyStep ==
    ASSUME Types, NEW c, Linked(c), NEW o \in Lists, Len(c[o]) = 0,
           NEW n \in Nat \ {0}, NEW copy \in [1..n -> Nodes \ alloc],
           \A i, j \in 1..n : copy[i] = copy[j] => i = j,
           Copies(o, n, copy)
    PROVE  Types' /\ Linked([c EXCEPT ![o] = copy])'
<1>0. SUFFICES ASSUME NEW d, d = [c EXCEPT ![o] = copy]
              PROVE  Types' /\ Linked(d)'
  OBVIOUS
<1>n. n \in Nat /\ 1 \in 1..n /\ n \in 1..n /\ n # 0
  OBVIOUS
<1>1. \A i \in 1..n : copy[i] \in Nodes /\ copy[i] \notin alloc
  OBVIOUS
<1>2. copy \in Seq(Nodes) /\ Len(copy) = n
  <2>1. copy \in [1..n -> Nodes]
    OBVIOUS
  <2> QED BY <2>1, <1>n, FunctionSeq
<1>3. /\ d \in [Lists -> Seq(Nodes)] /\ d[o] = copy
      /\ \A q \in Lists : q # o => d[q] = c[q]
  BY <1>0, <1>2 DEF Linked
<1>4. \A i \in 1..n : Position(copy, n, copy[i]) = i
  BY DEF Position
\* The links of a copied node, and of any other.
<1>5. ASSUME NEW i \in 1..n
      PROVE  /\ prev'[copy[i]] = IF i = 1 THEN NULL ELSE copy[i - 1]
             /\ next'[copy[i]] = IF i = n THEN NULL ELSE copy[i + 1]
  BY <1>1, <1>4 DEF Copies
<1>6. ASSUME NEW m \in Nodes, m \in alloc PROVE prev'[m] = prev[m] /\ next'[m] = next[m]
  BY <1>1, <1>6 DEF Copies
<1>7. Types'
  <2>1. ASSUME NEW m \in Nodes PROVE prev'[m] \in Cell /\ next'[m] \in Cell
    <3>1. CASE m \notin {copy[i] : i \in 1..n}
      BY <3>1 DEF Copies, Types
    <3>2. ASSUME NEW i \in 1..n, m = copy[i] PROVE prev'[m] \in Cell /\ next'[m] \in Cell
      <4>1. i # 1 => copy[i - 1] \in Nodes
        <5>1. i # 1 => i - 1 \in 1..n
          BY <1>n
        <5> QED BY <5>1, <1>1
      <4>2. i # n => copy[i + 1] \in Nodes
        <5>1. i # n => i + 1 \in 1..n
          BY <1>n
        <5> QED BY <5>1, <1>1
      <4> QED BY <3>2, <4>1, <4>2, <1>5 DEF Cell
    <3> QED BY <3>1, <3>2
  <2>2. prev' \in [Nodes -> Cell] /\ next' \in [Nodes -> Cell]
    <3>1. /\ DOMAIN prev' = Nodes /\ prev' = [m \in Nodes |-> prev'[m]]
          /\ DOMAIN next' = Nodes /\ next' = [m \in Nodes |-> next'[m]]
      BY DEF Copies
    <3> QED BY <2>1, <3>1
  <2>3. copy[1] \in Cell /\ copy[n] \in Cell
    BY <1>1, <1>n DEF Cell
  <2>4. head' \in [Lists -> Cell] /\ tail' \in [Lists -> Cell]
    BY <2>3 DEF Copies, Types
  <2>5. len' \in [Lists -> Nat]
    BY <1>n DEF Copies, Types
  <2> QED BY <2>2, <2>4, <2>5 DEF Copies, Types
<1>8. ASSUME NEW q \in Lists PROVE Chain(q, d[q])'
  <2>1. CASE q # o
    <3>1. \A i \in 1..Len(c[q]) : c[q][i] \in Nodes /\ c[q][i] \in alloc
      BY NodeFacts
    <3>2. \A i \in 1..Len(c[q]) : next'[c[q][i]] = next[c[q][i]] /\ prev'[c[q][i]] = prev[c[q][i]]
      BY <3>1, <1>6
    <3>3. head'[q] = head[q] /\ tail'[q] = tail[q] /\ len'[q] = len[q]
      BY <2>1 DEF Copies, Types
    <3>4. Chain(q, c[q]) /\ d[q] = c[q]
      BY <2>1, <1>3 DEF Linked
    <3>5. Chain(q, c[q])'
      BY <3>2, <3>3, <3>4, ChainKept
    <3> QED BY <3>4, <3>5
  <2>2. CASE q = o
    <3>1. head'[o] = copy[1] /\ tail'[o] = copy[n] /\ len'[o] = n
      BY DEF Copies, Types
    <3>2. d[q] = copy
      BY <2>2, <1>3
    <3> QED BY <2>2, <3>1, <3>2, <1>2, <1>n, <1>5 DEF Chain, First, Final, After, Before
  <2> QED BY <2>1, <2>2
<1>9. Apart(d)
  <2> SUFFICES ASSUME NEW x \in Lists, NEW y \in Lists,
                      NEW i \in 1..Len(d[x]), NEW j \in 1..Len(d[y]), d[x][i] = d[y][j]
               PROVE  x = y /\ i = j
    BY DEF Apart
  <2>1. \A q \in Lists : \A k \in 1..Len(c[q]) : c[q][k] \in alloc
    BY NodeFacts
  <2>2. CASE x = o /\ y = o
    BY <2>2, <1>2, <1>3
  <2>3. CASE x = o /\ y # o
    BY <2>1, <2>3, <1>1, <1>2, <1>3
  <2>4. CASE x # o /\ y = o
    BY <2>1, <2>4, <1>1, <1>2, <1>3
  <2>5. CASE x # o /\ y # o
    <3>1. d[x] = c[x] /\ d[y] = c[y]
      BY <2>5, <1>3
    <3> QED BY <3>1 DEF Linked, Apart
  <2> QED BY <2>2, <2>3, <2>4, <2>5
<1>10. Allocated(d)'
  <2>1. ASSUME NEW m
        PROVE  (\E q \in Lists : \E i \in 1..Len(d[q]) : d[q][i] = m)
                 <=> \/ \E q \in Lists : \E i \in 1..Len(c[q]) : c[q][i] = m
                     \/ \E i \in 1..n : copy[i] = m
    <3>1. (\E i \in 1..Len(d[o]) : d[o][i] = m) <=> \E i \in 1..n : copy[i] = m
      BY <1>2, <1>3
    <3>2. ~ \E i \in 1..Len(c[o]) : c[o][i] = m
      OBVIOUS
    <3>3. ASSUME NEW q \in Lists
          PROVE  (\E i \in 1..Len(d[q]) : d[q][i] = m)
                   <=> \/ \E i \in 1..Len(c[q]) : c[q][i] = m
                       \/ q = o /\ \E i \in 1..n : copy[i] = m
      <4>1. CASE q = o
        BY <3>1, <3>2, <4>1
      <4>2. CASE q # o
        BY <1>3, <4>2
      <4> QED BY <4>1, <4>2
    <3> QED BY <3>3
  <2>2. Allocated(c)
    BY DEF Linked
  <2>3. ASSUME NEW m PROVE m \in alloc' <=> m \in alloc \/ \E i \in 1..n : copy[i] = m
    BY DEF Copies
  <2>4. ASSUME NEW m
        PROVE  m \in alloc' <=> \E q \in Lists : \E i \in 1..Len(d[q]) : d[q][i] = m
    <3>1. m \in alloc <=> \E q \in Lists : \E i \in 1..Len(c[q]) : c[q][i] = m
      BY <2>2 DEF Allocated
    <3> QED BY <2>1, <2>3, <3>1
  <2> QED BY <2>4 DEF Allocated
<1> QED BY <1>3, <1>7, <1>8, <1>9, <1>10 DEF Linked

\* What listDup does, with its local definitions resolved.
LEMMA DupCopies ==
    ASSUME Types, NEW c, Linked(c), NEW l \in Lists, NEW o \in Lists, listDup(l, o)
    PROVE  /\ l # o /\ Len(c[l]) \in Nat \ {0} /\ Len(c[o]) = 0 /\ UNCHANGED iter
           /\ \E copy \in [1..Len(c[l]) -> Nodes \ alloc] :
                /\ \A i, j \in 1..Len(c[l]) : copy[i] = copy[j] => i = j
                /\ Copies(o, Len(c[l]), copy)
                /\ value' = [m \in Nodes |->
                               IF m \in {copy[i] : i \in 1..Len(c[l])}
                               THEN value[c[l][Position(copy, Len(c[l]), m)]]
                               ELSE value[m]]
<1> DEFINE n == Len(c[l])
<1>1. Forward(l) = c[l] /\ n \in Nat
  BY ListRead, NodeFacts
<1>2. l # o /\ len[o] = 0 /\ UNCHANGED iter
  BY DEF listDup
<1>3. Len(c[o]) = 0
  BY <1>2, NodeFacts
<1>4. PICK copy \in [1..n -> Nodes \ alloc] :
        /\ Len(copy) > 0 /\ Cardinality(ToSet(copy)) = Len(copy)
        /\ alloc' = alloc \cup ToSet(copy)
        /\ value' = [m \in Nodes |->
                       IF m \in ToSet(copy)
                       THEN Copied(l, CHOOSE i \in 1..Len(copy) : copy[i] = m)
                       ELSE value[m]]
        /\ prev' = [m \in Nodes |->
                      IF m \notin ToSet(copy) THEN prev[m]
                      ELSE IF (CHOOSE i \in 1..Len(copy) : copy[i] = m) = 1 THEN NULL
                      ELSE copy[(CHOOSE i \in 1..Len(copy) : copy[i] = m) - 1]]
        /\ next' = [m \in Nodes |->
                      IF m \notin ToSet(copy) THEN next[m]
                      ELSE IF (CHOOSE i \in 1..Len(copy) : copy[i] = m) = Len(copy) THEN NULL
                      ELSE copy[(CHOOSE i \in 1..Len(copy) : copy[i] = m) + 1]]
        /\ head' = [head EXCEPT ![o] = copy[1]]
        /\ tail' = [tail EXCEPT ![o] = copy[Len(copy)]]
        /\ len' = [len EXCEPT ![o] = Len(copy)]
  BY <1>1, Zenon DEF listDup
<1>5. Len(copy) = n /\ DOMAIN copy = 1..n
  <2>1. copy \in [1..n -> Nodes]
    OBVIOUS
  <2> QED BY <2>1, <1>1, FunctionSeq
<1>6. ToSet(copy) = {copy[i] : i \in 1..n}
  BY <1>5 DEF ToSet
<1>7. n \in Nat \ {0}
  BY <1>1, <1>4, <1>5
<1>8. \A i, j \in 1..n : copy[i] = copy[j] => i = j
  <2>1. copy \in [1..n -> Nodes]
    OBVIOUS
  <2> QED BY <2>1, <1>1, <1>4, <1>5, <1>6, DifferentNodes
<1>9. value' = [m \in Nodes |-> IF m \in {copy[i] : i \in 1..n}
                                THEN value[c[l][Position(copy, n, m)]] ELSE value[m]]
  BY <1>1, <1>4, <1>5, <1>6 DEF Copied, Position
<1>10. Copies(o, n, copy)
  <2>1. DOMAIN value' = Nodes /\ value' = [m \in Nodes |-> value'[m]]
    BY <1>9
  <2> QED BY <2>1, <1>4, <1>5, <1>6 DEF Copies, Position
<1> QED BY <1>2, <1>3, <1>7, <1>8, <1>9, <1>10

-----------------------------------------------------------------------------
(* The iterator *)

\* A list that is not iterated may change in any way.
LEMMA IterKept ==
    ASSUME IterTypes, NEW c, IterOK(c), NEW d, iter' = iter,
           iter.list \in Lists => d[iter.list] = c[iter.list]
    PROVE  IterTypes' /\ IterOK(d)'
<1>1. IterTypes'
  BY DEF IterTypes
<1>2. ASSUME iter.list \in Lists, iter.list # NULL PROVE Cursor(d[iter.list])'
  <2>1. Cursor(c[iter.list]) /\ d[iter.list] = c[iter.list]
    BY <1>2 DEF IterOK
  <2>2. Cursor(d[iter.list])
    BY <2>1
  <2> QED BY <2>2 DEF Cursor, HeadCursor, TailCursor
<1> QED BY <1>1, <1>2 DEF IterOK

\* listRewind and listRewindTail start before the first or behind the last node.
LEMMA RewindIter ==
    ASSUME Types, IterTypes, NEW c, Linked(c), NEW l \in Lists, NEW dir \in {"head", "tail"},
           listRewind(l, dir)
    PROVE  IterTypes' /\ IterOK(c)'
<1>0. SUFFICES ASSUME NEW s, s = c[l]
               PROVE  IterTypes' /\ IterOK(c)'
  OBVIOUS
<1>1. /\ s \in Seq(Nodes) /\ Len(s) \in Nat
      /\ head[l] = First(s) /\ tail[l] = Final(s)
      /\ \A i \in 1..Len(s) : s[i] \in Nodes
  BY <1>0, NodeFacts
<1>2. Forward(l) = s
  BY <1>0, ListRead
<1>3. /\ Reverse(s) \in Seq(Nodes) /\ Len(Reverse(s)) = Len(s)
      /\ \A i \in 1..Len(s) : Reverse(s)[i] = s[(Len(s) - i) + 1]
  BY <1>1, ReverseFacts
<1>4. iter' = [list |-> l, dir |-> dir, cur |-> NULL,
               at |-> IF dir = "head" THEN head[l] ELSE tail[l],
               todo |-> IF dir = "head" THEN s ELSE Reverse(s)]
  BY <1>2 DEF listRewind
<1>5. /\ iter'.list = l /\ iter'.dir = dir /\ iter'.cur = NULL
      /\ iter'.at = IF dir = "head" THEN head[l] ELSE tail[l]
      /\ iter'.todo = IF dir = "head" THEN s ELSE Reverse(s)
  BY <1>4
<1>6. IterTypes'
  <2>1. head[l] \in Cell /\ tail[l] \in Cell /\ NULL \in Cell
    BY DEF Types, Cell
  <2> QED BY <1>1, <1>3, <1>4, <2>1 DEF IterTypes
<1>7. CASE dir = "head"
  <2>1. \A i \in 1..Len(s) : 0 + i = i
    BY <1>1
  <2>2. 0 \in 0..Len(s) /\ Len(s) - 0 = Len(s) /\ (0 = Len(s) <=> Len(s) = 0) /\ 0 + 1 = 1
    BY <1>1
  <2>3. HeadCursor(s, 0)'
    BY <1>1, <1>5, <1>7, <2>1, <2>2 DEF HeadCursor, First
  <2>4. Cursor(s)'
    BY <2>2, <2>3 DEF Cursor
  <2> QED BY <1>0, <1>5, <1>6, <2>4 DEF IterOK
<1>8. CASE dir = "tail"
  <2>1. Len(s) \in 0..Len(s)
    BY <1>1
  <2>2. TailCursor(s, Len(s))'
    BY <1>1, <1>3, <1>5, <1>8, <2>1 DEF TailCursor, Final
  <2>3. Cursor(s)'
    BY <2>1, <2>2 DEF Cursor
  <2> QED BY <1>0, <1>5, <1>6, <2>3 DEF IterOK
<1> QED BY <1>7, <1>8

\* The tail of a sequence, position by position.
LEMMA TailFacts ==
    ASSUME NEW s \in Seq(Nodes), Len(s) # 0
    PROVE  /\ Tail(s) \in Seq(Nodes) /\ Len(Tail(s)) = Len(s) - 1
           /\ \A i \in 1..(Len(s) - 1) : Tail(s)[i] = s[i + 1]
           /\ Head(s) = s[1]
<1>1. s # << >>
  BY SeqFacts
<1> QED BY <1>1, HeadTailProperties

\* listNext goes on by one node, in the direction of the iterator.
LEMMA NextIter ==
    ASSUME Types, IterTypes, NEW c, Linked(c), IterOK(c), listNext
    PROVE  IterTypes' /\ IterOK(c)'
<1>1. CASE iter.at = NULL
  <2>1. iter' = NoIter
    BY <1>1 DEF listNext
  <2>2. << >> \in Seq(Nodes) /\ NULL \in Cell
    BY DEF Cell
  <2> QED BY <2>1, <2>2 DEF IterTypes, IterOK, NoIter
<1>2. CASE iter.at # NULL
  <2>1. iter.list # NULL /\ iter.list \in Lists
    BY DEF listNext, IterTypes
  <2>0. SUFFICES ASSUME NEW s, s = c[iter.list]
                 PROVE  IterTypes' /\ IterOK(c)'
    OBVIOUS
  <2>2. /\ s \in Seq(Nodes) /\ Len(s) \in Nat
        /\ \A i \in 1..Len(s) : /\ s[i] \in Nodes
                                /\ next[s[i]] = After(s, i) /\ prev[s[i]] = Before(s, i)
    BY <2>0, <2>1, NodeFacts
  <2>3. PICK k \in 0..Len(s) : HeadCursor(s, k) \/ TailCursor(s, k)
    BY <2>0, <2>1 DEF IterOK, Cursor
  <2>4. iter' = [iter EXCEPT !.at = AfterNext(iter.at), !.cur = iter.at, !.todo = Tail(@)]
    BY <1>2 DEF listNext
  <2>5. /\ iter'.list = iter.list /\ iter'.dir = iter.dir
        /\ iter'.at = AfterNext(iter.at) /\ iter'.cur = iter.at
        /\ iter'.todo = Tail(iter.todo)
    BY <2>4 DEF IterTypes
  <2>6. iter.at \in Nodes /\ AfterNext(iter.at) \in Cell
    BY <1>2 DEF IterTypes, Types, Cell, AfterNext
  <2>7. iter.todo \in Seq(Nodes) /\ k \in Nat
    BY DEF IterTypes
  <2>8. Len(iter.todo) # 0
    <3>1. CASE HeadCursor(s, k)
      <4>1. k # Len(s) /\ Len(iter.todo) = Len(s) - k
        BY <1>2, <3>1 DEF HeadCursor
      <4> QED BY <4>1, <2>2, <2>7
    <3>2. CASE TailCursor(s, k)
      BY <1>2, <3>2 DEF TailCursor
    <3> QED BY <2>3, <3>1, <3>2
  <2>9. /\ Tail(iter.todo) \in Seq(Nodes) /\ Len(Tail(iter.todo)) = Len(iter.todo) - 1
        /\ \A i \in 1..(Len(iter.todo) - 1) : Tail(iter.todo)[i] = iter.todo[i + 1]
    BY <2>7, <2>8, TailFacts
  <2>10. IterTypes'
    <3>1. iter.at \in Cell
      BY <2>6 DEF Cell
    <3> QED BY <2>4, <2>6, <2>9, <3>1 DEF IterTypes
  <2>11. CASE HeadCursor(s, k)
    <3>1. /\ k # Len(s) /\ Len(iter.todo) = Len(s) - k /\ iter.at = s[k + 1] /\ iter.dir = "head"
          /\ \A i \in 1..Len(iter.todo) : iter.todo[i] = s[k + i]
      BY <1>2, <2>11 DEF HeadCursor
    <3>2. k + 1 \in 0..Len(s) /\ k + 1 \in 1..Len(s) /\ k + 1 # 0
      BY <2>2, <2>7, <3>1
    <3>3. iter'.at = IF k + 1 = Len(s) THEN NULL ELSE s[(k + 1) + 1]
      BY <2>2, <2>5, <3>1, <3>2 DEF AfterNext, After
    <3>4. Len(iter.todo) - 1 = Len(s) - (k + 1) /\ Len(iter.todo) \in Nat
      BY <2>2, <2>7, <3>1
    <3>5. ASSUME NEW i \in 1..(Len(iter.todo) - 1) PROVE Tail(iter.todo)[i] = s[(k + 1) + i]
      <4>1. i + 1 \in 1..Len(iter.todo) /\ k + (i + 1) = (k + 1) + i
        BY <2>7, <3>4, SMTT(60)
      <4> QED BY <2>9, <3>1, <4>1, SMTT(60)
    <3>6. HeadCursor(s, k + 1)'
      BY <2>5, <2>9, <3>1, <3>2, <3>3, <3>4, <3>5 DEF HeadCursor
    <3>7. Cursor(s)'
      BY <3>2, <3>6 DEF Cursor
    <3> QED BY <2>0, <2>5, <2>10, <3>7 DEF IterOK
  <2>12. CASE TailCursor(s, k)
    <3>1. /\ k # 0 /\ Len(iter.todo) = k /\ iter.at = s[k] /\ iter.dir = "tail"
          /\ \A i \in 1..Len(iter.todo) : iter.todo[i] = s[(k - i) + 1]
      BY <1>2, <2>12 DEF TailCursor
    <3>2. k - 1 \in 0..Len(s) /\ k \in 1..Len(s) /\ k - 1 # Len(s) /\ (k - 1) + 1 = k
          /\ (k = 1 <=> k - 1 = 0)
      BY <2>2, <2>7, <3>1
    <3>3. iter'.at = IF k - 1 = 0 THEN NULL ELSE s[k - 1]
      BY <2>2, <2>5, <3>1, <3>2 DEF AfterNext, Before
    <3>5. ASSUME NEW i \in 1..(k - 1) PROVE Tail(iter.todo)[i] = s[((k - 1) - i) + 1]
      <4>1. i + 1 \in 1..k /\ k - (i + 1) = (k - 1) - i
        BY <2>7
      <4>2. Tail(iter.todo)[i] = iter.todo[i + 1]
        BY <2>9, <3>1
      <4>3. iter.todo[i + 1] = s[(k - (i + 1)) + 1]
        BY <3>1, <4>1
      <4> QED BY <4>1, <4>2, <4>3
    <3>6. TailCursor(s, k - 1)'
      BY <2>5, <2>9, <3>1, <3>2, <3>3, <3>5 DEF TailCursor
    <3>7. Cursor(s)'
      BY <3>2, <3>6 DEF Cursor
    <3> QED BY <2>0, <2>5, <2>10, <3>7 DEF IterOK
  <2> QED BY <2>3, <2>11, <2>12
<1> QED BY <1>1, <1>2

\* Deleting the node listNext returned last leaves the iterator where it was: its
\* next field was read before the node was returned.
LEMMA DelNodeIter ==
    ASSUME Types, IterTypes, NEW c, Linked(c), IterOK(c), NEW l \in Lists,
           NEW p \in 1..Len(c[l]), listDelNode(l, c[l][p])
    PROVE  IterTypes' /\ IterOK([c EXCEPT ![l] = Cut(c[l], p)])'
<1>0. SUFFICES ASSUME NEW s, s = c[l], NEW t, t = Cut(s, p),
                      NEW d, d = [c EXCEPT ![l] = t]
               PROVE  IterTypes' /\ IterOK(d)'
  OBVIOUS
<1>1. /\ s \in Seq(Nodes) /\ Len(s) \in Nat /\ \A i \in 1..Len(s) : s[i] \in Nodes
  BY <1>0, NodeFacts
<1>p. p \in 1..Len(s) /\ p \in Nat
  BY <1>0, <1>1
<1>2. \A o \in Lists : o # l => d[o] = c[o]
  BY <1>0 DEF Linked
<1>3. d[l] = t
  BY <1>0 DEF Linked
<1>4. CASE iter.list # l
  BY <1>2, <1>4, IterKept DEF listDelNode
<1>5. CASE iter.list = l /\ l = NULL
  <2>1. iter' = [iter EXCEPT !.cur = NULL] /\ NULL \in Cell
    BY <1>5 DEF listDelNode, Cell
  <2>2. iter'.list = iter.list
    BY <2>1 DEF IterTypes
  <2> QED BY <1>5, <2>1, <2>2 DEF IterTypes, IterOK
<1>6. CASE iter.list = l /\ l # NULL
  <2>1. /\ iter' = [iter EXCEPT !.cur = NULL] /\ NULL \in Cell /\ iter.cur = s[p]
    BY <1>0, <1>6 DEF listDelNode, Cell
  <2>2. /\ iter'.list = l /\ iter'.dir = iter.dir /\ iter'.cur = NULL
        /\ iter'.at = iter.at /\ iter'.todo = iter.todo
    BY <1>6, <2>1 DEF IterTypes
  <2>3. IterTypes'
    BY <2>1 DEF IterTypes
  <2>4. iter.cur # NULL
    BY <1>1, <1>p, <2>1, ListConstants
  <2>5. \A i, j \in 1..Len(s) : s[i] = s[j] => i = j
    BY <1>0 DEF Linked, Apart
  <2>6. PICK k \in 0..Len(s) : HeadCursor(s, k) \/ TailCursor(s, k)
    BY <1>0, <1>6 DEF IterOK, Cursor
  <2>7. k \in Nat /\ iter.todo \in Seq(Nodes) /\ Len(iter.todo) \in Nat
    BY SeqFacts DEF IterTypes
  <2>8. Len(s) - 1 \in Nat
    BY <1>1, <1>p
  <2>9. Len(t) = Len(s) - 1 /\ \A i \in 1..(Len(s) - 1) : t[i] = IF i < p THEN s[i] ELSE s[i + 1]
    <3>1. \A i \in 1..(Len(s) - 1) : i \in 1..Len(s) /\ i + 1 \in 1..Len(s)
      BY <1>1
    <3>2. t \in [1..(Len(s) - 1) -> Nodes]
      BY <1>0, <1>1, <3>1 DEF Cut
    <3>3. Len(t) = Len(s) - 1
      BY <2>8, <3>2, FunctionSeq
    <3> QED BY <1>0, <3>3 DEF Cut
  <2>10. CASE HeadCursor(s, k)
    <3>1. /\ k # 0 /\ s[k] = s[p] /\ iter.dir = "head" /\ Len(iter.todo) = Len(s) - k
          /\ \A i \in 1..Len(iter.todo) : iter.todo[i] = s[k + i]
          /\ iter.at = IF k = Len(s) THEN NULL ELSE s[k + 1]
      BY <2>1, <2>4, <2>10 DEF HeadCursor
    <3>2. k \in 1..Len(s)
      BY <1>1, <2>7, <3>1
    <3>3. k = p
      BY <1>p, <2>5, <3>1, <3>2
    <3>4. k - 1 \in 0..Len(t) /\ Len(t) - (k - 1) = Len(s) - k /\ (k - 1 = Len(t) <=> k = Len(s))
          /\ (k - 1) + 1 = k
      BY <1>1, <2>7, <2>9, <3>2
    <3>5. k # Len(s) => t[k] = s[k + 1]
      <4>1. k # Len(s) => k \in 1..(Len(s) - 1) /\ ~(k < p)
        BY <1>1, <2>7, <3>2, <3>3
      <4> QED BY <2>9, <4>1
    <3>6. ASSUME NEW i \in 1..Len(iter.todo) PROVE iter.todo[i] = t[(k - 1) + i]
      <4>1. (k - 1) + i \in 1..(Len(s) - 1) /\ ~((k - 1) + i < p) /\ ((k - 1) + i) + 1 = k + i
        BY <1>1, <2>7, <3>1, <3>2, <3>3
      <4>2. t[(k - 1) + i] = s[((k - 1) + i) + 1]
        BY <2>9, <4>1
      <4> QED BY <3>1, <4>1, <4>2
    <3>7. HeadCursor(t, k - 1)'
      BY <2>2, <3>1, <3>4, <3>5, <3>6 DEF HeadCursor
    <3>8. Cursor(t)'
      BY <3>4, <3>7 DEF Cursor
    <3> QED BY <1>3, <2>2, <2>3, <3>8 DEF IterOK
  <2>11. CASE TailCursor(s, k)
    <3>1. /\ k # Len(s) /\ s[k + 1] = s[p] /\ iter.dir = "tail" /\ Len(iter.todo) = k
          /\ \A i \in 1..Len(iter.todo) : iter.todo[i] = s[(k - i) + 1]
          /\ iter.at = IF k = 0 THEN NULL ELSE s[k]
      BY <2>1, <2>4, <2>11 DEF TailCursor
    <3>2. k + 1 \in 1..Len(s)
      BY <1>1, <2>7, <3>1
    <3>3. k + 1 = p
      BY <1>p, <2>5, <3>1, <3>2
    <3>4. k \in 0..Len(t)
      BY <1>1, <2>7, <2>9, <3>2
    <3>5. ASSUME NEW i \in 1..k PROVE t[i] = s[i]
      <4>1. i \in 1..(Len(s) - 1) /\ i < p
        BY <1>1, <2>7, <3>2, <3>3
      <4> QED BY <2>9, <4>1
    <3>6. k # 0 => k \in 1..k
      BY <2>7
    <3>7. ASSUME NEW i \in 1..Len(iter.todo) PROVE iter.todo[i] = t[(k - i) + 1]
      <4>1. (k - i) + 1 \in 1..k
        BY <2>7, <3>1
      <4> QED BY <3>1, <3>5, <4>1
    <3>8. TailCursor(t, k)'
      BY <2>2, <3>1, <3>5, <3>6, <3>7 DEF TailCursor
    <3>9. Cursor(t)'
      BY <3>4, <3>8 DEF Cursor
    <3> QED BY <1>3, <2>2, <2>3, <3>9 DEF IterOK
  <2> QED BY <2>6, <2>10, <2>11
<1> QED BY <1>4, <1>5, <1>6

-----------------------------------------------------------------------------
(* The invariant is inductive *)

\* A step that changes no list an iterator is reading.
LEMMA OtherList ==
    ASSUME IterTypes, NEW c, IterOK(c), NEW d, iter' = iter, Types', Linked(d)',
           iter.list \in Lists => d[iter.list] = c[iter.list]
    PROVE  ListInv'
<1>1. IterTypes' /\ IterOK(d)'
  BY IterKept
<1> QED BY <1>1 DEF ListInv

\* All lists are empty at first.
LEMMA InitInv ==
    Init => ListInv
<1> SUFFICES ASSUME Init, NEW c, c = [l \in Lists |-> << >>] PROVE ListInv
  OBVIOUS
<1>1. \A l \in Lists : c[l] = << >> /\ Len(c[l]) = 0
  BY EmptyFacts
<1>2. c \in [Lists -> Seq(Nodes)]
  BY EmptyFacts
<1>3. Types
  BY DEF Init, Types, Cell
<1>4. IterTypes /\ IterOK(c)
  <2>1. iter = NoIter /\ << >> \in Seq(Nodes) /\ NULL \in Cell
    BY EmptyFacts DEF Init, Cell
  <2> QED BY <2>1 DEF IterTypes, IterOK, NoIter
<1>5. \A l \in Lists : Chain(l, c[l])
  BY <1>1 DEF Init, Chain, First, Final
<1>6. Apart(c) /\ Allocated(c)
  BY <1>1 DEF Init, Apart, Allocated
<1>7. Linked(c)
  BY <1>2, <1>5, <1>6 DEF Linked
<1> QED BY <1>3, <1>4, <1>7 DEF ListInv

\* An insertion keeps the invariant.
LEMMA AddsInv ==
    ASSUME Types, IterTypes, NEW c, Linked(c), IterOK(c), NEW l \in Lists, Free(l),
           NEW n \in Nodes \ alloc, NEW p \in 1..(Len(c[l]) + 1), NEW v, Adds(c, l, p, n, v)
    PROVE  ListInv'
<1> DEFINE d == [c EXCEPT ![l] = Put(c[l], p, n)]
<1>1. Types' /\ Linked(d)'
  BY AddsKeep
<1>2. iter' = iter /\ iter.list # l
  BY DEF Adds, Free
<1>3. iter.list \in Lists => d[iter.list] = c[iter.list]
  BY <1>2 DEF Linked
<1> HIDE DEF d
<1> QED BY <1>1, <1>2, <1>3, OtherList

\* Iterating changes no list.
LEMMA SameNodes ==
    ASSUME Types, NEW c, Linked(c), UNCHANGED <<listVars, nodeVars>>
    PROVE  Types' /\ Linked(c)'
BY DEF listVars, nodeVars, Types, Linked, Chain, Apart, Allocated

\* Every step keeps the invariant, one case per operation of list.c.
LEMMA NextInv ==
    ASSUME ~JoinEmpty, ListInv, [Next]_vars
    PROVE  ListInv'
<1>1. Types /\ IterTypes
  BY DEF ListInv
<1>2. PICK c : Linked(c) /\ IterOK(c)
  BY DEF ListInv
<1>3. \A l \in Lists : c[l] \in Seq(Nodes) /\ Len(c[l]) \in Nat
  BY <1>2, NodeFacts
<1>4. ASSUME NEW l \in Lists, NEW v \in Values, listAddNodeHead(l, v)
      PROVE  ListInv'
  <2>1. PICK n \in Nodes \ alloc : Adds(c, l, 1, n, v)
    BY <1>1, <1>2, <1>4, AddHeadInserts
  <2>2. 1 \in 1..(Len(c[l]) + 1) /\ Free(l)
    BY <1>3, <1>4 DEF listAddNodeHead
  <2> QED BY <1>1, <1>2, <2>1, <2>2, AddsInv
<1>5. ASSUME NEW l \in Lists, NEW v \in Values, listAddNodeTail(l, v)
      PROVE  ListInv'
  <2>1. PICK n \in Nodes \ alloc : Adds(c, l, Len(c[l]) + 1, n, v)
    BY <1>1, <1>2, <1>5, AddTailInserts
  <2>2. Len(c[l]) + 1 \in 1..(Len(c[l]) + 1) /\ Free(l)
    BY <1>3, <1>5 DEF listAddNodeTail
  <2> QED BY <1>1, <1>2, <2>1, <2>2, AddsInv
<1>6. ASSUME NEW l \in Lists, NEW m \in ToSet(Forward(l)), NEW v \in Values,
             NEW after \in BOOLEAN, listInsertNode(l, m, v, after)
      PROVE  ListInv'
  <2>1. PICK i \in 1..Len(c[l]) : m = c[l][i]
    BY <1>2, MemberPosition
  <2>2. PICK n \in Nodes \ alloc : Adds(c, l, IF after THEN i + 1 ELSE i, n, v)
    BY <1>1, <1>2, <1>6, <2>1, InsertNodeInserts
  <2>3. (IF after THEN i + 1 ELSE i) \in 1..(Len(c[l]) + 1)
    BY <1>3
  <2>4. Free(l)
    BY <1>6 DEF listInsertNode
  <2> QED BY <1>1, <1>2, <2>2, <2>3, <2>4, AddsInv
<1>7. ASSUME NEW l \in Lists, NEW n \in ToSet(Forward(l)), listDelNode(l, n)
      PROVE  ListInv'
  <2>1. PICK p \in 1..Len(c[l]) : n = c[l][p]
    BY <1>2, MemberPosition
  <2>2. Types' /\ Linked([c EXCEPT ![l] = Cut(c[l], p)])'
    BY <1>1, <1>2, <1>7, <2>1, DelNodeKeeps
  <2>3. IterTypes' /\ IterOK([c EXCEPT ![l] = Cut(c[l], p)])'
    BY <1>1, <1>2, <1>7, <2>1, DelNodeIter
  <2> QED BY <2>2, <2>3 DEF ListInv
<1>8. ASSUME NEW l \in Lists, listEmpty(l)
      PROVE  ListInv'
  <2> DEFINE d == [c EXCEPT ![l] = << >>]
  <2>1. Types' /\ Linked(d)'
    BY <1>1, <1>2, <1>8, EmptyKeeps
  <2>2. iter' = iter /\ (iter.list \in Lists => d[iter.list] = c[iter.list])
    BY <1>2, <1>8 DEF listEmpty, Free, Linked
  <2> HIDE DEF d
  <2> QED BY <1>1, <1>2, <2>1, <2>2, OtherList
<1>9. ASSUME NEW l \in Lists, listRotate(l)
      PROVE  ListInv'
  <2> DEFINE d == [c EXCEPT ![l] = Turn(c[l])]
  <2>1. Types' /\ Linked(d)'
    BY <1>1, <1>2, <1>9, RotateKeeps
  <2>2. iter' = iter /\ (iter.list \in Lists => d[iter.list] = c[iter.list])
    BY <1>2, <1>9 DEF listRotate, Free, Linked
  <2> HIDE DEF d
  <2> QED BY <1>1, <1>2, <2>1, <2>2, OtherList
<1>10. ASSUME NEW l \in Lists, NEW o \in Lists, listJoin(l, o)
       PROVE  ListInv'
  <2> DEFINE d == Joined(c, l, o)
  <2>1. Types' /\ Linked(d)'
    BY <1>1, <1>2, <1>10, JoinKeeps
  <2>2. iter' = iter /\ (iter.list \in Lists => d[iter.list] = c[iter.list])
    BY <1>10 DEF listJoin, Free, Joined
  <2> HIDE DEF d
  <2> QED BY <1>1, <1>2, <2>1, <2>2, OtherList
<1>11. ASSUME NEW l \in Lists, NEW o \in Lists, listDup(l, o)
       PROVE  ListInv'
  <2>1. Len(c[l]) \in Nat \ {0} /\ Len(c[o]) = 0 /\ iter' = iter
    BY <1>1, <1>2, <1>11, DupCopies
  <2>2. PICK copy \in [1..Len(c[l]) -> Nodes \ alloc] :
          /\ \A i, j \in 1..Len(c[l]) : copy[i] = copy[j] => i = j
          /\ Copies(o, Len(c[l]), copy)
    BY <1>1, <1>2, <1>11, DupCopies
  <2> DEFINE d == [c EXCEPT ![o] = copy]
  <2>3. Types' /\ Linked(d)'
    BY <1>1, <1>2, <2>1, <2>2, CopyStep
  <2>4. iter.list \in Lists => d[iter.list] = c[iter.list]
    BY <1>2, <1>11 DEF listDup, Free, Linked
  <2> HIDE DEF d
  <2> QED BY <1>1, <1>2, <2>1, <2>3, <2>4, OtherList
<1>12. ASSUME NEW l \in Lists, NEW dir \in {"head", "tail"}, listRewind(l, dir)
       PROVE  ListInv'
  <2>1. Types' /\ Linked(c)'
    BY <1>1, <1>2, <1>12, SameNodes DEF listRewind
  <2>2. IterTypes' /\ IterOK(c)'
    BY <1>1, <1>2, <1>12, RewindIter
  <2> QED BY <2>1, <2>2 DEF ListInv
<1>13. CASE listNext
  <2>1. Types' /\ Linked(c)'
    BY <1>1, <1>2, <1>13, SameNodes DEF listNext
  <2>2. IterTypes' /\ IterOK(c)'
    BY <1>1, <1>2, <1>13, NextIter
  <2> QED BY <2>1, <2>2 DEF ListInv
<1>14. CASE UNCHANGED vars
  <2>1. Types' /\ Linked(c)'
    BY <1>1, <1>2, <1>14, SameNodes DEF vars
  <2>2. IterTypes' /\ IterOK(c)'
    BY <1>1, <1>2, <1>14, IterKept DEF vars
  <2> QED BY <2>1, <2>2 DEF ListInv
<1> QED BY <1>4, <1>5, <1>6, <1>7, <1>8, <1>9, <1>10, <1>11, <1>12, <1>13, <1>14 DEF Next

\* There always are sequences of nodes, disjoint and together the allocated nodes,
\* that the head, tail, len, next and prev fields of the lists spell out both ways,
\* and an iterator stands between two nodes of its list.  listJoin with an empty
\* second list is excluded: list.c sets the tail of the first to NULL then.
THEOREM ListInductive ==
    ASSUME ~JoinEmpty
    PROVE  Spec => []ListInv
<1>1. Init => ListInv
  BY InitInv
<1>2. ListInv /\ [Next]_vars => ListInv'
  BY NextInv
<1> QED BY <1>1, <1>2, PTL DEF Spec

\* Lists read the same from both ends and have len nodes, they share none, and the
\* allocated nodes are those on a list: no operation of list.c leaks or dangles.
THEOREM ListWellFormed ==
    ASSUME ~JoinEmpty
    PROVE  Spec => []WellFormed
<1>1. ListInv => WellFormed
  BY LinkedWellFormed DEF ListInv
<1> QED BY <1>1, ListInductive, PTL

-----------------------------------------------------------------------------
(* Lookups *)

\* listIndex counts from the head, or from the tail for negative indexes.
LEMMA IndexRead ==
    ASSUME NEW c, Linked(c), NEW l \in Lists, NEW i \in Int
    PROVE  LET p == IF i < 0 THEN Len(c[l]) + i + 1 ELSE i + 1
           IN  listIndex(l, i) = IF p \in 1..Len(c[l]) THEN c[l][p] ELSE NULL
<1>0. SUFFICES ASSUME NEW s, s = c[l], NEW p, p = IF i < 0 THEN Len(s) + i + 1 ELSE i + 1
               PROVE  listIndex(l, i) = IF p \in 1..Len(s) THEN s[p] ELSE NULL
  OBVIOUS
<1>1. /\ s \in Seq(Nodes) /\ Path(next, head[l], s) /\ Path(prev, tail[l], Reverse(s))
  BY <1>0, ListRead DEF Linked
<1>2. /\ Len(s) \in Nat /\ Len(Reverse(s)) = Len(s)
      /\ \A k \in 1..Len(s) : Reverse(s)[k] = s[(Len(s) - k) + 1]
  BY <1>1, SeqFacts, ReverseFacts
<1>m. Len(s) \in Nat
  BY <1>2
<1>3. CASE i < 0
  <2>1. FromTail(i) \in Nat /\ FromTail(i) + 1 = -i
    BY <1>3 DEF FromTail
  <2>2. listIndex(l, i) = IF FromTail(i) < Len(s) THEN Reverse(s)[-i] ELSE NULL
    BY <1>1, <1>2, <1>3, <2>1, StepsOnPath DEF listIndex
  <2>3. p = Len(s) + i + 1
    BY <1>0, <1>3
  <2>4. /\ (FromTail(i) < Len(s) <=> p \in 1..Len(s))
        /\ (FromTail(i) < Len(s) => -i \in 1..Len(s) /\ (Len(s) - (-i)) + 1 = p)
    BY <1>m, <1>3, <2>3 DEF FromTail
  <2>5. CASE p \in 1..Len(s)
    <3>1. Reverse(s)[-i] = s[p]
      BY <1>2, <2>4, <2>5
    <3> QED BY <2>2, <2>4, <2>5, <3>1
  <2>6. CASE p \notin 1..Len(s)
    BY <2>2, <2>4, <2>6
  <2> QED BY <2>5, <2>6
<1>4. CASE ~(i < 0)
  <2>1. i \in Nat
    BY <1>4
  <2>2. listIndex(l, i) = IF i < Len(s) THEN s[i + 1] ELSE NULL
    BY <1>1, <1>4, <2>1, StepsOnPath DEF listIndex
  <2>3. p = i + 1
    BY <1>0, <1>4
  <2>4. i < Len(s) <=> p \in 1..Len(s)
    BY <1>m, <2>1, <2>3
  <2> QED BY <2>2, <2>3, <2>4
<1> QED BY <1>3, <1>4

\* Position f of s is the first with the value key; f is 0 when there is none.
FirstMatch(s, key, f) ==
    /\ f \in 0..Len(s)
    /\ f # 0 => value[s[f]] = key /\ \A i \in 1..(f - 1) : value[s[i]] # key
    /\ f = 0 => \A i \in 1..Len(s) : value[s[i]] # key

\* listSearchKey returns the first node with the value, or NULL.
LEMMA SearchRead ==
    ASSUME NEW c, Linked(c), NEW l \in Lists, NEW key, NEW f, FirstMatch(c[l], key, f)
    PROVE  listSearchKey(l, key) = IF f = 0 THEN NULL ELSE c[l][f]
<1>0. SUFFICES ASSUME NEW s, s = c[l]
               PROVE  listSearchKey(l, key) = IF f = 0 THEN NULL ELSE s[f]
  OBVIOUS
<1>1. /\ s \in Seq(Nodes) /\ Distinct(s) /\ head[l] = First(s)
      /\ \A i \in 1..Len(s) : s[i] \in Nodes /\ next[s[i]] = After(s, i)
  BY <1>0, NodeFacts, ListRead
<1> DEFINE N == Cardinality(Nodes)
<1>2. N \in Nat /\ Len(s) \in Nat /\ Len(s) <= N
  BY <1>1, PathBound, SeqFacts
<1>3. /\ f \in 0..Len(s) /\ (f # 0 => value[s[f]] = key)
      /\ f # 0 => \A i \in 1..(f - 1) : value[s[i]] # key
      /\ f = 0 => \A i \in 1..Len(s) : value[s[i]] # key
  BY <1>0 DEF FirstMatch
<1>m. f \in Nat /\ f <= Len(s)
  BY <1>2, <1>3
<1> DEFINE g == [k \in 0..N |-> IF f # 0 /\ k >= f THEN s[f]
                                ELSE IF k < Len(s) THEN s[k + 1] ELSE NULL]
           Step(at) == [k \in 0..N |-> IF k = 0 THEN head[l]
                                       ELSE IF at[k - 1] = NULL \/ value[at[k - 1]] = key
                                            THEN at[k - 1]
                                            ELSE next[at[k - 1]]]
<1> HIDE DEF N
<1>4. g = Step(g)
  <2>1. ASSUME NEW k \in 0..N PROVE g[k] = Step(g)[k]
    <3>n. k \in Nat
      OBVIOUS
    <3>1. CASE k = 0
      <4>1. g[0] = IF 0 < Len(s) THEN s[1] ELSE NULL
        BY <1>2, <1>m
      <4>2. g[0] = head[l]
        BY <4>1, <1>1, <1>2 DEF First
      <4> QED BY <3>1, <4>2
    <3>2. CASE k # 0
      <4>1. k - 1 \in 0..N /\ (k - 1) + 1 = k
        BY <1>2, <3>2
      <4>2. Step(g)[k] = IF g[k - 1] = NULL \/ value[g[k - 1]] = key THEN g[k - 1]
                                                                    ELSE next[g[k - 1]]
        BY <3>2
      <4>3. /\ g[k - 1] = IF f # 0 /\ k - 1 >= f THEN s[f]
                          ELSE IF k - 1 < Len(s) THEN s[k] ELSE NULL
            /\ g[k] = IF f # 0 /\ k >= f THEN s[f]
                      ELSE IF k < Len(s) THEN s[k + 1] ELSE NULL
        BY <4>1
      <4> HIDE DEF g, Step
      <4>4. CASE f # 0 /\ k - 1 >= f
        <5>1. k >= f
          BY <4>4, <3>n, <1>m
        <5> QED BY <4>2, <4>3, <4>4, <5>1, <1>3
      <4>5. CASE f # 0 /\ k = f
        <5>1. ~(k - 1 >= f) /\ k - 1 < Len(s) /\ k >= f
          BY <4>5, <3>n, <1>m, <1>2
        <5> QED BY <4>2, <4>3, <4>5, <5>1, <1>3
      <4>6. CASE f # 0 /\ k < f
        <5>1. ~(k - 1 >= f) /\ k - 1 < Len(s) /\ ~(k >= f) /\ k < Len(s)
              /\ k \in 1..(f - 1) /\ k \in 1..Len(s) /\ k # Len(s)
          BY <4>6, <3>n, <3>2, <1>m, <1>2
        <5>2. g[k - 1] = s[k] /\ g[k] = s[k + 1] /\ s[k] # NULL /\ value[s[k]] # key
          BY <4>3, <4>6, <5>1, <1>1, <1>3, ListConstants
        <5>3. next[s[k]] = s[k + 1]
          BY <5>1, <1>1 DEF After
        <5> QED BY <4>2, <5>2, <5>3
      <4>7. CASE f = 0 /\ k <= Len(s)
        <5>1. k - 1 < Len(s) /\ k \in 1..Len(s) /\ (k < Len(s) <=> k # Len(s))
          BY <4>7, <3>n, <3>2, <1>2
        <5>2. g[k - 1] = s[k] /\ s[k] # NULL /\ value[s[k]] # key
          BY <4>3, <4>7, <5>1, <1>1, <1>3, ListConstants
        <5>3. next[s[k]] = g[k]
          BY <4>3, <4>7, <5>1, <1>1 DEF After
        <5> QED BY <4>2, <5>2, <5>3
      <4>8. CASE f = 0 /\ ~(k <= Len(s))
        <5>1. ~(k - 1 < Len(s)) /\ ~(k < Len(s))
          BY <4>8, <3>n, <1>2
        <5> QED BY <4>2, <4>3, <4>8, <5>1
      <4>9. (k - 1 >= f) \/ k = f \/ k < f
        BY <3>n, <1>m
      <4> QED BY <4>4, <4>5, <4>6, <4>7, <4>8, <4>9
    <3> QED BY <3>1, <3>2
  <2> QED BY <2>1
<1>5. ASSUME NEW at, at = Step(at) PROVE at = g
  <2> DEFINE P == {k \in Nat : k <= N => at[k] = g[k]}
  <2>1. 0 \in P
    <3>1. Step(at)[0] = head[l] /\ Step(g)[0] = head[l]
      BY <1>2
    <3> HIDE DEF Step, g
    <3>2. at[0] = g[0]
      BY <3>1, <1>4, <1>5
    <3> QED BY <3>2
  <2>2. ASSUME NEW k \in Nat, k \in P PROVE k + 1 \in P
    <3> SUFFICES ASSUME k + 1 <= N PROVE at[k + 1] = g[k + 1]
      OBVIOUS
    <3>1. k \in 0..N /\ k + 1 \in 0..N /\ k + 1 # 0 /\ (k + 1) - 1 = k
      BY <1>2
    <3>2. at[k] = g[k]
      BY <2>2, <3>1
    <3> HIDE DEF g
    <3>3. Step(at)[k + 1] = Step(g)[k + 1]
      BY <3>1, <3>2
    <3> HIDE DEF Step
    <3> QED BY <3>3, <1>4, <1>5
  <2> HIDE DEF P, g, Step
  <2>3. \A k \in Nat : k \in P
    BY <2>1, <2>2, InductiveSet
  <2>4. \A k \in 0..N : at[k] = g[k]
    BY <2>3 DEF P
  <2>5. at = [k \in 0..N |-> at[k]]
    <3>1. Step(at) = [k \in 0..N |-> Step(at)[k]]
      BY DEF Step
    <3> QED BY <3>1, <1>5
  <2>6. g = [k \in 0..N |-> g[k]]
    BY DEF g
  <2> QED BY <2>4, <2>5, <2>6
<1> HIDE DEF g
<1>6. (CHOOSE at : at = Step(at)) = g
  BY <1>4, <1>5
<1>7. listSearchKey(l, key) = (CHOOSE at : at = Step(at))[N]
  BY DEF listSearchKey, N
<1>8. g[N] = IF f = 0 THEN NULL ELSE s[f]
  <2>1. N \in 0..N /\ N >= f /\ ~(N < Len(s))
    BY <1>2, <1>m
  <2> QED BY <2>1 DEF g
<1> HIDE DEF Step
<1> QED BY <1>6, <1>7, <1>8

\* What SelectInSeq computes in TraversalsAgree.
FirstAt(s, key) ==
    LET I == {i \in 1..Len(s) : value[s[i]] = key}
    IN  IF I # {} THEN Min(I) ELSE 0

\* The least position with the value is the first match.
LEMMA FirstMatchFound ==
    ASSUME NEW s \in Seq(Nodes), NEW key
    PROVE  FirstMatch(s, key, FirstAt(s, key))
<1> DEFINE I == {i \in 1..Len(s) : value[s[i]] = key}
<1>1. FirstAt(s, key) = IF I # {} THEN Min(I) ELSE 0
  BY DEF FirstAt
<1>2. Len(s) \in Nat
  BY SeqFacts
<1>3. CASE I = {}
  BY <1>1, <1>2, <1>3 DEF FirstMatch
<1>4. CASE I # {}
  <2>1. I \in SUBSET Nat
    BY <1>2
  <2>2. \E n \in I : \A m \in I : n <= m
    <3> HIDE DEF I
    <3> QED BY <1>4, <2>1, LeastNatural
  <2>3. Min(I) \in I /\ \A m \in I : Min(I) <= m
    BY <2>2 DEF Min
  <2> DEFINE f == Min(I)
  <2>4. f \in 1..Len(s) /\ value[s[f]] = key
    BY <2>3
  <2>5. ASSUME NEW i \in 1..(f - 1) PROVE value[s[i]] # key
    <3>1. i \in 1..Len(s) /\ ~(f <= i)
      BY <2>4, <1>2
    <3>2. i \notin I
      BY <2>3, <3>1
    <3> QED BY <3>1, <3>2
  <2>6. f \in 0..Len(s) /\ f # 0
    BY <2>4, <1>2
  <2>7. FirstAt(s, key) = f
    BY <1>1, <1>4
  <2> HIDE DEF f
  <2> QED BY <2>4, <2>5, <2>6, <2>7 DEF FirstMatch
<1> QED BY <1>3, <1>4

\* What an iterator returns next is the first of what it must still return.
LEMMA IterAgrees ==
    ASSUME IterTypes, NEW c, Linked(c), IterOK(c), iter.list # NULL
    PROVE  iter.at = IF iter.todo = << >> THEN NULL ELSE Head(iter.todo)
<1>1. iter.list \in Lists
  BY DEF IterTypes
<1>2. PICK s : s = c[iter.list]
  OBVIOUS
<1>3. PICK k \in 0..Len(s) : HeadCursor(s, k) \/ TailCursor(s, k)
  BY <1>1, <1>2 DEF IterOK, Cursor
<1>4. /\ Len(s) \in Nat /\ k \in Nat /\ iter.todo \in Seq(Nodes) /\ Len(iter.todo) \in Nat
      /\ (iter.todo = << >> <=> Len(iter.todo) = 0)
  BY <1>1, <1>2, SeqFacts DEF Linked, IterTypes
<1>5. Len(iter.todo) # 0 => Head(iter.todo) = iter.todo[1]
  BY <1>4, TailFacts
<1>6. CASE HeadCursor(s, k)
  <2>1. Len(iter.todo) = Len(s) - k
    BY <1>6 DEF HeadCursor
  <2>2. /\ (Len(iter.todo) = 0 <=> k = Len(s))
        /\ (Len(iter.todo) # 0 => 1 \in 1..Len(iter.todo))
    BY <1>4, <2>1
  <2>3. Len(iter.todo) # 0 => iter.todo[1] = s[k + 1]
    BY <1>6, <2>2 DEF HeadCursor
  <2>4. iter.at = IF k = Len(s) THEN NULL ELSE s[k + 1]
    BY <1>6 DEF HeadCursor
  <2> QED BY <1>4, <1>5, <2>2, <2>3, <2>4
<1>7. CASE TailCursor(s, k)
  <2>1. Len(iter.todo) = k
    BY <1>7 DEF TailCursor
  <2>2. Len(iter.todo) # 0 => 1 \in 1..Len(iter.todo) /\ (k - 1) + 1 = k
    BY <1>4, <2>1
  <2>3. Len(iter.todo) # 0 => iter.todo[1] = s[k]
    BY <1>7, <2>2 DEF TailCursor
  <2>4. iter.at = IF k = 0 THEN NULL ELSE s[k]
    BY <1>7 DEF TailCursor
  <2> QED BY <1>4, <1>5, <2>1, <2>3, <2>4
<1> QED BY <1>3, <1>6, <1>7

\* The invariant makes iterators and lookups agree with the list.
LEMMA ListAgrees ==
    ListInv => TraversalsAgree
<1>0. SUFFICES ASSUME ListInv PROVE TraversalsAgree
  OBVIOUS
<1>1. Types /\ IterTypes
  BY <1>0 DEF ListInv
<1>2. PICK c : Linked(c) /\ IterOK(c)
  BY <1>0 DEF ListInv
<1>3. iter.list # NULL => iter.at = IF iter.todo = << >> THEN NULL ELSE Head(iter.todo)
  BY <1>1, <1>2, IterAgrees
<1>4. \A l \in Lists : Forward(l) = c[l] /\ c[l] \in Seq(Nodes)
  BY <1>2, ListRead DEF Linked
<1>5. Cardinality(Nodes) \in Nat
  BY FS_CardinalityType, ListConstants
<1>6. ASSUME NEW l \in Lists, NEW i \in -(Cardinality(Nodes) + 1)..Cardinality(Nodes)
      PROVE  LET p == IF i < 0 THEN Len(Forward(l)) + i + 1 ELSE i + 1
             IN  listIndex(l, i) = IF p \in 1..Len(Forward(l)) THEN Forward(l)[p] ELSE NULL
  <2>1. i \in Int
    BY <1>5
  <2> QED BY <1>2, <1>4, <2>1, IndexRead
<1>7. ASSUME NEW l \in Lists, NEW v \in Values
      PROVE  listSearchKey(l, v) = IF FirstAt(Forward(l), v) = 0 THEN NULL
                                   ELSE Forward(l)[FirstAt(Forward(l), v)]
  <2>1. FirstMatch(c[l], v, FirstAt(c[l], v))
    <3>1. c[l] \in Seq(Nodes)
      BY <1>4
    <3> QED BY <3>1, FirstMatchFound
  <2>2. listSearchKey(l, v) = IF FirstAt(c[l], v) = 0 THEN NULL ELSE c[l][FirstAt(c[l], v)]
    <3>1. PICK f : f = FirstAt(c[l], v)
      OBVIOUS
    <3>2. FirstMatch(c[l], v, f)
      BY <2>1, <3>1
    <3>3. listSearchKey(l, v) = IF f = 0 THEN NULL ELSE c[l][f]
      <4>1. Linked(c)
        BY <1>2
      <4> QED BY <3>2, <4>1, SearchRead, SMTT(60)
    <3> QED BY <3>1, <3>3
  <2> QED BY <1>4, <2>2
<1>8. ASSUME NEW l \in Lists, NEW v \in Values
      PROVE  SelectInSeq(Forward(l), LAMBDA n : value[n] = v) = FirstAt(Forward(l), v)
  BY DEF SelectInSeq, FirstAt
<1> QED BY <1>3, <1>6, <1>7, <1>8 DEF TraversalsAgree, SelectInSeq, FirstAt

\* The iterator and the lookups see the list as it is read from its head.
THEOREM ListTraversals ==
    ASSUME ~JoinEmpty
    PROVE  Spec => []TraversalsAgree
BY ListAgrees, ListInductive, PTL

-----------------------------------------------------------------------------
(* The contents: sequences of values *)

\* Two sequences that agree on every position are the same.
LEMMA SameSeq ==
    ASSUME NEW S, NEW s \in Seq(S), NEW r, NEW n \in Nat, Len(s) = n,
           r = [i \in 1..n |-> r[i]], \A i \in 1..n : s[i] = r[i]
    PROVE  s = r
<1>1. s = [i \in 1..n |-> s[i]]
  BY LenProperties
<1> QED BY <1>1

\* InsertAt puts v at position p.
LEMMA InsertAtIsPut ==
    ASSUME NEW S, NEW s \in Seq(S), NEW v \in S, NEW p \in 1..(Len(s) + 1)
    PROVE  InsertAt(s, p, v) = Put(s, p, v)
<1> DEFINE a == SubSeq(s, 1, p - 1)
           b == SubSeq(s, p, Len(s))
           e == <<v>>
           m == Len(s)
<1>1. m \in Nat /\ \A i \in 1..m : s[i] \in S
  BY LenProperties, ElementOfSeq
<1>2. p \in Nat /\ p - 1 \in Nat /\ p - 1 \in Int /\ p \in Int /\ m \in Int
      /\ 1 <= p /\ p - 1 <= m
  BY <1>1
<1>3. a \in Seq(S) /\ Len(a) = p - 1 /\ \A i \in 1..(p - 1) : a[i] = s[i]
  <2>1. \A i \in 1..(p - 1) : s[i] \in S
    BY <1>1, <1>2
  <2>2. /\ a \in Seq(S) /\ Len(a) = IF 1 <= p - 1 THEN (p - 1) - 1 + 1 ELSE 0
        /\ \A i \in 1..((p - 1) - 1 + 1) : a[i] = s[1 + i - 1]
    BY <1>2, <2>1, SubSeqProperties
  <2>3. Len(a) = p - 1
    BY <1>2, <2>2
  <2>4. ASSUME NEW i \in 1..(p - 1) PROVE a[i] = s[i]
    <3>1. i \in 1..((p - 1) - 1 + 1) /\ 1 + i - 1 = i
      BY <1>2
    <3> QED BY <2>2, <3>1
  <2> QED BY <2>2, <2>3, <2>4
<1>4. b \in Seq(S) /\ Len(b) = m - (p - 1) /\ \A i \in 1..(m - (p - 1)) : b[i] = s[(p - 1) + i]
  <2>1. \A i \in p..m : s[i] \in S
    BY <1>1, <1>2
  <2>2. /\ b \in Seq(S) /\ Len(b) = IF p <= m THEN m - p + 1 ELSE 0
        /\ \A i \in 1..(m - p + 1) : b[i] = s[p + i - 1]
    BY <1>2, <2>1, SubSeqProperties
  <2>3. Len(b) = m - (p - 1)
    BY <1>1, <1>2, <2>2
  <2>4. ASSUME NEW i \in 1..(m - (p - 1)) PROVE b[i] = s[(p - 1) + i]
    <3>1. i \in 1..(m - p + 1) /\ p + i - 1 = (p - 1) + i
      BY <1>1, <1>2
    <3> QED BY <2>2, <3>1
  <2> QED BY <2>2, <2>3, <2>4
<1>5. e \in Seq(S) /\ Len(e) = 1 /\ e[1] = v
  OBVIOUS
<1>6. InsertAt(s, p, v) = (a \o e) \o b
  BY DEF InsertAt
<1> HIDE DEF a, b, e
<1>7. /\ a \o e \in Seq(S) /\ Len(a \o e) = p
      /\ \A i \in 1..p : (a \o e)[i] = IF i <= p - 1 THEN s[i] ELSE v
  <2>1. /\ a \o e \in Seq(S) /\ Len(a \o e) = Len(a) + Len(e)
        /\ \A i \in 1..(Len(a) + Len(e)) :
             (a \o e)[i] = IF i <= Len(a) THEN a[i] ELSE e[i - Len(a)]
    BY <1>3, <1>5, ConcatProperties
  <2>2. Len(a) + Len(e) = p
    BY <1>2, <1>3, <1>5
  <2>3. ASSUME NEW i \in 1..p PROVE (a \o e)[i] = IF i <= p - 1 THEN s[i] ELSE v
    <3>1. (a \o e)[i] = IF i <= p - 1 THEN a[i] ELSE e[i - (p - 1)]
      BY <1>3, <2>1, <2>2
    <3>2. (i <= p - 1 => i \in 1..(p - 1)) /\ (~(i <= p - 1) => i - (p - 1) = 1)
      BY <1>2
    <3> QED BY <1>3, <1>5, <3>1, <3>2
  <2> QED BY <2>1, <2>2, <2>3
<1>8. /\ (a \o e) \o b \in Seq(S) /\ Len((a \o e) \o b) = m + 1
      /\ \A i \in 1..(m + 1) :
           ((a \o e) \o b)[i] = IF i < p THEN s[i] ELSE IF i = p THEN v ELSE s[i - 1]
  <2> DEFINE t == a \o e
  <2>1. t \in Seq(S) /\ Len(t) = p /\ \A i \in 1..p : t[i] = IF i <= p - 1 THEN s[i] ELSE v
    BY <1>7
  <2> HIDE DEF t
  <2>2. /\ t \o b \in Seq(S) /\ Len(t \o b) = Len(t) + Len(b)
        /\ \A i \in 1..(Len(t) + Len(b)) :
             (t \o b)[i] = IF i <= Len(t) THEN t[i] ELSE b[i - Len(t)]
    BY <2>1, <1>4, ConcatProperties
  <2>3. Len(t) + Len(b) = m + 1
    BY <1>1, <1>2, <1>4, <2>1
  <2>4. ASSUME NEW i \in 1..(m + 1)
        PROVE  (t \o b)[i] = IF i < p THEN s[i] ELSE IF i = p THEN v ELSE s[i - 1]
    <3>1. (t \o b)[i] = IF i <= p THEN t[i] ELSE b[i - p]
      BY <2>1, <2>2, <2>3
    <3>2. /\ (i < p <=> i <= p - 1) /\ (i <= p <=> i < p \/ i = p) /\ (i <= p => i \in 1..p)
          /\ (~(i <= p) => i - p \in 1..(m - (p - 1)) /\ (p - 1) + (i - p) = i - 1)
      BY <1>1, <1>2
    <3>3. CASE i <= p
      <4>1. t[i] = IF i <= p - 1 THEN s[i] ELSE v
        BY <2>1, <3>2, <3>3
      <4> QED BY <3>1, <3>2, <3>3, <4>1
    <3>4. CASE ~(i <= p)
      <4>1. b[i - p] = s[i - 1]
        BY <1>4, <3>2, <3>4
      <4> QED BY <3>1, <3>2, <3>4, <4>1
    <3> QED BY <3>3, <3>4
  <2> QED BY <2>2, <2>3, <2>4 DEF t
<1>9. m + 1 \in Nat
  BY <1>1
<1> DEFINE r == Put(s, p, v)
<1>10. r = [i \in 1..(m + 1) |-> r[i]]
       /\ \A i \in 1..(m + 1) : r[i] = IF i < p THEN s[i] ELSE IF i = p THEN v ELSE s[i - 1]
  BY DEF Put
<1> HIDE DEF r, m
<1>11. (a \o e) \o b = r
  <2> DEFINE t == (a \o e) \o b
  <2>1. t \in Seq(S) /\ Len(t) = m + 1 /\ \A i \in 1..(m + 1) : t[i] = r[i]
    BY <1>8, <1>10
  <2> HIDE DEF t
  <2>2. t = r
    BY <1>9, <1>10, <2>1, SameSeq
  <2> QED BY <2>2 DEF t
<1> QED BY <1>6, <1>11 DEF r

\* RemoveAt takes out position p.
LEMMA RemoveAtIsCut ==
    ASSUME NEW S, NEW s \in Seq(S), NEW p \in 1..Len(s)
    PROVE  RemoveAt(s, p) = Cut(s, p)
<1> DEFINE a == SubSeq(s, 1, p - 1)
           b == SubSeq(s, p + 1, Len(s))
           m == Len(s)
<1>1. m \in Nat /\ \A i \in 1..m : s[i] \in S
  BY LenProperties, ElementOfSeq
<1>2. p \in Nat /\ p - 1 \in Int /\ p + 1 \in Int /\ m \in Int /\ 1 <= p /\ p <= m
  BY <1>1
<1>3. a \in Seq(S) /\ Len(a) = p - 1 /\ \A i \in 1..(p - 1) : a[i] = s[i]
  <2>1. \A i \in 1..(p - 1) : s[i] \in S
    BY <1>1, <1>2
  <2>2. /\ a \in Seq(S) /\ Len(a) = IF 1 <= p - 1 THEN (p - 1) - 1 + 1 ELSE 0
        /\ \A i \in 1..((p - 1) - 1 + 1) : a[i] = s[1 + i - 1]
    BY <1>2, <2>1, SubSeqProperties
  <2>3. Len(a) = p - 1
    BY <1>2, <2>2
  <2>4. ASSUME NEW i \in 1..(p - 1) PROVE a[i] = s[i]
    <3>1. i \in 1..((p - 1) - 1 + 1) /\ 1 + i - 1 = i
      BY <1>2
    <3> QED BY <2>2, <3>1
  <2> QED BY <2>2, <2>3, <2>4
<1>4. b \in Seq(S) /\ Len(b) = m - p /\ \A i \in 1..(m - p) : b[i] = s[p + i]
  <2>1. \A i \in (p + 1)..m : s[i] \in S
    BY <1>1, <1>2
  <2>2. /\ b \in Seq(S) /\ Len(b) = IF p + 1 <= m THEN m - (p + 1) + 1 ELSE 0
        /\ \A i \in 1..(m - (p + 1) + 1) : b[i] = s[(p + 1) + i - 1]
    BY <1>2, <2>1, SubSeqProperties
  <2>3. Len(b) = m - p
    BY <1>1, <1>2, <2>2
  <2>4. ASSUME NEW i \in 1..(m - p) PROVE b[i] = s[p + i]
    <3>1. i \in 1..(m - (p + 1) + 1) /\ (p + 1) + i - 1 = p + i
      BY <1>1, <1>2
    <3> QED BY <2>2, <3>1
  <2> QED BY <2>2, <2>3, <2>4
<1>5. RemoveAt(s, p) = a \o b
  BY DEF RemoveAt
<1> HIDE DEF a, b
<1>6. /\ a \o b \in Seq(S) /\ Len(a \o b) = m - 1
      /\ \A i \in 1..(m - 1) : (a \o b)[i] = IF i < p THEN s[i] ELSE s[i + 1]
  <2>1. /\ a \o b \in Seq(S) /\ Len(a \o b) = Len(a) + Len(b)
        /\ \A i \in 1..(Len(a) + Len(b)) :
             (a \o b)[i] = IF i <= Len(a) THEN a[i] ELSE b[i - Len(a)]
    BY <1>3, <1>4, ConcatProperties
  <2>2. Len(a) + Len(b) = m - 1
    BY <1>1, <1>2, <1>3, <1>4
  <2>3. ASSUME NEW i \in 1..(m - 1) PROVE (a \o b)[i] = IF i < p THEN s[i] ELSE s[i + 1]
    <3>1. (a \o b)[i] = IF i <= p - 1 THEN a[i] ELSE b[i - (p - 1)]
      BY <1>3, <2>1, <2>2
    <3>2. /\ (i < p <=> i <= p - 1) /\ (i <= p - 1 => i \in 1..(p - 1))
          /\ (~(i <= p - 1) => i - (p - 1) \in 1..(m - p) /\ p + (i - (p - 1)) = i + 1)
      BY <1>1, <1>2
    <3>3. CASE i <= p - 1
      BY <1>3, <3>1, <3>2, <3>3
    <3>4. CASE ~(i <= p - 1)
      <4>1. b[i - (p - 1)] = s[i + 1]
        BY <1>4, <3>2, <3>4
      <4> QED BY <3>1, <3>2, <3>4, <4>1
    <3> QED BY <3>3, <3>4
  <2> QED BY <2>1, <2>2, <2>3
<1>7. m - 1 \in Nat
  BY <1>1, <1>2
<1> DEFINE r == Cut(s, p)
<1>8. r = [i \in 1..(m - 1) |-> r[i]]
      /\ \A i \in 1..(m - 1) : r[i] = IF i < p THEN s[i] ELSE s[i + 1]
  BY DEF Cut
<1> HIDE DEF r, m
<1>9. a \o b = r
  <2> DEFINE t == a \o b
  <2>1. t \in Seq(S) /\ Len(t) = m - 1 /\ \A i \in 1..(m - 1) : t[i] = r[i]
    BY <1>6, <1>8
  <2> HIDE DEF t
  <2>2. t = r
    BY <1>7, <1>8, <2>1, SameSeq
  <2> QED BY <2>2 DEF t
<1> QED BY <1>5, <1>9 DEF r

\* The last element goes before the others.
LEMMA TurnIsRotation ==
    ASSUME NEW S, NEW s \in Seq(S), Len(s) > 1
    PROVE  <<Last(s)>> \o Front(s) = Turn(s)
<1> DEFINE a == Front(s)
           e == <<Last(s)>>
           m == Len(s)
<1>1. m \in Nat /\ m > 1 /\ \A i \in 1..m : s[i] \in S
  BY LenProperties, ElementOfSeq
<1>2. m - 1 \in Nat /\ m - 1 \in Int /\ m \in 1..m
  BY <1>1
<1>3. a \in Seq(S) /\ Len(a) = m - 1 /\ \A i \in 1..(m - 1) : a[i] = s[i]
  <2>1. \A i \in 1..(m - 1) : s[i] \in S
    BY <1>1, <1>2
  <2>2. /\ a \in Seq(S) /\ Len(a) = IF 1 <= m - 1 THEN (m - 1) - 1 + 1 ELSE 0
        /\ \A i \in 1..((m - 1) - 1 + 1) : a[i] = s[1 + i - 1]
    BY <1>2, <2>1, SubSeqProperties DEF Front
  <2>3. Len(a) = m - 1
    BY <1>1, <2>2
  <2>4. ASSUME NEW i \in 1..(m - 1) PROVE a[i] = s[i]
    <3>1. i \in 1..((m - 1) - 1 + 1) /\ 1 + i - 1 = i
      BY <1>1
    <3> QED BY <2>2, <3>1
  <2> QED BY <2>2, <2>3, <2>4
<1>4. e \in Seq(S) /\ Len(e) = 1 /\ e[1] = s[m]
  BY <1>1, <1>2 DEF Last
<1> HIDE DEF a, e
<1>5. /\ e \o a \in Seq(S) /\ Len(e \o a) = m
      /\ \A i \in 1..m : (e \o a)[i] = IF i = 1 THEN s[m] ELSE s[i - 1]
  <2>1. /\ e \o a \in Seq(S) /\ Len(e \o a) = Len(e) + Len(a)
        /\ \A i \in 1..(Len(e) + Len(a)) :
             (e \o a)[i] = IF i <= Len(e) THEN e[i] ELSE a[i - Len(e)]
    BY <1>3, <1>4, ConcatProperties
  <2>2. Len(e) + Len(a) = m
    BY <1>1, <1>3, <1>4
  <2>3. ASSUME NEW i \in 1..m PROVE (e \o a)[i] = IF i = 1 THEN s[m] ELSE s[i - 1]
    <3>1. (e \o a)[i] = IF i <= 1 THEN e[i] ELSE a[i - 1]
      BY <1>4, <2>1, <2>2
    <3>2. (i <= 1 <=> i = 1) /\ (i # 1 => i - 1 \in 1..(m - 1))
      BY <1>1
    <3> QED BY <1>3, <1>4, <3>1, <3>2
  <2> QED BY <2>1, <2>2, <2>3
<1> DEFINE r == Turn(s)
<1>6. r = [i \in 1..m |-> r[i]] /\ \A i \in 1..m : r[i] = IF i = 1 THEN s[m] ELSE s[i - 1]
  BY DEF Turn
<1> HIDE DEF r
<1>m. m \in Nat
  BY <1>1
<1> HIDE DEF m
<1>7. e \o a = r
  <2> DEFINE t == e \o a
  <2>1. t \in Seq(S) /\ Len(t) = m /\ \A i \in 1..m : t[i] = r[i]
    BY <1>5, <1>6
  <2> HIDE DEF t
  <2>2. t = r
    BY <1>6, <1>m, <2>1, SameSeq
  <2> QED BY <2>2 DEF t
<1> QED BY <1>7 DEF r, e, a

-----------------------------------------------------------------------------
(* Every operation does to the contents what ListContents says *)

\* The values val gives the nodes s.
Vals(val, s) == [k \in 1..Len(s) |-> val[s[k]]]

\* What ListContents is instantiated with.
Seen == [l \in Lists |-> [k \in 1..len[l] |-> value[listIndex(l, k - 1)]]]

\* The values of a sequence of nodes, position by position.
LEMMA ValsSeq ==
    ASSUME NEW s \in Seq(Nodes), NEW val, NEW S, \A n \in Nodes : val[n] \in S
    PROVE  /\ Vals(val, s) \in Seq(S) /\ Len(Vals(val, s)) = Len(s)
           /\ \A k \in 1..Len(s) : Vals(val, s)[k] = val[s[k]]
<1>1. Len(s) \in Nat /\ \A k \in 1..Len(s) : s[k] \in Nodes
  BY SeqFacts
<1>2. Vals(val, s) \in [1..Len(s) -> S]
  BY <1>1 DEF Vals
<1> QED BY <1>1, <1>2, FunctionSeq DEF Vals

\* No node, no value.
LEMMA NoVals ==
    ASSUME NEW s, Len(s) = 0, NEW val
    PROVE  Vals(val, s) = << >>
<1>1. Vals(val, s) = [k \in 1..0 |-> val[s[k]]]
  BY DEF Vals
<1>2. Vals(val, s) \in [1..0 -> {}]
  BY <1>1
<1>3. Vals(val, s) \in Seq({}) /\ Len(Vals(val, s)) = 0
  BY <1>2, FunctionSeq
<1> QED BY <1>3, EmptySeq

\* The contents are the values of the nodes.
LEMMA SeenRead ==
    \A c : Linked(c) => Seen = [l \in Lists |-> Vals(value, c[l])]
<1> SUFFICES ASSUME NEW c, Linked(c), NEW l \in Lists
             PROVE  [k \in 1..len[l] |-> value[listIndex(l, k - 1)]] = Vals(value, c[l])
  BY DEF Seen
<1>1. len[l] = Len(c[l]) /\ Len(c[l]) \in Nat
  BY NodeFacts
<1>2. ASSUME NEW k \in 1..Len(c[l]) PROVE listIndex(l, k - 1) = c[l][k]
  <2>1. k - 1 \in Int /\ ~(k - 1 < 0) /\ (k - 1) + 1 = k
    BY <1>1
  <2> QED BY <2>1, IndexRead
<1> QED BY <1>1, <1>2 DEF Vals

\* The same of the state after a step.
LEMMA SeenReadNext ==
    (\A c : Linked(c) => Seen = [l \in Lists |-> Vals(value, c[l])])'
BY SeenRead, PTL

\* A step that changes the contents of list l alone.
LEMMA OneChanged ==
    ASSUME NEW c, Linked(c), NEW d, Linked(d)', NEW l \in Lists, NEW r,
           Vals(value', d[l]) = r,
           \A o \in Lists : o # l => Vals(value', d[o]) = Vals(value, c[o])
    PROVE  Seen' = [Seen EXCEPT ![l] = r] /\ Seen[l] = Vals(value, c[l])
<1>1. Seen = [q \in Lists |-> Vals(value, c[q])]
  BY SeenRead
<1>2. Seen' = [q \in Lists |-> Vals(value', d[q])]
  BY SeenReadNext
<1> QED BY <1>1, <1>2

\* Values that agree on the nodes of a list.
LEMMA SameVals ==
    ASSUME NEW s, NEW a, NEW b, \A k \in 1..Len(s) : a[s[k]] = b[s[k]]
    PROVE  Vals(a, s) = Vals(b, s)
BY DEF Vals

\* The values when a node has been put at position p.
LEMMA PutVals ==
    ASSUME NEW s \in Seq(Nodes), NEW p \in 1..(Len(s) + 1), NEW n \in Nodes, NEW v,
           NEW a, NEW b, a[n] = v, \A k \in 1..Len(s) : a[s[k]] = b[s[k]]
    PROVE  Vals(a, Put(s, p, n)) = InsertAt(Vals(b, s), p, v)
<1> DEFINE S == {b[m] : m \in Nodes} \cup {v}
           t == Vals(b, s)
           q == Put(s, p, n)
<1>1. Len(s) \in Nat /\ \A k \in 1..Len(s) : s[k] \in Nodes
  BY SeqFacts
<1>2. t \in Seq(S) /\ Len(t) = Len(s) /\ \A k \in 1..Len(s) : t[k] = b[s[k]]
  <2>1. \A m \in Nodes : b[m] \in S
    OBVIOUS
  <2> HIDE DEF S
  <2> QED BY <2>1, ValsSeq
<1>3. InsertAt(t, p, v) = Put(t, p, v)
  <2>1. v \in S /\ p \in 1..(Len(t) + 1)
    BY <1>2
  <2> HIDE DEF S, t
  <2> QED BY <1>2, <2>1, InsertAtIsPut
<1>4. Len(q) = Len(s) + 1
  <2>1. \A i \in 1..(Len(s) + 1) :
          (IF i < p THEN s[i] ELSE IF i = p THEN n ELSE s[i - 1]) \in Nodes
    <3>1. \A i \in 1..(Len(s) + 1) : /\ i < p => i \in 1..Len(s)
                                     /\ ~(i < p) /\ i # p => i - 1 \in 1..Len(s)
      BY <1>1
    <3> QED BY <1>1, <3>1
  <2>2. q \in [1..(Len(s) + 1) -> Nodes]
    BY <2>1 DEF Put
  <2>3. Len(s) + 1 \in Nat
    BY <1>1
  <2> HIDE DEF q
  <2> QED BY <2>2, <2>3, FunctionSeq
<1> HIDE DEF t
<1>5. ASSUME NEW i \in 1..(Len(s) + 1)
      PROVE  a[q[i]] = IF i < p THEN t[i] ELSE IF i = p THEN v ELSE t[i - 1]
  <2>1. q[i] = IF i < p THEN s[i] ELSE IF i = p THEN n ELSE s[i - 1]
    BY DEF Put
  <2>2. (i < p => i \in 1..Len(s)) /\ (~(i < p) /\ i # p => i - 1 \in 1..Len(s))
    BY <1>1
  <2> HIDE DEF q
  <2>3. CASE i < p
    BY <1>2, <2>1, <2>2, <2>3
  <2>4. CASE i = p
    BY <2>1, <2>4, <1>1
  <2>5. CASE ~(i < p) /\ i # p
    BY <1>2, <2>1, <2>2, <2>5
  <2> QED BY <2>3, <2>4, <2>5
<1>6. Vals(a, q) = [i \in 1..(Len(s) + 1) |->
                      IF i < p THEN t[i] ELSE IF i = p THEN v ELSE t[i - 1]]
  BY <1>4, <1>5 DEF Vals
<1>7. Put(t, p, v) = [i \in 1..(Len(s) + 1) |->
                      IF i < p THEN t[i] ELSE IF i = p THEN v ELSE t[i - 1]]
  BY <1>2 DEF Put
<1> QED BY <1>3, <1>6, <1>7 DEF t

\* The three insertions are ListContents!Insert.
LEMMA AddsContents ==
    ASSUME Types, NEW c, Linked(c), NEW l \in Lists, NEW n \in Nodes \ alloc,
           NEW p \in 1..(Len(c[l]) + 1), NEW v \in Values, Adds(c, l, p, n, v)
    PROVE  Contents!Next
<1>1. PICK d : d = [c EXCEPT ![l] = Put(c[l], p, n)]
  OBVIOUS
<1>2. Linked(d)' /\ value' = [value EXCEPT ![n] = v]
  BY <1>1, AddsKeep DEF Adds
<1>3. \A o \in Lists : \A k \in 1..Len(c[o]) : value'[c[o][k]] = value[c[o][k]]
  <2> SUFFICES ASSUME NEW o \in Lists, NEW k \in 1..Len(c[o])
               PROVE  value'[c[o][k]] = value[c[o][k]]
    OBVIOUS
  <2>1. c[o][k] \in alloc /\ c[o][k] # n
    BY NodeFacts
  <2> QED BY <1>2, <2>1 DEF Types
<1>4. value'[n] = v
  BY <1>2 DEF Types
<1>5. \A o \in Lists : o # l => Vals(value', d[o]) = Vals(value, c[o])
  BY <1>1, <1>3, SameVals DEF Linked
<1>6. d[l] = Put(c[l], p, n) /\ c[l] \in Seq(Nodes)
  BY <1>1 DEF Linked
<1>7. Vals(value', d[l]) = InsertAt(Vals(value, c[l]), p, v)
  BY <1>3, <1>4, <1>6, PutVals
<1>8. /\ Seen' = [Seen EXCEPT ![l] = InsertAt(Vals(value, c[l]), p, v)]
      /\ Seen[l] = Vals(value, c[l])
  <2>1. PICK r : r = InsertAt(Vals(value, c[l]), p, v)
    OBVIOUS
  <2>2. Vals(value', d[l]) = r
    BY <1>7, <2>1
  <2>3. Linked(d)'
    BY <1>2
  <2>4. Seen' = [Seen EXCEPT ![l] = r] /\ Seen[l] = Vals(value, c[l])
    BY <1>5, <2>2, <2>3, OneChanged
  <2> QED BY <2>1, <2>4
<1>9. Len(Seen[l]) = Len(c[l])
  <2>1. \A m \in Nodes : value[m] \in {value[j] : j \in Nodes}
    OBVIOUS
  <2> QED BY <1>6, <1>8, <2>1, ValsSeq, ZenonT(90)
<1>10. Contents!Insert(l, p, v)
  BY <1>8 DEF Contents!Insert, Contents!InsertAt, InsertAt, Seen
<1> QED BY <1>9, <1>10 DEF Contents!Next, Seen

\* listDelNode is ListContents!Delete of the position of its node.
LEMMA DelNodeContents ==
    ASSUME Types, NEW c, Linked(c), NEW l \in Lists, NEW p \in 1..Len(c[l]),
           listDelNode(l, c[l][p])
    PROVE  Contents!Next
<1>1. PICK d : d = [c EXCEPT ![l] = Cut(c[l], p)]
  OBVIOUS
<1>2. Linked(d)' /\ value' = value
  BY <1>1, DelNodeKeeps DEF listDelNode
<1>3. \A o \in Lists : o # l => Vals(value', d[o]) = Vals(value, c[o])
  BY <1>1, <1>2 DEF Linked
<1>4. d[l] = Cut(c[l], p) /\ c[l] \in Seq(Nodes) /\ Len(c[l]) \in Nat
      /\ \A k \in 1..Len(c[l]) : c[l][k] \in Nodes
  BY <1>1, NodeFacts DEF Linked
<1> DEFINE S == {value[m] : m \in Nodes}
           t == Vals(value, c[l])
           m == Len(c[l])
<1>5. t \in Seq(S) /\ Len(t) = m /\ \A k \in 1..m : t[k] = value[c[l][k]]
  <2>1. \A j \in Nodes : value[j] \in S
    OBVIOUS
  <2> HIDE DEF S
  <2> QED BY <1>4, <2>1, ValsSeq
<1>6. RemoveAt(t, p) = Cut(t, p)
  <2> HIDE DEF S, t
  <2> QED BY <1>5, RemoveAtIsCut
<1>7. Len(d[l]) = m - 1 /\ \A i \in 1..(m - 1) : d[l][i] = IF i < p THEN c[l][i] ELSE c[l][i + 1]
  <2>1. m - 1 \in Nat /\ \A i \in 1..(m - 1) : i \in 1..m /\ i + 1 \in 1..m
    BY <1>4
  <2>2. d[l] = [i \in 1..(m - 1) |-> IF i < p THEN c[l][i] ELSE c[l][i + 1]]
    BY <1>4 DEF Cut
  <2>3. d[l] \in [1..(m - 1) -> Nodes]
    BY <1>4, <2>1, <2>2
  <2>4. Len(d[l]) = m - 1
    BY <2>1, <2>3, FunctionSeq
  <2> QED BY <2>2, <2>4
<1> HIDE DEF t
<1>8. ASSUME NEW i \in 1..(m - 1) PROVE value[d[l][i]] = IF i < p THEN t[i] ELSE t[i + 1]
  <2>1. i \in 1..m /\ i + 1 \in 1..m
    BY <1>4
  <2> QED BY <1>5, <1>7, <2>1
<1>9. Vals(value', d[l]) = RemoveAt(t, p)
  <2>1. Vals(value, d[l]) = [i \in 1..(m - 1) |-> IF i < p THEN t[i] ELSE t[i + 1]]
    BY <1>7, <1>8 DEF Vals
  <2>2. Cut(t, p) = [i \in 1..(m - 1) |-> IF i < p THEN t[i] ELSE t[i + 1]]
    BY <1>5 DEF Cut
  <2> QED BY <1>2, <1>6, <2>1, <2>2
<1>10. Seen' = [Seen EXCEPT ![l] = RemoveAt(t, p)] /\ Seen[l] = t
  <2>1. PICK r : r = RemoveAt(t, p)
    OBVIOUS
  <2>2. Vals(value', d[l]) = r
    BY <1>9, <2>1
  <2>3. Seen' = [Seen EXCEPT ![l] = r] /\ Seen[l] = Vals(value, c[l])
    BY <1>2, <1>3, <2>2, OneChanged
  <2> QED BY <2>1, <2>3 DEF t
<1>11. p \in 1..Len(Seen[l])
  BY <1>5, <1>10
<1> HIDE DEF m
<1>12. Contents!Delete(l, p)
  BY <1>10 DEF Contents!Delete, Contents!RemoveAt, RemoveAt, Seen
<1> QED BY <1>11, <1>12 DEF Contents!Next, Seen

\* listEmpty is ListContents!Clear.
LEMMA EmptyContents ==
    ASSUME Types, NEW c, Linked(c), NEW l \in Lists, listEmpty(l)
    PROVE  Contents!Next
<1>1. PICK d : d = [c EXCEPT ![l] = << >>]
  OBVIOUS
<1>2. Linked(d)' /\ value' = value
  BY <1>1, EmptyKeeps DEF listEmpty
<1>3. \A o \in Lists : o # l => Vals(value', d[o]) = Vals(value, c[o])
  BY <1>1, <1>2 DEF Linked
<1>4. d[l] = << >>
  BY <1>1 DEF Linked
<1>5. Vals(value', d[l]) = << >>
  BY <1>4, EmptyFacts, NoVals
<1>6. Seen' = [Seen EXCEPT ![l] = << >>]
  BY <1>2, <1>3, <1>5, OneChanged
<1>7. Contents!Clear(l)
  BY <1>6 DEF Contents!Clear, Seen
<1> QED BY <1>7 DEF Contents!Next

\* listRotate is ListContents!Rotate.
LEMMA RotateContents ==
    ASSUME Types, NEW c, Linked(c), NEW l \in Lists, listRotate(l)
    PROVE  Contents!Next
<1>1. PICK d : d = [c EXCEPT ![l] = Turn(c[l])]
  OBVIOUS
<1>2. Linked(d)' /\ value' = value /\ len[l] > 1
  BY <1>1, RotateKeeps DEF listRotate
<1>3. \A o \in Lists : o # l => Vals(value', d[o]) = Vals(value, c[o])
  BY <1>1, <1>2 DEF Linked
<1>4. d[l] = Turn(c[l]) /\ c[l] \in Seq(Nodes) /\ Len(c[l]) \in Nat /\ len[l] = Len(c[l])
      /\ \A k \in 1..Len(c[l]) : c[l][k] \in Nodes
  BY <1>1, NodeFacts DEF Linked
<1> DEFINE S == {value[m] : m \in Nodes}
           t == Vals(value, c[l])
           m == Len(c[l])
<1>5. t \in Seq(S) /\ Len(t) = m /\ \A k \in 1..m : t[k] = value[c[l][k]]
  <2>1. \A j \in Nodes : value[j] \in S
    OBVIOUS
  <2> HIDE DEF S
  <2> QED BY <1>4, <2>1, ValsSeq
<1>6. m \in Nat /\ m > 1
  BY <1>2, <1>4
<1>7. <<Last(t)>> \o Front(t) = Turn(t)
  <2> HIDE DEF S, t
  <2> QED BY <1>5, <1>6, TurnIsRotation
<1>8. Len(d[l]) = m /\ \A i \in 1..m : d[l][i] = IF i = 1 THEN c[l][m] ELSE c[l][i - 1]
  <2>1. m \in 1..m /\ \A i \in 1..m : i # 1 => i - 1 \in 1..m
    BY <1>6
  <2>2. d[l] = [i \in 1..m |-> IF i = 1 THEN c[l][m] ELSE c[l][i - 1]]
    BY <1>4 DEF Turn
  <2>3. d[l] \in [1..m -> Nodes]
    BY <1>4, <2>1, <2>2
  <2>4. Len(d[l]) = m
    BY <1>4, <2>3, FunctionSeq
  <2> QED BY <2>2, <2>4
<1> HIDE DEF t
<1>9. ASSUME NEW i \in 1..m PROVE value[d[l][i]] = IF i = 1 THEN t[m] ELSE t[i - 1]
  <2>1. m \in 1..m /\ (i # 1 => i - 1 \in 1..m)
    BY <1>6
  <2> QED BY <1>5, <1>8, <2>1
<1>10. Vals(value', d[l]) = <<Last(t)>> \o Front(t)
  <2>1. Vals(value, d[l]) = [i \in 1..m |-> IF i = 1 THEN t[m] ELSE t[i - 1]]
    BY <1>8, <1>9 DEF Vals
  <2>2. Turn(t) = [i \in 1..m |-> IF i = 1 THEN t[m] ELSE t[i - 1]]
    BY <1>5 DEF Turn
  <2> QED BY <1>2, <1>7, <2>1, <2>2
<1>11. Seen' = [Seen EXCEPT ![l] = <<Last(t)>> \o Front(t)] /\ Seen[l] = t
  <2>1. PICK r : r = <<Last(t)>> \o Front(t)
    OBVIOUS
  <2>2. Vals(value', d[l]) = r
    BY <1>10, <2>1
  <2>3. Seen' = [Seen EXCEPT ![l] = r] /\ Seen[l] = Vals(value, c[l])
    BY <1>2, <1>3, <2>2, OneChanged
  <2> QED BY <2>1, <2>3 DEF t
<1>12. Len(Seen[l]) > 1
  BY <1>5, <1>6, <1>11
<1> HIDE DEF m
<1>13. Contents!Rotate(l)
  BY <1>11, <1>12 DEF Contents!Rotate, Contents!Last, Contents!Front, Last, Front, Seen
<1> QED BY <1>13 DEF Contents!Next

\* The values of a concatenation.
LEMMA ConcatVals ==
    ASSUME NEW s \in Seq(Nodes), NEW r \in Seq(Nodes), NEW val
    PROVE  Vals(val, s \o r) = Vals(val, s) \o Vals(val, r)
<1> DEFINE S == {val[m] : m \in Nodes}
           a == Vals(val, s)
           b == Vals(val, r)
           t == s \o r
           n == Len(s) + Len(r)
<1>1. \A j \in Nodes : val[j] \in S
  OBVIOUS
<1>2. /\ a \in Seq(S) /\ Len(a) = Len(s) /\ \A k \in 1..Len(s) : a[k] = val[s[k]]
      /\ b \in Seq(S) /\ Len(b) = Len(r) /\ \A k \in 1..Len(r) : b[k] = val[r[k]]
  <2> HIDE DEF S
  <2> QED BY <1>1, ValsSeq
<1>3. /\ t \in Seq(Nodes) /\ Len(t) = n
      /\ \A i \in 1..n : t[i] = IF i <= Len(s) THEN s[i] ELSE r[i - Len(s)]
  BY ConcatFacts
<1>4. Len(s) \in Nat /\ Len(r) \in Nat
  BY SeqFacts
<1> HIDE DEF a, b, S
<1>5. /\ a \o b \in Seq(S) /\ Len(a \o b) = n
      /\ \A i \in 1..n : (a \o b)[i] = IF i <= Len(s) THEN a[i] ELSE b[i - Len(s)]
  <2>1. /\ a \o b \in Seq(S) /\ Len(a \o b) = Len(a) + Len(b)
        /\ \A i \in 1..(Len(a) + Len(b)) :
             (a \o b)[i] = IF i <= Len(a) THEN a[i] ELSE b[i - Len(a)]
    BY <1>2, ConcatProperties, ZenonT(90)
  <2> QED BY <1>2, <2>1
<1> HIDE DEF t
<1>6. Vals(val, t) \in Seq(S) /\ Len(Vals(val, t)) = n
      /\ \A i \in 1..n : Vals(val, t)[i] = val[t[i]]
  <2>1. t \in Seq(Nodes) /\ Len(t) = n
    BY <1>3
  <2>2. /\ Vals(val, t) \in Seq(S) /\ Len(Vals(val, t)) = Len(t)
        /\ \A i \in 1..Len(t) : Vals(val, t)[i] = val[t[i]]
    BY <1>1, <2>1, ValsSeq
  <2> HIDE DEF n
  <2> QED BY <2>1, <2>2
<1>7. ASSUME NEW i \in 1..n PROVE (a \o b)[i] = Vals(val, t)[i]
  <2>1. (i <= Len(s) => i \in 1..Len(s)) /\ (~(i <= Len(s)) => i - Len(s) \in 1..Len(r))
    BY <1>4
  <2>2. Vals(val, t)[i] = val[t[i]] /\ t[i] = (IF i <= Len(s) THEN s[i] ELSE r[i - Len(s)])
        /\ (a \o b)[i] = (IF i <= Len(s) THEN a[i] ELSE b[i - Len(s)])
    BY <1>3, <1>5, <1>6
  <2> HIDE DEF n
  <2> QED BY <1>2, <2>1, <2>2
<1>8. n \in Nat
  BY <1>4
<1> DEFINE u == a \o b
           w == Vals(val, t)
<1>9. w = [i \in 1..n |-> w[i]]
  BY <1>3 DEF Vals
<1>10. u \in Seq(S) /\ Len(u) = n /\ \A i \in 1..n : u[i] = w[i]
  BY <1>5, <1>7
<1> HIDE DEF n, u, w
<1>11. u = w
  BY <1>8, <1>9, <1>10, SameSeq
<1> QED BY <1>11 DEF u, w, t, a, b

\* listJoin is ListContents!Join.
LEMMA JoinContents ==
    ASSUME Types, NEW c, Linked(c), NEW l \in Lists, NEW o \in Lists, listJoin(l, o),
           ~JoinEmpty
    PROVE  Contents!Next
<1>1. PICK d : d = Joined(c, l, o)
  OBVIOUS
<1>2. Linked(d)' /\ value' = value /\ l # o
  BY <1>1, JoinKeeps DEF listJoin
<1>3. /\ d[l] = c[l] \o c[o] /\ d[o] = << >>
      /\ \A q \in Lists : q # l /\ q # o => d[q] = c[q]
  BY <1>1, <1>2 DEF Joined
<1>4. c[l] \in Seq(Nodes) /\ c[o] \in Seq(Nodes)
  BY NodeFacts
<1>5. Vals(value', d[l]) = Vals(value, c[l]) \o Vals(value, c[o])
  <2>1. Vals(value, c[l] \o c[o]) = Vals(value, c[l]) \o Vals(value, c[o])
    BY <1>4, ConcatVals
  <2> QED BY <1>2, <1>3, <2>1
<1>6. Vals(value', d[o]) = << >>
  BY <1>3, EmptyFacts, NoVals
<1>7. Seen = [q \in Lists |-> Vals(value, c[q])]
  BY SeenRead
<1>8. Seen' = [q \in Lists |-> Vals(value', d[q])]
  BY <1>2, SeenReadNext
<1>9. ASSUME NEW q \in Lists
      PROVE  Seen'[q] = IF q = o THEN << >> ELSE IF q = l THEN Seen[l] \o Seen[o] ELSE Seen[q]
  BY <1>2, <1>3, <1>5, <1>6, <1>7, <1>8
<1>10. Seen' = [Seen EXCEPT ![l] = Seen[l] \o Seen[o], ![o] = << >>]
  <2>1. DOMAIN Seen = Lists /\ Seen' = [q \in Lists |-> Seen'[q]]
    BY <1>7, <1>8
  <2> HIDE DEF Seen
  <2> QED BY <1>2, <1>9, <2>1
<1>11. Contents!Join(l, o)
  BY <1>2, <1>10 DEF Contents!Join, Seen
<1> QED BY <1>11 DEF Contents!Next

\* listDup is ListContents!Copy: the copy has the values in their order.
LEMMA DupContents ==
    ASSUME Types, NEW c, Linked(c), NEW l \in Lists, NEW o \in Lists, listDup(l, o)
    PROVE  Contents!Next
<1> DEFINE n == Len(c[l])
<1>1. l # o /\ n \in Nat \ {0} /\ Len(c[o]) = 0
  BY DupCopies
<1>2. PICK copy \in [1..n -> Nodes \ alloc] :
        /\ \A i, j \in 1..n : copy[i] = copy[j] => i = j
        /\ Copies(o, n, copy)
        /\ value' = [m \in Nodes |-> IF m \in {copy[i] : i \in 1..n}
                                     THEN value[c[l][Position(copy, n, m)]]
                                     ELSE value[m]]
  BY DupCopies
<1>3. PICK d : d = [c EXCEPT ![o] = copy]
  OBVIOUS
<1>4. Linked(d)'
  BY <1>1, <1>2, <1>3, CopyStep
<1>5. /\ \A q \in Lists : q # o => d[q] = c[q]
      /\ d[o] = copy
  BY <1>3 DEF Linked
<1>6. ASSUME NEW i \in 1..n PROVE value'[copy[i]] = value[c[l][i]]
  <2>1. copy[i] \in Nodes /\ copy[i] \in {copy[j] : j \in 1..n}
    BY <1>2
  <2>2. Position(copy, n, copy[i]) = i
    BY <1>2 DEF Position
  <2> QED BY <1>2, <2>1, <2>2
<1>7. ASSUME NEW q \in Lists, NEW k \in 1..Len(c[q]) PROVE value'[c[q][k]] = value[c[q][k]]
  <2>1. c[q][k] \in alloc /\ c[q][k] \in Nodes
    BY NodeFacts
  <2>2. c[q][k] \notin {copy[j] : j \in 1..n}
    BY <1>2, <2>1
  <2> QED BY <1>2, <2>1, <2>2
<1>8. \A q \in Lists : q # o => Vals(value', d[q]) = Vals(value, c[q])
  BY <1>5, <1>7, SameVals
<1>9. Vals(value', d[o]) = Vals(value, c[l])
  <2>1. Len(copy) = n
    <3>1. copy \in [1..n -> Nodes]
      BY <1>2
    <3> HIDE DEF n
    <3> QED BY <1>1, <3>1, FunctionSeq
  <2> QED BY <1>5, <1>6, <2>1 DEF Vals
<1>10. PICK r : r = Vals(value, c[l])
  OBVIOUS
<1>11. Seen' = [Seen EXCEPT ![o] = r] /\ Seen[o] = Vals(value, c[o])
  BY <1>4, <1>8, <1>9, <1>10, OneChanged
<1>12. Seen[l] = r /\ Seen[o] = << >>
  BY <1>1, <1>10, <1>11, SeenRead, NoVals
<1>13. Contents!Copy(l, o)
  BY <1>11, <1>12 DEF Contents!Copy, Seen
<1> QED BY <1>13 DEF Contents!Next

\* Iterating changes no list.
LEMMA SameContents ==
    ASSUME Types, NEW c, Linked(c), UNCHANGED <<listVars, nodeVars>>
    PROVE  Seen' = Seen
<1>1. Linked(c)' /\ value' = value
  BY SameNodes DEF nodeVars
<1>2. Seen = [q \in Lists |-> Vals(value, c[q])]
  BY SeenRead
<1>3. Seen' = [q \in Lists |-> Vals(value', c[q])]
  BY <1>1, SeenReadNext
<1> QED BY <1>1, <1>2, <1>3

\* Every step is one of ListContents or leaves the contents alone.
LEMMA NextContents ==
    ASSUME ~JoinEmpty, ListInv, [Next]_vars
    PROVE  Contents!Next \/ Seen' = Seen
<1>1. Types /\ IterTypes
  BY DEF ListInv
<1>2. PICK c : Linked(c) /\ IterOK(c)
  BY DEF ListInv
<1>3. \A l \in Lists : c[l] \in Seq(Nodes) /\ Len(c[l]) \in Nat
  BY <1>2, NodeFacts
<1>4. ASSUME NEW l \in Lists, NEW v \in Values, listAddNodeHead(l, v)
      PROVE  Contents!Next
  <2>1. PICK n \in Nodes \ alloc : Adds(c, l, 1, n, v)
    BY <1>1, <1>2, <1>4, AddHeadInserts
  <2>2. 1 \in 1..(Len(c[l]) + 1)
    BY <1>3
  <2> QED BY <1>1, <1>2, <2>1, <2>2, AddsContents
<1>5. ASSUME NEW l \in Lists, NEW v \in Values, listAddNodeTail(l, v)
      PROVE  Contents!Next
  <2>1. PICK n \in Nodes \ alloc : Adds(c, l, Len(c[l]) + 1, n, v)
    BY <1>1, <1>2, <1>5, AddTailInserts
  <2>2. Len(c[l]) + 1 \in 1..(Len(c[l]) + 1)
    BY <1>3
  <2> QED BY <1>1, <1>2, <2>1, <2>2, AddsContents
<1>6. ASSUME NEW l \in Lists, NEW m \in ToSet(Forward(l)), NEW v \in Values,
             NEW after \in BOOLEAN, listInsertNode(l, m, v, after)
      PROVE  Contents!Next
  <2>1. PICK i \in 1..Len(c[l]) : m = c[l][i]
    BY <1>2, MemberPosition
  <2>2. PICK n \in Nodes \ alloc : Adds(c, l, IF after THEN i + 1 ELSE i, n, v)
    BY <1>1, <1>2, <1>6, <2>1, InsertNodeInserts
  <2>3. (IF after THEN i + 1 ELSE i) \in 1..(Len(c[l]) + 1)
    BY <1>3
  <2> QED BY <1>1, <1>2, <2>2, <2>3, AddsContents
<1>7. ASSUME NEW l \in Lists, NEW n \in ToSet(Forward(l)), listDelNode(l, n)
      PROVE  Contents!Next
  <2>1. PICK p \in 1..Len(c[l]) : n = c[l][p]
    BY <1>2, MemberPosition
  <2> QED BY <1>1, <1>2, <1>7, <2>1, DelNodeContents
<1>8. ASSUME NEW l \in Lists, listEmpty(l) PROVE Contents!Next
  BY <1>1, <1>2, <1>8, EmptyContents
<1>9. ASSUME NEW l \in Lists, listRotate(l) PROVE Contents!Next
  BY <1>1, <1>2, <1>9, RotateContents
<1>10. ASSUME NEW l \in Lists, NEW o \in Lists, listJoin(l, o) PROVE Contents!Next
  BY <1>1, <1>2, <1>10, JoinContents
<1>11. ASSUME NEW l \in Lists, NEW o \in Lists, listDup(l, o) PROVE Contents!Next
  BY <1>1, <1>2, <1>11, DupContents
<1>12. ASSUME NEW l \in Lists, NEW dir \in {"head", "tail"}, listRewind(l, dir)
       PROVE  Seen' = Seen
  BY <1>1, <1>2, <1>12, SameContents DEF listRewind
<1>13. CASE listNext
  BY <1>1, <1>2, <1>13, SameContents DEF listNext
<1>14. CASE UNCHANGED vars
  BY <1>1, <1>2, <1>14, SameContents DEF vars
<1> HIDE DEF Seen
<1> QED BY <1>4, <1>5, <1>6, <1>7, <1>8, <1>9, <1>10, <1>11, <1>12, <1>13, <1>14 DEF Next

\* The operations of list.c do to the sequences of values what ListContents says.
THEOREM ListImplementsContents ==
    ASSUME ~JoinEmpty
    PROVE  Spec => RefinesContents
<1>1. Init => ListInv
  BY InitInv
<1>2. Init => Contents!Init
  <2> SUFFICES ASSUME Init PROVE Seen = [l \in Lists |-> << >>]
    BY DEF Contents!Init, Seen
  <2>1. \A l \in Lists : len[l] = 0
    BY DEF Init
  <2>2. ASSUME NEW l \in Lists PROVE [k \in 1..len[l] |-> value[listIndex(l, k - 1)]] = << >>
    <3>1. PICK f : f = [k \in 1..len[l] |-> value[listIndex(l, k - 1)]]
      OBVIOUS
    <3>2. f \in [1..0 -> {}]
      BY <2>1, <3>1
    <3>3. f \in Seq({}) /\ Len(f) = 0
      BY <3>2, FunctionSeq
    <3> QED BY <3>1, <3>3, EmptySeq
  <2> QED BY <2>2 DEF Seen
<1>3. ListInv /\ [Next]_vars => ListInv'
  BY NextInv
<1>4. ListInv /\ [Next]_vars
        => [Contents!Next]_[l \in Lists |-> [k \in 1..len[l] |-> value[listIndex(l, k - 1)]]]
  BY NextContents DEF Seen
<1> QED BY <1>1, <1>2, <1>3, <1>4, PTL DEF Spec, RefinesContents, Contents!Spec
=============================================================================
