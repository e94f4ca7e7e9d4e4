------------------------ MODULE AsyncContextProofs ------------------------
(***************************************************************************)
(* Proofs about AsyncContext, for any number of commands, any topics and   *)
(* every adapter. First the dictionaries it keeps its subscriptions in:    *)
(* for any keys and any initial size the operations do to the set of       *)
(* entries what a dictionary should. Then the events: those a context      *)
(* needs stay armed, handlers get a live context, a freed context is never *)
(* used again. Last the callbacks: what is under way between the           *)
(* application and the server is one queue, in an order that lets each     *)
(* reply find its callback.                                                *)
(***************************************************************************)
EXTENDS AsyncContext, SequenceTheorems, WellFoundedInduction, FiniteSetTheorems, TLAPS

-----------------------------------------------------------------------------
(* The dictionary *)

\* A nonempty set of natural numbers has a least element.
LEMMA LeastNatural ==
    ASSUME NEW S \in SUBSET Nat, S # {}
    PROVE  \E n \in S : \A m \in S : n <= m
<1> DEFINE R == {ss \in Nat \X Nat : ss[1] < ss[2]}
<1>1. IsWellFoundedOn(R, Nat)
  BY NatLessThanWellFounded, Zenon DEF OpToRel
<1>2. PICK n \in S : \A m \in S : <<m, n>> \notin R
  <2> HIDE DEF R
  <2> QED BY <1>1, WFMin
<1>3. \A m \in S : n <= m
  <2> TAKE m \in S
  <2>1. <<m, n>> \notin R /\ m \in Nat /\ n \in Nat
    BY <1>2
  <2> QED BY <2>1
<1> QED BY <1>3

\* Induction over the natural numbers, for a property given as a set.
LEMMA InductiveSet ==
    ASSUME NEW P, 0 \in P, \A n \in Nat : n \in P => n + 1 \in P
    PROVE  \A n \in Nat : n \in P
<1> SUFFICES ASSUME NEW k \in Nat, k \notin P PROVE FALSE
  OBVIOUS
<1> DEFINE U == {n \in Nat : n \notin P}
<1>1. PICK j \in U : \A i \in U : j <= i
  <2>1. U \in SUBSET Nat /\ U # {}
    OBVIOUS
  <2> HIDE DEF U
  <2> QED BY <2>1, LeastNatural
<1>2. j \in Nat /\ j # 0 /\ j \notin P
  OBVIOUS
<1>3. j - 1 \in Nat /\ j - 1 \notin P
  BY <1>2
<1>4. j - 1 \in U
  BY <1>3
<1> QED BY <1>1, <1>2, <1>4


\* The same from 1 up to a bound.
LEMMA InductiveRange ==
    ASSUME NEW n \in Nat, NEW P, 1 \in P,
           \A i \in 1..n : i \in P /\ i + 1 \in 1..n => i + 1 \in P
    PROVE  \A i \in 1..n : i \in P
<1> DEFINE Q == {k \in Nat : k + 1 \in 1..n => k + 1 \in P}
<1>1. 0 \in Q
  OBVIOUS
<1>2. \A k \in Nat : k \in Q => k + 1 \in Q
  OBVIOUS
<1>3. \A k \in Nat : k \in Q
  <2> HIDE DEF Q
  <2> QED BY <1>1, <1>2, InductiveSet
<1> SUFFICES ASSUME NEW i \in 1..n PROVE i \in P
  OBVIOUS
<1>4. i - 1 \in Nat /\ (i - 1) + 1 = i
  OBVIOUS
<1>5. i - 1 \in Q
  BY <1>3, <1>4
<1> QED BY <1>4, <1>5

\* A loop over m + 1..n that turns base into step[i][...] with each i, and what it has
\* after each turn.
IsLoop(m, n, S, base, step) ==
    m \in Nat /\ n \in Nat /\ m <= n /\ base \in S /\ step \in [m..n -> [S -> S]]
IsRun(m, n, S, base, step, f) ==
    /\ f \in [m..n -> S]
    /\ f = [i \in m..n |-> IF i = m THEN base ELSE step[i][f[i - 1]]]

\* Every loop has a run.
LEMMA Iterate ==
    ASSUME NEW m, NEW n, NEW S, NEW base, NEW step, IsLoop(m, n, S, base, step)
    PROVE  \E f : IsRun(m, n, S, base, step, f)
<1>0. m \in Nat /\ n \in Nat /\ m <= n /\ base \in S /\ step \in [m..n -> [S -> S]]
  BY DEF IsLoop
<1> USE <1>0
<1> DEFINE Run(f, k) == \A i \in m..k : f[i] = IF i = m THEN base ELSE step[i][f[i - 1]]
           P == {k \in Nat : m + k <= n => \E f \in [m..n -> S] : Run(f, m + k)}
<1>1. 0 \in P
  <2> DEFINE f == [i \in m..n |-> base]
  <2>1. f \in [m..n -> S] /\ Run(f, m + 0)
    OBVIOUS
  <2> QED BY <2>1
<1>2. \A k \in Nat : k \in P => k + 1 \in P
  <2> SUFFICES ASSUME NEW k \in Nat, k \in P PROVE k + 1 \in P
    OBVIOUS
  <2> SUFFICES ASSUME m + (k + 1) <= n
               PROVE  \E f \in [m..n -> S] : Run(f, m + (k + 1))
    <3> HIDE DEF Run
    <3> QED OBVIOUS
  <2>1. PICK g \in [m..n -> S] : Run(g, m + k)
    <3> HIDE DEF Run
    <3> QED OBVIOUS
  <2> DEFINE j == m + (k + 1)
             f == [i \in m..n |-> IF i = j THEN step[j][g[j - 1]] ELSE g[i]]
  <2>2. j \in m..n /\ j - 1 \in m..n /\ j # m /\ j - 1 = m + k
    OBVIOUS
  <2>3. f \in [m..n -> S]
    <3>1. g[j - 1] \in S
      BY <2>2
    <3>2. step[j] \in [S -> S]
      BY <2>2
    <3>3. step[j][g[j - 1]] \in S
      BY <3>1, <3>2
    <3> HIDE DEF j
    <3> QED BY <3>3
  <2>4. ASSUME NEW i \in m..j PROVE f[i] = IF i = m THEN base ELSE step[i][f[i - 1]]
    <3>1. CASE i = j
      <4>1. f[i] = step[j][g[j - 1]] /\ f[i - 1] = g[j - 1]
        BY <3>1, <2>2
      <4> QED BY <4>1, <3>1, <2>2
    <3>2. CASE i # j
      <4>1. i \in m..(m + k) /\ i \in m..n
        BY <3>2, <2>2
      <4>2. f[i] = g[i] /\ (i # m => i - 1 \in m..n /\ f[i - 1] = g[i - 1])
        BY <3>2, <4>1, <2>2
      <4>3. g[i] = IF i = m THEN base ELSE step[i][g[i - 1]]
        BY <2>1, <4>1
      <4> QED BY <4>2, <4>3
    <3> QED BY <3>1, <3>2
  <2>5. Run(f, j)
    BY <2>4
  <2> HIDE DEF f
  <2> QED BY <2>3, <2>5
<1>3. n - m \in P
  <2>1. n - m \in Nat
    OBVIOUS
  <2> HIDE DEF P
  <2> QED BY <1>1, <1>2, <2>1, InductiveSet
<1>4. PICK f \in [m..n -> S] : Run(f, n)
  <2>1. m + (n - m) = n
    OBVIOUS
  <2> QED BY <1>3, <2>1
<1>5. IsRun(m, n, S, base, step, f)
  BY <1>4 DEF IsRun
<1> QED BY <1>5

\* The table is big enough, and never empty.
LEMMA NextPower ==
    ASSUME NEW size \in Nat
    PROVE  dictNextPower(size) \in Nat \ {0} /\ dictNextPower(size) >= size
<1> DEFINE N == Nat \ {0}
           Step(x) == IF x >= size THEN x ELSE 2 * x
           F(p) == [i \in 0..size |-> IF i = 0 THEN DICT_HT_INITIAL_SIZE ELSE Step(p[i - 1])]
           power == CHOOSE p : p = F(p)
           step == [i \in 0..size |-> [x \in N |-> Step(x)]]
<1>1. dictNextPower(size) = power[size]
  BY DEF dictNextPower
<1>2. DICT_HT_INITIAL_SIZE \in N
  BY InitialSizeAssumption
<1>3. \E f \in [0..size -> N] : f = F(f)
  <2>1. step \in [0..size -> [N -> N]]
    OBVIOUS
  <2>2. PICK f : IsRun(0, size, N, DICT_HT_INITIAL_SIZE, step, f)
    <3>1. IsLoop(0, size, N, DICT_HT_INITIAL_SIZE, step)
      BY <1>2, <2>1 DEF IsLoop
    <3> HIDE DEF step, N
    <3> QED BY <3>1, Iterate
  <2>3. \A i \in 0..size : i # 0 => step[i][f[i - 1]] = Step(f[i - 1])
    <3> TAKE i \in 0..size
    <3> HAVE i # 0
    <3>1. i - 1 \in 0..size
      OBVIOUS
    <3>2. f[i - 1] \in N
      BY <2>2, <3>1 DEF IsRun
    <3> QED BY <3>2
  <2>4. f \in [0..size -> N] /\ f = F(f)
    <3> HIDE DEF step
    <3> QED BY <2>2, <2>3 DEF IsRun
  <2> QED BY <2>4
<1>4. power = F(power)
  <2> HIDE DEF F
  <2> QED BY <1>3
<1> DEFINE Q == {i \in Nat : i <= size => power[i] \in N /\ (power[i] >= size \/ power[i] > i)}
<1>5. 0 \in Q
  <2>1. power[0] = DICT_HT_INITIAL_SIZE
    <3> HIDE DEF power
    <3> QED BY <1>4
  <2> HIDE DEF power
  <2> QED BY <1>2, <2>1
<1>6. \A i \in Nat : i \in Q => i + 1 \in Q
  <2> TAKE i \in Nat
  <2> SUFFICES ASSUME i \in Q, i + 1 <= size
               PROVE  power[i + 1] \in N /\ (power[i + 1] >= size \/ power[i + 1] > i + 1)
    OBVIOUS
  <2> HIDE DEF power
  <2>1. power[i] \in N /\ (power[i] >= size \/ power[i] > i)
    OBVIOUS
  <2>2. power[i + 1] = Step(power[i])
    <3>1. i + 1 \in 0..size /\ i + 1 # 0 /\ (i + 1) - 1 = i
      OBVIOUS
    <3>2. power[i + 1] = Step(power[(i + 1) - 1])
      BY <1>4, <3>1
    <3> QED BY <3>1, <3>2
  <2> QED BY <2>1, <2>2
<1>7. size \in Q
  <2> HIDE DEF Q
  <2> QED BY <1>5, <1>6, InductiveSet
<1> HIDE DEF power
<1> QED BY <1>1, <1>7

-----------------------------------------------------------------------------
(* Chains of entries *)

Entries == [key : Nat, val : Nat]
Chains == Seq(Seq(Entries))

Member(t, e) == \E h \in 1..Len(t) : \E i \in 1..Len(t[h]) : t[h][i] = e

\* Every entry is in the chain of its hash.
Slotted(t) == \A h \in 1..Len(t) : \A i \in 1..Len(t[h]) : Slot(t[h][i].key, Len(t)) = h

\* No key is there twice.
Distinct(s) == \A i, j \in 1..Len(s) : s[i].key = s[j].key => i = j
Single(t) == \A h \in 1..Len(t) : Distinct(t[h])

\* The hash of a key is the number of a bucket.
LEMMA SlotFacts ==
    ASSUME NEW key \in Nat, NEW n \in Nat \ {0}
    PROVE  Slot(key, n) \in 1..n
BY DEF Slot

\* The loop over a chain finds the key when it is there.
LEMMA PlaceFacts ==
    ASSUME NEW ht, NEW key, Bucket(ht, key) \in Seq(Entries)
    PROVE  /\ Place(ht, key) \in 0..Len(Bucket(ht, key))
           /\ Place(ht, key) # 0 => Bucket(ht, key)[Place(ht, key)].key = key
           /\ (\E i \in 1..Len(Bucket(ht, key)) : Bucket(ht, key)[i].key = key)
                => Place(ht, key) # 0
<1>1. PICK s \in Seq(Entries) : s = Bucket(ht, key)
  OBVIOUS
<1>2. PICK I : I = {i \in 1..Len(s) : s[i].key = key}
  OBVIOUS
<1>3. Place(ht, key) = IF I # {} THEN CHOOSE x \in I : \A y \in I : x <= y ELSE 0
  BY <1>1, <1>2 DEF Place, SelectInSeq, Min
<1>4. I # {} => (CHOOSE x \in I : \A y \in I : x <= y) \in I
  <2>1. I \in SUBSET Nat
    BY <1>2
  <2> QED BY <2>1, LeastNatural
<1>5. \A x \in I : x \in 1..Len(s) /\ s[x].key = key /\ x # 0
  BY <1>2
<1>6. Place(ht, key) # 0 => Place(ht, key) \in I
  BY <1>3, <1>4
<1>7. Len(s) \in Nat
  OBVIOUS
<1>8. Place(ht, key) \in 0..Len(s) /\ (Place(ht, key) # 0 => s[Place(ht, key)].key = key)
  BY <1>5, <1>6, <1>7
<1>9. (\E i \in 1..Len(s) : s[i].key = key) => Place(ht, key) # 0
  <2>1. (\E i \in 1..Len(s) : s[i].key = key) => I # {}
    BY <1>2
  <2> QED BY <1>3, <1>4, <1>5, <2>1
<1> QED BY <1>1, <1>8, <1>9

\* What replacing one chain of a table does.
LEMMA PushFacts ==
    ASSUME NEW t \in Chains, Len(t) # 0, NEW e \in Entries
    PROVE  /\ Push(t, e) \in Chains /\ Len(Push(t, e)) = Len(t)
           /\ Slot(e.key, Len(t)) \in 1..Len(t)
           /\ \A h \in 1..Len(t) :
                Push(t, e)[h] = IF h = Slot(e.key, Len(t)) THEN <<e>> \o t[h] ELSE t[h]
<1>1. t \in Seq(Seq(Entries)) /\ Len(t) \in Nat \ {0} /\ e.key \in Nat
  BY DEF Chains, Entries
<1>2. PICK k : k = Slot(e.key, Len(t))
  OBVIOUS
<1>3. k \in 1..Len(t)
  BY <1>1, <1>2, SlotFacts
<1>4. \A h \in 1..Len(t) : t[h] \in Seq(Entries)
  BY <1>1
<1>5. <<e>> \o t[k] \in Seq(Entries)
  BY <1>3, <1>4
<1>6. Push(t, e) = [t EXCEPT ![k] = <<e>> \o t[k]]
  BY <1>2 DEF Push
<1>7. Push(t, e) \in Seq(Seq(Entries)) /\ Len(Push(t, e)) = Len(t)
  BY <1>1, <1>3, <1>5, <1>6
<1>8. \A h \in 1..Len(t) : Push(t, e)[h] = IF h = k THEN <<e>> \o t[h] ELSE t[h]
  BY <1>1, <1>6
<1> QED BY <1>2, <1>3, <1>7, <1>8 DEF Chains

\* An entry in front of a chain.
LEMMA FrontFacts ==
    ASSUME NEW s \in Seq(Entries), NEW e \in Entries
    PROVE  /\ Len(<<e>> \o s) = Len(s) + 1 /\ (<<e>> \o s)[1] = e
           /\ \A i \in 1..Len(s) : (<<e>> \o s)[i + 1] = s[i]
           /\ \A i \in 1..(Len(s) + 1) : i # 1 => i - 1 \in 1..Len(s) /\ (<<e>> \o s)[i] = s[i - 1]
<1>1. <<e>> \in Seq(Entries) /\ Len(<<e>>) = 1 /\ <<e>>[1] = e
  OBVIOUS
<1>2. Len(s) \in Nat /\ 1 \in 1..(1 + Len(s))
  OBVIOUS
<1>3. /\ Len(<<e>> \o s) = 1 + Len(s)
      /\ \A i \in 1..(1 + Len(s)) :
           (<<e>> \o s)[i] = IF i <= 1 THEN <<e>>[i] ELSE s[i - 1]
  BY <1>1, ConcatProperties
<1>4. (<<e>> \o s)[1] = e
  BY <1>1, <1>2, <1>3
<1>5. \A i \in 1..(Len(s) + 1) : i # 1 => i - 1 \in 1..Len(s) /\ (<<e>> \o s)[i] = s[i - 1]
  BY <1>2, <1>3
<1>6. \A i \in 1..Len(s) : (<<e>> \o s)[i + 1] = s[i]
  <2> TAKE i \in 1..Len(s)
  <2>1. i + 1 \in 1..(Len(s) + 1) /\ i + 1 # 1 /\ (i + 1) - 1 = i
    BY <1>2
  <2> QED BY <1>5, <2>1
<1> QED BY <1>2, <1>3, <1>4, <1>5, <1>6

\* Pushing an entry adds it to the table.
LEMMA PushMembers ==
    ASSUME NEW t \in Chains, Len(t) # 0, NEW e \in Entries
    PROVE  \A x : Member(Push(t, e), x) <=> Member(t, x) \/ x = e
<1>1. PICK k \in 1..Len(t) : k = Slot(e.key, Len(t))
  BY PushFacts
<1>2. PICK u : u = Push(t, e)
  OBVIOUS
<1>3. /\ Len(u) = Len(t)
      /\ \A h \in 1..Len(t) : u[h] = IF h = k THEN <<e>> \o t[h] ELSE t[h]
  BY <1>1, <1>2, PushFacts
<1>4. /\ Len(u[k]) = Len(t[k]) + 1 /\ u[k][1] = e /\ Len(t[k]) \in Nat
      /\ \A i \in 1..Len(t[k]) : u[k][i + 1] = t[k][i]
      /\ \A i \in 1..(Len(t[k]) + 1) : i # 1 => i - 1 \in 1..Len(t[k]) /\ u[k][i] = t[k][i - 1]
  <2>1. t[k] \in Seq(Entries)
    BY DEF Chains
  <2>2. u[k] = <<e>> \o t[k]
    BY <1>3
  <2> QED BY <2>1, <2>2, FrontFacts
<1>5. ASSUME NEW x, Member(u, x) PROVE Member(t, x) \/ x = e
  <2>1. PICK h \in 1..Len(t) : \E i \in 1..Len(u[h]) : u[h][i] = x
    BY <1>3, <1>5 DEF Member
  <2>a. PICK i \in 1..Len(u[h]) : u[h][i] = x
    BY <2>1
  <2>2. CASE h # k
    BY <1>3, <2>a, <2>2 DEF Member
  <2>3. CASE h = k /\ i = 1
    BY <1>4, <2>a, <2>3
  <2>4. CASE h = k /\ i # 1
    <3>1. i \in 1..(Len(t[k]) + 1) /\ i # 1
      BY <1>4, <2>a, <2>4
    <3>2. i - 1 \in 1..Len(t[k]) /\ t[k][i - 1] = x
      BY <1>4, <2>a, <2>4, <3>1
    <3> QED BY <3>2 DEF Member
  <2> QED BY <2>2, <2>3, <2>4
<1>6. ASSUME NEW x, Member(t, x) PROVE Member(u, x)
  <2>1. PICK h \in 1..Len(t) : \E i \in 1..Len(t[h]) : t[h][i] = x
    BY <1>6 DEF Member
  <2>a. PICK i \in 1..Len(t[h]) : t[h][i] = x
    BY <2>1
  <2>2. CASE h # k
    <3>1. u[h] = t[h]
      BY <1>3, <2>2
    <3> QED BY <1>3, <2>a, <3>1 DEF Member
  <2>3. CASE h = k
    <3>1. i + 1 \in 1..Len(u[k]) /\ u[k][i + 1] = x
      BY <1>4, <2>a, <2>3
    <3> QED BY <1>3, <3>1 DEF Member
  <2> QED BY <2>2, <2>3
<1>7. Member(u, e)
  <2>1. 1 \in 1..Len(u[k]) /\ u[k][1] = e
    BY <1>4
  <2> QED BY <1>3, <2>1 DEF Member
<1> QED BY <1>2, <1>5, <1>6, <1>7

\* A new key in front of its chain leaves every entry where it belongs.
LEMMA PushKeeps ==
    ASSUME NEW t \in Chains, Len(t) # 0, NEW e \in Entries, Slotted(t), Single(t),
           \A x : Member(t, x) => x.key # e.key
    PROVE  Slotted(Push(t, e)) /\ Single(Push(t, e))
<1>1. PICK k \in 1..Len(t) : k = Slot(e.key, Len(t))
  BY PushFacts
<1>2. PICK u : u = Push(t, e)
  OBVIOUS
<1>3. /\ Len(u) = Len(t)
      /\ \A h \in 1..Len(t) : u[h] = IF h = k THEN <<e>> \o t[h] ELSE t[h]
  BY <1>1, <1>2, PushFacts
<1>4. /\ Len(u[k]) = Len(t[k]) + 1 /\ u[k][1] = e /\ Len(t[k]) \in Nat
      /\ \A i \in 1..(Len(t[k]) + 1) : i # 1 => i - 1 \in 1..Len(t[k]) /\ u[k][i] = t[k][i - 1]
  <2>1. t[k] \in Seq(Entries)
    BY DEF Chains
  <2>2. u[k] = <<e>> \o t[k]
    BY <1>3
  <2> QED BY <2>1, <2>2, FrontFacts
<1>5. \A i \in 1..Len(t[k]) : t[k][i].key # e.key
  BY DEF Member
<1>6. ASSUME NEW h \in 1..Len(u), NEW i \in 1..Len(u[h])
      PROVE  Slot(u[h][i].key, Len(u)) = h
  <2>1. CASE h # k
    BY <1>3, <1>6, <2>1 DEF Slotted
  <2>2. CASE h = k /\ i = 1
    BY <1>1, <1>3, <1>4, <2>2
  <2>3. CASE h = k /\ i # 1
    <3>1. i - 1 \in 1..Len(t[k]) /\ u[k][i] = t[k][i - 1]
      BY <1>4, <1>6, <2>3
    <3> QED BY <1>3, <2>3, <3>1 DEF Slotted
  <2> QED BY <2>1, <2>2, <2>3
<1>7. ASSUME NEW h \in 1..Len(u), NEW i \in 1..Len(u[h]), NEW j \in 1..Len(u[h]),
             u[h][i].key = u[h][j].key
      PROVE  i = j
  <2>1. CASE h # k
    BY <1>3, <1>7, <2>1 DEF Single, Distinct
  <2>2. CASE h = k
    <3>1. i \in 1..(Len(t[k]) + 1) /\ j \in 1..(Len(t[k]) + 1) /\ u[k][i].key = u[k][j].key
      BY <1>4, <1>7, <2>2
    <3>2. CASE i = 1 \/ j = 1
      BY <1>4, <1>5, <3>1, <3>2
    <3>3. CASE i # 1 /\ j # 1
      <4>1. /\ i - 1 \in 1..Len(t[k]) /\ j - 1 \in 1..Len(t[k])
            /\ t[k][i - 1].key = t[k][j - 1].key
        BY <1>4, <3>1, <3>3
      <4>2. i - 1 = j - 1
        BY <4>1 DEF Single, Distinct
      <4> QED BY <3>1, <4>2
    <3> QED BY <3>2, <3>3
  <2> QED BY <2>1, <2>2
<1> QED BY <1>2, <1>6, <1>7 DEF Slotted, Single, Distinct

-----------------------------------------------------------------------------
(* dictEntries *)

\* The chains one after the other.
LEMMA FlattenRun ==
    ASSUME NEW t \in Chains, NEW n \in Nat \ {0}, Len(t) = n
    PROVE  \E f : /\ f[1] = t[1] /\ FlattenSeq(t) = f[n]
                  /\ \A i \in 1..n : f[i] \in Seq(Entries) /\ t[i] \in Seq(Entries)
                  /\ \A i \in 1..n : i # 1 => f[i] = f[i - 1] \o t[i]
<1>1. t \in Seq(Seq(Entries)) /\ Len(t) \in Nat \ {0}
  BY DEF Chains
<1>2. n = Len(t)
  OBVIOUS
<1> DEFINE S == Seq(Entries)
           F(p) == [i \in 1..n |-> IF i = 1 THEN t[i] ELSE p[i - 1] \o t[i]]
           flat == CHOOSE p : p = F(p)
           step == [i \in 1..n |-> [s \in S |-> s \o t[i]]]
<1>3. FlattenSeq(t) = flat[n]
  BY <1>1, <1>2 DEF FlattenSeq
<1>4. \A i \in 1..n : t[i] \in S
  BY <1>1, <1>2
<1>5. \E f \in [1..n -> S] : f = F(f)
  <2>1. step \in [1..n -> [S -> S]]
    BY <1>4
  <2>2. IsLoop(1, n, S, t[1], step)
    <3>1. 1 \in Nat /\ n \in Nat /\ 1 <= n /\ 1 \in 1..n
      BY <1>1, <1>2
    <3> HIDE DEF step, S
    <3> QED BY <1>4, <2>1, <3>1 DEF IsLoop
  <2>3. PICK f : IsRun(1, n, S, t[1], step, f)
    <3> HIDE DEF step, S
    <3> QED BY <2>2, Iterate
  <2>4. f \in [1..n -> S] /\ f = [i \in 1..n |-> IF i = 1 THEN t[1] ELSE step[i][f[i - 1]]]
    <3> HIDE DEF step, S
    <3> QED BY <2>3 DEF IsRun
  <2>5. \A i \in 1..n : i # 1 => step[i][f[i - 1]] = f[i - 1] \o t[i]
    <3> TAKE i \in 1..n
    <3> HAVE i # 1
    <3>1. i - 1 \in 1..n
      BY <1>1, <1>2
    <3>2. f[i - 1] \in S
      BY <2>4, <3>1
    <3> QED BY <3>2
  <2>6. f = F(f)
    <3> HIDE DEF step, S
    <3> QED BY <2>4, <2>5
  <2> QED BY <2>4, <2>6
<1>6. flat = F(flat)
  <2> HIDE DEF F
  <2> QED BY <1>5
<1>7. flat \in [1..n -> S]
  <2> DEFINE P == {i \in Nat : i + 1 <= n => flat[i + 1] \in S}
  <2>1. \A i \in 1..n : flat[i] = IF i = 1 THEN t[i] ELSE flat[i - 1] \o t[i]
    <3> HIDE DEF flat
    <3> QED BY <1>6
  <2> HIDE DEF flat
  <2>2. 0 \in P
    <3>1. 1 \in 1..n /\ 0 + 1 = 1
      BY <1>1, <1>2
    <3> QED BY <1>4, <2>1, <3>1
  <2>3. \A i \in Nat : i \in P => i + 1 \in P
    <3> SUFFICES ASSUME NEW i \in Nat, i \in P, (i + 1) + 1 <= n
                 PROVE  flat[(i + 1) + 1] \in S
      OBVIOUS
    <3>1. /\ (i + 1) + 1 \in 1..n /\ (i + 1) + 1 # 1 /\ ((i + 1) + 1) - 1 = i + 1
          /\ i + 1 <= n
      BY <1>1, <1>2
    <3>2. flat[(i + 1) + 1] = flat[i + 1] \o t[(i + 1) + 1]
      BY <2>1, <3>1
    <3>3. flat[i + 1] \in S /\ t[(i + 1) + 1] \in S
      BY <1>4, <3>1
    <3> QED BY <3>2, <3>3
  <2>4. \A i \in Nat : i \in P
    <3> HIDE DEF P
    <3> QED BY <2>2, <2>3, InductiveSet
  <2>5. ASSUME NEW i \in 1..n PROVE flat[i] \in S
    <3>1. i - 1 \in Nat /\ (i - 1) + 1 = i /\ i <= n
      BY <1>1, <1>2
    <3>2. i - 1 \in P
      BY <2>4, <3>1
    <3> QED BY <3>1, <3>2
  <2> QED BY <1>6, <2>5
<1>8. \A i \in 1..n : flat[i] = IF i = 1 THEN t[i] ELSE flat[i - 1] \o t[i]
  <2> HIDE DEF flat
  <2> QED BY <1>6
<1>9. 1 \in 1..n
  BY <1>1, <1>2
<1> HIDE DEF flat
<1>10. \A i \in 1..n : flat[i] \in Seq(Entries) /\ t[i] \in Seq(Entries)
  BY <1>4, <1>7
<1> HIDE DEF S
<1> QED BY <1>3, <1>8, <1>9, <1>10

\* The members of two sequences put together.
LEMMA ConcatContains ==
    ASSUME NEW S, NEW s \in Seq(S), NEW t \in Seq(S)
    PROVE  \A x : Contains(s \o t, x) <=> Contains(s, x) \/ Contains(t, x)
<1>1. /\ Len(s) \in Nat /\ Len(t) \in Nat /\ Len(s \o t) = Len(s) + Len(t)
      /\ \A i \in 1..(Len(s) + Len(t)) :
           (s \o t)[i] = IF i <= Len(s) THEN s[i] ELSE t[i - Len(s)]
  BY ConcatProperties
<1>2. ASSUME NEW x, Contains(s, x) PROVE Contains(s \o t, x)
  <2>1. PICK i \in 1..Len(s) : s[i] = x
    BY <1>2 DEF Contains
  <2>2. i \in 1..(Len(s) + Len(t)) /\ i <= Len(s)
    BY <1>1
  <2> QED BY <1>1, <2>1, <2>2 DEF Contains
<1>3. ASSUME NEW x, Contains(t, x) PROVE Contains(s \o t, x)
  <2>1. PICK i \in 1..Len(t) : t[i] = x
    BY <1>3 DEF Contains
  <2>2. PICK j : j = i + Len(s)
    OBVIOUS
  <2>3. j \in 1..(Len(s) + Len(t)) /\ ~(j <= Len(s)) /\ j - Len(s) = i
    BY <1>1, <2>2
  <2> QED BY <1>1, <2>1, <2>3 DEF Contains
<1>4. ASSUME NEW x, Contains(s \o t, x) PROVE Contains(s, x) \/ Contains(t, x)
  <2>1. PICK i \in 1..(Len(s) + Len(t)) : (s \o t)[i] = x
    BY <1>1, <1>4 DEF Contains
  <2>2. CASE i <= Len(s)
    <3>1. i \in 1..Len(s)
      BY <1>1, <2>2
    <3> QED BY <1>1, <2>1, <2>2, <3>1 DEF Contains
  <2>3. CASE ~(i <= Len(s))
    <3>1. i - Len(s) \in 1..Len(t)
      BY <1>1, <2>3
    <3> QED BY <1>1, <2>1, <2>3, <3>1 DEF Contains
  <2> QED BY <2>2, <2>3
<1> QED BY <1>2, <1>3, <1>4

\* No key is twice in two sequences without a common key.
LEMMA ConcatDistinct ==
    ASSUME NEW s \in Seq(Entries), NEW t \in Seq(Entries), Distinct(s), Distinct(t),
           \A x, y : Contains(s, x) /\ Contains(t, y) => x.key # y.key
    PROVE  Distinct(s \o t)
<1>1. /\ Len(s) \in Nat /\ Len(t) \in Nat /\ Len(s \o t) = Len(s) + Len(t)
      /\ \A i \in 1..(Len(s) + Len(t)) :
           (s \o t)[i] = IF i <= Len(s) THEN s[i] ELSE t[i - Len(s)]
  BY ConcatProperties
<1>2. \A i \in 1..Len(s), j \in 1..Len(t) : s[i].key # t[j].key
  BY DEF Contains
<1> SUFFICES ASSUME NEW i \in 1..(Len(s) + Len(t)), NEW j \in 1..(Len(s) + Len(t)),
                    (s \o t)[i].key = (s \o t)[j].key
             PROVE  i = j
  BY <1>1 DEF Distinct
<1>3. CASE i <= Len(s) /\ j <= Len(s)
  <2>1. i \in 1..Len(s) /\ j \in 1..Len(s) /\ s[i].key = s[j].key
    BY <1>1, <1>3
  <2> QED BY <2>1 DEF Distinct
<1>4. CASE ~(i <= Len(s)) /\ ~(j <= Len(s))
  <2>1. /\ i - Len(s) \in 1..Len(t) /\ j - Len(s) \in 1..Len(t)
        /\ t[i - Len(s)].key = t[j - Len(s)].key
    BY <1>1, <1>4
  <2>2. i - Len(s) = j - Len(s)
    BY <2>1 DEF Distinct
  <2> QED BY <1>1, <2>2
<1>5. CASE i <= Len(s) /\ ~(j <= Len(s))
  <2>1. i \in 1..Len(s) /\ j - Len(s) \in 1..Len(t) /\ s[i].key = t[j - Len(s)].key
    BY <1>1, <1>5
  <2> QED BY <1>2, <2>1
<1>6. CASE ~(i <= Len(s)) /\ j <= Len(s)
  <2>1. j \in 1..Len(s) /\ i - Len(s) \in 1..Len(t) /\ s[j].key = t[i - Len(s)].key
    BY <1>1, <1>6
  <2> QED BY <1>2, <2>1
<1> QED BY <1>3, <1>4, <1>5, <1>6

\* The iteration meets exactly the entries of the table.
LEMMA FlattenMembers ==
    ASSUME NEW t \in Chains
    PROVE  /\ FlattenSeq(t) \in Seq(Entries)
           /\ \A x : Contains(FlattenSeq(t), x) <=> Member(t, x)
<1>1. t \in Seq(Seq(Entries)) /\ Len(t) \in Nat
  BY DEF Chains
<1>2. CASE Len(t) = 0
  <2>1. t = << >> /\ FlattenSeq(t) = t
    BY <1>1, <1>2 DEF FlattenSeq
  <2>2. << >> \in Seq(Entries) /\ \A i : i \notin 1..Len(<< >>)
    OBVIOUS
  <2>3. \A x : ~Contains(<< >>, x) /\ ~Member(<< >>, x)
    BY <2>2 DEF Contains, Member
  <2> QED BY <2>1, <2>2, <2>3
<1>3. CASE Len(t) # 0
  <2>2. PICK n \in Nat \ {0} : n = Len(t)
    BY <1>1, <1>3
  <2>1. PICK f :
          /\ f[1] = t[1] /\ FlattenSeq(t) = f[n]
          /\ \A i \in 1..n : f[i] \in Seq(Entries) /\ t[i] \in Seq(Entries)
          /\ \A i \in 1..n : i # 1 => f[i] = f[i - 1] \o t[i]
    BY <2>2, FlattenRun
  <2>3. n \in Nat \ {0} /\ 1 \in 1..n /\ n \in 1..n
    BY <1>1, <1>3, <2>2
  <2> DEFINE P == {k \in Nat : \A x : Contains(f[k], x) <=> \E h \in 1..k : Contains(t[h], x)}
  <2>4. 1 \in P
    BY <2>1
  <2>5. \A k \in 1..n : k \in P /\ k + 1 \in 1..n => k + 1 \in P
    <3> SUFFICES ASSUME NEW k \in 1..n, k \in P, k + 1 \in 1..n
                 PROVE  k + 1 \in P
      OBVIOUS
    <3> SUFFICES ASSUME NEW x
                 PROVE  Contains(f[k + 1], x) <=> \E h \in 1..(k + 1) : Contains(t[h], x)
      OBVIOUS
    <3>1. f[k + 1] = f[k] \o t[k + 1]
      <4> HIDE DEF P
      <4>1. k + 1 # 1 /\ (k + 1) - 1 = k
        BY <2>2
      <4> QED BY <2>1, <2>2, <4>1
    <3>2. f[k] \in Seq(Entries) /\ t[k + 1] \in Seq(Entries)
      <4> HIDE DEF P
      <4> QED BY <2>1
    <3>3. Contains(f[k + 1], x) <=> Contains(f[k], x) \/ Contains(t[k + 1], x)
      BY <3>1, <3>2, ConcatContains
    <3>4. Contains(f[k], x) <=> \E h \in 1..k : Contains(t[h], x)
      OBVIOUS
    <3>5. 1..(k + 1) = (1..k) \cup {k + 1}
      OBVIOUS
    <3> QED BY <3>3, <3>4, <3>5
  <2>6. n \in P
    <3> HIDE DEF P
    <3> QED BY <2>3, <2>4, <2>5, InductiveRange
  <2>7. f[n] \in Seq(Entries)
    BY <2>1, <2>2, <2>3
  <2> QED BY <2>1, <2>2, <2>6, <2>7 DEF Contains, Member
<1> QED BY <1>2, <1>3

\* The iteration meets no key twice.
LEMMA FlattenDistinct ==
    ASSUME NEW t \in Chains, Slotted(t), Single(t)
    PROVE  Distinct(FlattenSeq(t))
<1>1. t \in Seq(Seq(Entries)) /\ Len(t) \in Nat
  BY DEF Chains
<1>2. CASE Len(t) = 0
  <2>1. t = << >> /\ FlattenSeq(t) = t
    BY <1>1, <1>2 DEF FlattenSeq
  <2> QED BY <1>2, <2>1 DEF Distinct
<1>3. CASE Len(t) # 0
  <2>2. PICK n \in Nat \ {0} : n = Len(t)
    BY <1>1, <1>3
  <2>1. PICK f :
          /\ f[1] = t[1] /\ FlattenSeq(t) = f[n]
          /\ \A i \in 1..n : f[i] \in Seq(Entries) /\ t[i] \in Seq(Entries)
          /\ \A i \in 1..n : i # 1 => f[i] = f[i - 1] \o t[i]
    BY <2>2, FlattenRun
  <2>3. n \in Nat \ {0} /\ 1 \in 1..n /\ n \in 1..n
    BY <1>1, <1>3, <2>2
  <2>4. \A h \in 1..n : \A x : Contains(t[h], x) => Slot(x.key, n) = h
    BY <2>2 DEF Slotted, Contains
  <2> DEFINE P == {k \in Nat : Distinct(f[k]) /\ \A x : Contains(f[k], x) => Slot(x.key, n) <= k}
  <2>5. 1 \in P
    <3>1. \A x : Contains(t[1], x) => Slot(x.key, n) <= 1
      BY <2>3, <2>4
    <3> QED BY <2>1, <2>2, <2>3, <3>1 DEF Single
  <2>6. \A k \in 1..n : k \in P /\ k + 1 \in 1..n => k + 1 \in P
    <3> SUFFICES ASSUME NEW k \in 1..n, k \in P, k + 1 \in 1..n
                 PROVE  k + 1 \in P
      OBVIOUS
    <3>1. f[k + 1] = f[k] \o t[k + 1]
      <4> HIDE DEF P
      <4>1. k + 1 # 1 /\ (k + 1) - 1 = k
        BY <2>2
      <4> QED BY <2>1, <2>2, <4>1
    <3>2. f[k] \in Seq(Entries) /\ t[k + 1] \in Seq(Entries)
      <4> HIDE DEF P
      <4> QED BY <2>1
    <3>3. \A x : Contains(f[k + 1], x) <=> Contains(f[k], x) \/ Contains(t[k + 1], x)
      BY <3>1, <3>2, ConcatContains
    <3>4. Distinct(f[k]) /\ \A x : Contains(f[k], x) => Slot(x.key, n) <= k
      OBVIOUS
    <3>5. \A x : Contains(t[k + 1], x) => Slot(x.key, n) = k + 1
      BY <2>4
    <3>6. ASSUME NEW x, NEW y, Contains(f[k], x), Contains(t[k + 1], y)
          PROVE  x.key # y.key
      <4>1. Slot(x.key, n) <= k /\ Slot(y.key, n) = k + 1
        BY <3>4, <3>5, <3>6
      <4> QED BY <4>1
    <3>7. Distinct(f[k + 1])
      <4>1. Distinct(t[k + 1])
        BY <2>2 DEF Single
      <4> QED BY <3>1, <3>2, <3>4, <3>6, <4>1, ConcatDistinct
    <3>8. ASSUME NEW x, Contains(f[k + 1], x) PROVE Slot(x.key, n) <= k + 1
      <4>1. CASE Contains(f[k], x)
        <5>1. Slot(x.key, n) <= k /\ Slot(x.key, n) \in Int
          <6>1. x \in Entries
            BY <3>2, <4>1 DEF Contains
          <6> QED BY <2>3, <3>4, <4>1, <6>1, SlotFacts DEF Entries
        <5> QED BY <5>1
      <4>2. CASE Contains(t[k + 1], x)
        BY <3>5, <4>2
      <4> QED BY <3>3, <3>8, <4>1, <4>2
    <3> QED BY <3>7, <3>8
  <2>7. n \in P
    <3> HIDE DEF P
    <3> QED BY <2>3, <2>5, <2>6, InductiveRange
  <2> QED BY <2>1, <2>2, <2>7
<1> QED BY <1>2, <1>3

\* One chain that grows or shrinks changes the number of entries as much.
LEMMA FlattenLength ==
    ASSUME NEW t \in Chains, NEW u \in Chains, Len(u) = Len(t), NEW c \in 1..Len(t),
           NEW d \in Int, Len(u[c]) = Len(t[c]) + d,
           \A h \in 1..Len(t) : h # c => Len(u[h]) = Len(t[h])
    PROVE  Len(FlattenSeq(u)) = Len(FlattenSeq(t)) + d
<1>1. t \in Seq(Seq(Entries)) /\ u \in Seq(Seq(Entries)) /\ Len(t) \in Nat /\ Len(t) # 0
  BY DEF Chains
<1>4. PICK n \in Nat \ {0} : n = Len(t)
  BY <1>1
<1>2. PICK f :
        /\ f[1] = t[1] /\ FlattenSeq(t) = f[n]
        /\ \A i \in 1..n : f[i] \in Seq(Entries) /\ t[i] \in Seq(Entries)
        /\ \A i \in 1..n : i # 1 => f[i] = f[i - 1] \o t[i]
  BY <1>4, FlattenRun
<1>3. PICK g :
        /\ g[1] = u[1] /\ FlattenSeq(u) = g[n]
        /\ \A i \in 1..n : g[i] \in Seq(Entries) /\ u[i] \in Seq(Entries)
        /\ \A i \in 1..n : i # 1 => g[i] = g[i - 1] \o u[i]
  <2>1. Len(u) = n
    BY <1>4
  <2> QED BY <2>1, FlattenRun
<1>5. n \in Nat \ {0} /\ 1 \in 1..n /\ n \in 1..n /\ c <= n
  BY <1>1, <1>4
<1>6. \A h \in 1..n : /\ Len(t[h]) \in Nat
                      /\ Len(u[h]) = Len(t[h]) + (IF h = c THEN d ELSE 0)
  <2> TAKE h \in 1..n
  <2>1. Len(t[h]) \in Nat
    BY <1>2
  <2>2. CASE h = c
    BY <2>1, <2>2
  <2>3. CASE h # c
    BY <1>4, <2>1, <2>3
  <2> QED BY <2>1, <2>2, <2>3
<1> DEFINE P == {k \in Nat : Len(g[k]) = Len(f[k]) + (IF c <= k THEN d ELSE 0)}
<1>7. 1 \in P
  <2>1. c <= 1 <=> 1 = c
    BY <1>1
  <2>2. Len(g[1]) = Len(f[1]) + (IF c <= 1 THEN d ELSE 0)
    BY <1>2, <1>3, <1>5, <1>6, <2>1
  <2> QED BY <2>2
<1>8. \A k \in 1..n : k \in P /\ k + 1 \in 1..n => k + 1 \in P
  <2> SUFFICES ASSUME NEW k \in 1..n, k \in P, k + 1 \in 1..n PROVE k + 1 \in P
    OBVIOUS
  <2>1. k + 1 # 1 /\ (k + 1) - 1 = k /\ k \in Nat /\ k + 1 \in Nat
    <3> HIDE DEF P
    <3> QED BY <1>4
  <2>2. f[k + 1] = f[k] \o t[k + 1] /\ g[k + 1] = g[k] \o u[k + 1]
    BY <1>2, <1>3, <1>4, <2>1
  <2>3. /\ f[k] \in Seq(Entries) /\ g[k] \in Seq(Entries)
        /\ t[k + 1] \in Seq(Entries) /\ u[k + 1] \in Seq(Entries)
    <3> HIDE DEF P
    <3> QED BY <1>2, <1>3
  <2>4. /\ Len(f[k + 1]) = Len(f[k]) + Len(t[k + 1])
        /\ Len(g[k + 1]) = Len(g[k]) + Len(u[k + 1])
        /\ Len(f[k]) \in Nat /\ Len(g[k]) \in Nat
    <3> HIDE DEF P
    <3> QED BY <2>2, <2>3
  <2>5. Len(u[k + 1]) = Len(t[k + 1]) + (IF k + 1 = c THEN d ELSE 0) /\ Len(t[k + 1]) \in Nat
    BY <1>6
  <2>6. Len(g[k]) = Len(f[k]) + (IF c <= k THEN d ELSE 0)
    OBVIOUS
  <2>7. Len(g[k + 1]) = Len(f[k + 1]) + (IF c <= k + 1 THEN d ELSE 0)
    <3>1. c \in Nat
      BY <1>1
    <3>5. PICK fk, gk, fl, gl, tl, ul :
            /\ fk = Len(f[k]) /\ gk = Len(g[k]) /\ fl = Len(f[k + 1]) /\ gl = Len(g[k + 1])
            /\ tl = Len(t[k + 1]) /\ ul = Len(u[k + 1])
      OBVIOUS
    <3> SUFFICES gl = fl + (IF c <= k + 1 THEN d ELSE 0)
      BY <3>5
    <3>6. /\ fl = fk + tl /\ gl = gk + ul /\ fk \in Nat /\ gk \in Nat /\ tl \in Nat
          /\ ul = tl + (IF k + 1 = c THEN d ELSE 0) /\ gk = fk + (IF c <= k THEN d ELSE 0)
      BY <2>4, <2>5, <2>6, <3>5
    <3> HIDE DEF P
    <3>2. CASE c <= k
      <4>1. c <= k + 1 /\ k + 1 # c
        BY <2>1, <3>1, <3>2
      <4> QED BY <3>6, <3>2, <4>1
    <3>3. CASE c = k + 1
      <4>1. c <= k + 1 /\ ~(c <= k)
        BY <2>1, <3>1, <3>3
      <4> QED BY <3>6, <3>3, <4>1
    <3>4. CASE c > k + 1
      <4>1. ~(c <= k + 1) /\ ~(c <= k) /\ k + 1 # c
        BY <2>1, <3>1, <3>4
      <4> QED BY <3>6, <4>1
    <3> QED BY <2>1, <3>1, <3>2, <3>3, <3>4
  <2> QED BY <2>1, <2>7
<1>9. n \in P
  <2> HIDE DEF P
  <2> QED BY <1>5, <1>7, <1>8, InductiveRange
<1> QED BY <1>2, <1>3, <1>4, <1>5, <1>9

\* Pushing an entry makes one more.
LEMMA PushLength ==
    ASSUME NEW t \in Chains, Len(t) # 0, NEW e \in Entries
    PROVE  Len(FlattenSeq(Push(t, e))) = Len(FlattenSeq(t)) + 1
<1>1. PICK u : u = Push(t, e)
  OBVIOUS
<1>2. PICK c \in 1..Len(t) : c = Slot(e.key, Len(t))
  BY PushFacts
<1>3. /\ u \in Chains /\ Len(u) = Len(t)
      /\ \A h \in 1..Len(t) : u[h] = IF h = c THEN <<e>> \o t[h] ELSE t[h]
  BY <1>1, <1>2, PushFacts
<1>4. Len(u[c]) = Len(t[c]) + 1
  <2>1. t[c] \in Seq(Entries)
    BY DEF Chains
  <2>2. u[c] = <<e>> \o t[c]
    BY <1>3
  <2> QED BY <2>1, <2>2, FrontFacts
<1>5. \A h \in 1..Len(t) : h # c => Len(u[h]) = Len(t[h])
  BY <1>3
<1>6. Len(FlattenSeq(u)) = Len(FlattenSeq(t)) + 1
  <2>1. 1 \in Int
    OBVIOUS
  <2> QED BY <1>3, <1>4, <1>5, <2>1, FlattenLength
<1> QED BY <1>1, <1>6

-----------------------------------------------------------------------------
(* The operations *)

Tables == [size : Nat, used : Nat, table : Chains]

\* A well-formed hash table.
Good(ht) ==
    /\ ht \in Tables /\ Len(ht.table) = ht.size
    /\ ht.used = Len(FlattenSeq(ht.table)) /\ ht.used <= ht.size
    /\ Slotted(ht.table) /\ Single(ht.table)

\* A table of empty chains.
LEMMA EmptyChains ==
    ASSUME NEW n \in Nat, NEW t, t = [h \in 1..n |-> << >>]
    PROVE  /\ t \in Chains /\ Len(t) = n /\ Slotted(t) /\ Single(t)
           /\ \A x : ~Member(t, x)
           /\ Len(FlattenSeq(t)) = 0
<1>1. << >> \in Seq(Entries) /\ \A i : i \notin 1..Len(<< >>)
  OBVIOUS
<1>2. t \in Chains /\ Len(t) = n /\ \A h \in 1..n : t[h] = << >>
  BY <1>1 DEF Chains
<1>3. Slotted(t) /\ Single(t) /\ \A x : ~Member(t, x)
  BY <1>1, <1>2 DEF Slotted, Single, Distinct, Member
<1>4. FlattenSeq(t) \in Seq(Entries) /\ \A x : ~Contains(FlattenSeq(t), x)
  BY <1>2, <1>3, FlattenMembers
<1>5. PICK s \in Seq(Entries) : s = FlattenSeq(t)
  BY <1>4
<1>6. ~Contains(s, s[1])
  BY <1>4, <1>5
<1>7. Len(s) = 0
  <2>1. Len(s) \in Nat /\ 1 \notin 1..Len(s)
    BY <1>6 DEF Contains
  <2> QED BY <2>1
<1> QED BY <1>2, <1>3, <1>5, <1>7

\* dictExpand keeps the entries.
LEMMA ExpandFacts ==
    ASSUME NEW ht, Good(ht), NEW size \in Nat, ht.used <= size
    PROVE  /\ Good(dictExpand(ht, size))
           /\ dictExpand(ht, size).used = ht.used
           /\ dictExpand(ht, size).size # 0 /\ dictExpand(ht, size).size >= size
           /\ \A x : Member(dictExpand(ht, size).table, x) <=> Member(ht.table, x)
<1>1. PICK n \in Nat \ {0} : n = dictNextPower(size) /\ n >= size
  BY NextPower
<1>2. PICK es \in Seq(Entries) : es = FlattenSeq(ht.table)
  BY FlattenMembers DEF Good, Tables
<1>3. /\ Distinct(es) /\ ht.used = Len(es) /\ ht.used \in Nat
      /\ \A x : Contains(es, x) <=> Member(ht.table, x)
  BY <1>2, FlattenDistinct, FlattenMembers DEF Good, Tables
<1>4. PICK m \in Nat : m = Len(es)
  OBVIOUS
<1> DEFINE S == {t \in Chains : Len(t) = n}
           empty == [h \in 1..n |-> << >>]
           F(p) == [i \in 0..m |-> IF i = 0 THEN empty ELSE Push(p[i - 1], es[i])]
           table == CHOOSE p : p = F(p)
           step == [i \in 0..m |-> [t \in S |-> IF i = 0 THEN t ELSE Push(t, es[i])]]
<1>5. dictExpand(ht, size) = [size |-> n, used |-> ht.used, table |-> table[m]]
  BY <1>1, <1>2, <1>4 DEF dictExpand, dictEntries
<1>6. empty \in S
  BY EmptyChains
<1>7. \A t \in S : \A i \in 1..m : Push(t, es[i]) \in S
  <2> TAKE t \in S
  <2> TAKE i \in 1..m
  <2>1. t \in Chains /\ Len(t) = n /\ Len(t) # 0 /\ es[i] \in Entries
    BY <1>4
  <2> QED BY <2>1, PushFacts
<1>8. \E f \in [0..m -> S] : f = F(f)
  <2>1. step \in [0..m -> [S -> S]]
    <3>1. \A i \in 0..m : i = 0 \/ i \in 1..m
      OBVIOUS
    <3> HIDE DEF S
    <3> QED BY <1>7, <3>1
  <2>2. IsLoop(0, m, S, empty, step)
    <3>1. 0 \in Nat /\ m \in Nat /\ 0 <= m
      OBVIOUS
    <3> HIDE DEF S, empty, step
    <3> QED BY <1>6, <2>1, <3>1 DEF IsLoop
  <2>3. PICK f : IsRun(0, m, S, empty, step, f)
    <3> HIDE DEF S, empty, step
    <3> QED BY <2>2, Iterate
  <2>4. f \in [0..m -> S] /\ f = [i \in 0..m |-> IF i = 0 THEN empty ELSE step[i][f[i - 1]]]
    <3> HIDE DEF S, empty, step
    <3> QED BY <2>3 DEF IsRun
  <2>5. \A i \in 0..m : i # 0 => step[i][f[i - 1]] = Push(f[i - 1], es[i])
    <3> TAKE i \in 0..m
    <3> HAVE i # 0
    <3>1. i - 1 \in 0..m
      OBVIOUS
    <3>2. f[i - 1] \in S
      <4> HIDE DEF S
      <4> QED BY <2>4, <3>1
    <3> HIDE DEF S
    <3> QED BY <3>2
  <2>6. f = F(f)
    <3> HIDE DEF S, empty, step
    <3> QED BY <2>4, <2>5
  <2> QED BY <2>4, <2>6
<1>9. table = F(table)
  <2> HIDE DEF F
  <2> QED BY <1>8
<1> DEFINE Q == {i \in Nat : i <= m =>
                   /\ table[i] \in S /\ Slotted(table[i]) /\ Single(table[i])
                   /\ \A x : Member(table[i], x) <=> \E p \in 1..i : es[p] = x
                   /\ Len(FlattenSeq(table[i])) = i}
<1>10. table[0] = empty /\ \A i \in 1..m : table[i] = Push(table[i - 1], es[i])
  <2> HIDE DEF table, empty
  <2>1. 0 \in 0..m /\ \A i \in 1..m : i \in 0..m /\ i # 0
    OBVIOUS
  <2> QED BY <1>9, <2>1
<1>11. 0 \in Q
  <2> HIDE DEF table
  <2>1. \A p : p \notin 1..0
    OBVIOUS
  <2>2. /\ Slotted(empty) /\ Single(empty) /\ \A x : ~Member(empty, x)
        /\ Len(FlattenSeq(empty)) = 0
    BY EmptyChains
  <2> HIDE DEF empty, S
  <2> QED BY <1>6, <1>10, <2>1, <2>2
<1>12. \A i \in Nat : i \in Q => i + 1 \in Q
  <2> SUFFICES ASSUME NEW i \in Nat, i \in Q PROVE i + 1 \in Q
    OBVIOUS
  <2> SUFFICES ASSUME i + 1 <= m
               PROVE  /\ table[i + 1] \in S /\ Slotted(table[i + 1]) /\ Single(table[i + 1])
                      /\ \A x : Member(table[i + 1], x) <=> \E p \in 1..(i + 1) : es[p] = x
                      /\ Len(FlattenSeq(table[i + 1])) = i + 1
    <3> HIDE DEF table, S
    <3> QED OBVIOUS
  <2> HIDE DEF table, empty
  <2>1. i <= m /\ i + 1 \in 1..m /\ (i + 1) - 1 = i
    OBVIOUS
  <2>2. PICK t : t = table[i]
    OBVIOUS
  <2>3. /\ t \in S /\ Slotted(t) /\ Single(t)
        /\ \A x : Member(t, x) <=> \E p \in 1..i : es[p] = x
        /\ Len(FlattenSeq(t)) = i
    <3> HIDE DEF S
    <3> QED BY <2>1, <2>2
  <2> HIDE DEF Q
  <2>4. PICK e \in Entries : e = es[i + 1]
    BY <1>4, <2>1
  <2>5. table[i + 1] = Push(t, e)
    BY <1>10, <2>1, <2>2, <2>4
  <2>6. t \in Chains /\ Len(t) = n /\ Len(t) # 0
    BY <2>3
  <2>7. \A x : Member(t, x) => x.key # e.key
    <3> SUFFICES ASSUME NEW p \in 1..i, es[p].key = es[i + 1].key PROVE FALSE
      BY <2>3, <2>4
    <3>1. p \in 1..Len(es) /\ i + 1 \in 1..Len(es) /\ p # i + 1
      BY <1>4, <2>1
    <3> QED BY <1>3, <3>1 DEF Distinct
  <2>8. Slotted(Push(t, e)) /\ Single(Push(t, e))
    BY <2>3, <2>6, <2>7, PushKeeps
  <2>9. Push(t, e) \in S
    BY <1>7, <2>1, <2>3, <2>4
  <2>10. \A x : Member(Push(t, e), x) <=> \E p \in 1..(i + 1) : es[p] = x
    <3>1. \A x : Member(Push(t, e), x) <=> Member(t, x) \/ x = e
      BY <2>6, PushMembers
    <3>2. 1..(i + 1) = (1..i) \cup {i + 1}
      OBVIOUS
    <3> QED BY <2>3, <2>4, <3>1, <3>2
  <2>11. Len(FlattenSeq(Push(t, e))) = Len(FlattenSeq(t)) + 1
    BY <2>6, PushLength
  <2> HIDE DEF S
  <2> QED BY <2>3, <2>5, <2>8, <2>9, <2>10, <2>11
<1>13. m \in Q
  <2> HIDE DEF Q
  <2> QED BY <1>11, <1>12, InductiveSet
<1>14. PICK t : t = table[m]
  OBVIOUS
<1>15. /\ t \in Chains /\ Len(t) = n /\ Slotted(t) /\ Single(t)
       /\ \A x : Member(t, x) <=> \E p \in 1..m : es[p] = x
       /\ Len(FlattenSeq(t)) = m
  <2> HIDE DEF table
  <2> QED BY <1>13, <1>14
<1>16. dictExpand(ht, size) = [size |-> n, used |-> ht.used, table |-> t]
  <2> HIDE DEF table
  <2> QED BY <1>5, <1>14
<1>17. PICK new : new = dictExpand(ht, size)
  OBVIOUS
<1>18. new.size = n /\ new.used = ht.used /\ new.table = t /\ new \in Tables
  BY <1>3, <1>15, <1>16, <1>17 DEF Tables
<1>19. ht.used <= n
  BY <1>1, <1>3
<1>20. Good(new)
  BY <1>3, <1>4, <1>15, <1>18, <1>19 DEF Good
<1>21. \A x : Member(t, x) <=> Member(ht.table, x)
  BY <1>3, <1>4, <1>15 DEF Contains
<1> QED BY <1>1, <1>17, <1>18, <1>20, <1>21

\* Two entries of a table with the same key are the same entry.
LEMMA MemberUnique ==
    ASSUME NEW ht, Good(ht), NEW x, NEW y, Member(ht.table, x), Member(ht.table, y),
           x.key = y.key
    PROVE  x = y
<1>1. PICK t : t = ht.table
  OBVIOUS
<1>2. Slotted(t) /\ Single(t) /\ Member(t, x) /\ Member(t, y)
  BY <1>1 DEF Good
<1>3. PICK h \in 1..Len(t) : \E i \in 1..Len(t[h]) : t[h][i] = x
  BY <1>2 DEF Member
<1>4. PICK g \in 1..Len(t) : \E i \in 1..Len(t[g]) : t[g][i] = y
  BY <1>2 DEF Member
<1>5. h = Slot(x.key, Len(t)) /\ g = Slot(y.key, Len(t))
  BY <1>2, <1>3, <1>4 DEF Slotted
<1> QED BY <1>2, <1>3, <1>4, <1>5 DEF Single, Distinct

\* The chain of a key.
LEMMA BucketFacts ==
    ASSUME NEW ht, Good(ht), NEW key \in Nat
    PROVE  /\ Bucket(ht, key) \in Seq(Entries)
           /\ ht.size # 0 => /\ Slot(key, ht.size) \in 1..Len(ht.table)
                             /\ Bucket(ht, key) = ht.table[Slot(key, ht.size)]
<1>1. ht.table \in Seq(Seq(Entries)) /\ ht.size \in Nat /\ Len(ht.table) = ht.size
  BY DEF Good, Tables, Chains
<1>2. CASE ht.size = 0
  <2>1. << >> \in Seq(Entries)
    OBVIOUS
  <2> QED BY <1>2, <2>1 DEF Bucket
<1>3. CASE ht.size # 0
  <2>1. Slot(key, ht.size) \in 1..Len(ht.table)
    BY <1>1, <1>3, SlotFacts
  <2> QED BY <1>1, <1>3, <2>1 DEF Bucket
<1> QED BY <1>2, <1>3

\* dictHas and dictFind look the key up among the entries.
LEMMA HasFacts ==
    ASSUME NEW ht, Good(ht), NEW key \in Nat
    PROVE  /\ dictHas(ht, key) <=> \E x : Member(ht.table, x) /\ x.key = key
           /\ dictHas(ht, key) =>
                /\ dictFind(ht, key) \in Nat
                /\ Member(ht.table, [key |-> key, val |-> dictFind(ht, key)])
                /\ ht.size # 0
                /\ Place(ht, key) \in 1..Len(Bucket(ht, key))
                /\ Bucket(ht, key)[Place(ht, key)].key = key
<1>1. PICK s \in Seq(Entries) : s = Bucket(ht, key)
  BY BucketFacts
<1>2. PICK p : p = Place(ht, key)
  OBVIOUS
<1>3. /\ p \in 0..Len(s) /\ (p # 0 => s[p].key = key) /\ Len(s) \in Nat
      /\ (\E i \in 1..Len(s) : s[i].key = key) => p # 0
  BY <1>1, <1>2, PlaceFacts
<1>4. ASSUME p # 0
      PROVE  /\ dictFind(ht, key) \in Nat
             /\ Member(ht.table, [key |-> key, val |-> dictFind(ht, key)])
             /\ ht.size # 0 /\ p \in 1..Len(s) /\ s[p].key = key
  <2>1. p \in 1..Len(s) /\ s[p].key = key
    BY <1>3, <1>4
  <2>2. ht.size # 0
    BY <1>1, <2>1 DEF Bucket
  <2>3. Slot(key, ht.size) \in 1..Len(ht.table) /\ s = ht.table[Slot(key, ht.size)]
    BY <1>1, <2>2, BucketFacts
  <2>4. s[p] \in Entries /\ dictFind(ht, key) = s[p].val
    BY <1>1, <1>2, <2>1 DEF dictFind
  <2>5. s[p] = [key |-> key, val |-> dictFind(ht, key)] /\ dictFind(ht, key) \in Nat
    BY <2>1, <2>4 DEF Entries
  <2> QED BY <2>1, <2>2, <2>3, <2>5 DEF Member
<1>5. ASSUME NEW x, Member(ht.table, x), x.key = key PROVE p # 0
  <2>1. PICK h \in 1..Len(ht.table) : \E i \in 1..Len(ht.table[h]) : ht.table[h][i] = x
    BY <1>5 DEF Member
  <2>2. Slot(key, ht.size) = h /\ Len(ht.table) = ht.size /\ ht.size \in Nat
    BY <1>5, <2>1 DEF Good, Slotted, Tables
  <2>3. ht.size # 0
    BY <2>1, <2>2
  <2>4. s = ht.table[h]
    BY <1>1, <2>2, <2>3, BucketFacts
  <2> QED BY <1>3, <1>5, <2>1, <2>4
<1>6. dictHas(ht, key) <=> p # 0
  BY <1>2 DEF dictHas
<1>7. p # 0 => \E x : Member(ht.table, x) /\ x.key = key
  <2>1. [key |-> key, val |-> dictFind(ht, key)].key = key
    OBVIOUS
  <2> QED BY <1>4, <2>1
<1> QED BY <1>1, <1>2, <1>4, <1>5, <1>6, <1>7

\* What is found is the entry with that key.
LEMMA FindFacts ==
    ASSUME NEW ht, Good(ht), NEW x \in Entries, Member(ht.table, x)
    PROVE  dictHas(ht, x.key) /\ dictFind(ht, x.key) = x.val
<1>1. x.key \in Nat
  BY DEF Entries
<1>2. dictHas(ht, x.key)
  BY <1>1, HasFacts
<1>3. PICK y : y = [key |-> x.key, val |-> dictFind(ht, x.key)]
  OBVIOUS
<1>4. Member(ht.table, y) /\ y.key = x.key
  BY <1>1, <1>2, <1>3, HasFacts
<1>5. x = y
  BY <1>4, MemberUnique
<1> QED BY <1>2, <1>3, <1>5

\* An empty table.
LEMMA CreateFacts ==
    /\ Good(dictCreate)
    /\ \A x : ~Member(dictCreate.table, x)
<1>1. << >> = [h \in 1..0 |-> << >>]
  OBVIOUS
<1>2. /\ << >> \in Chains /\ Len(<< >>) = 0 /\ Slotted(<< >>) /\ Single(<< >>)
      /\ \A x : ~Member(<< >>, x)
      /\ Len(FlattenSeq(<< >>)) = 0
  <2>1. 0 \in Nat
    OBVIOUS
  <2> QED BY <1>1, <2>1, EmptyChains
<1>3. dictCreate.size = 0 /\ dictCreate.used = 0 /\ dictCreate.table = << >> /\ dictCreate \in Tables
  BY <1>2 DEF dictCreate, Tables
<1> QED BY <1>2, <1>3 DEF Good

\* There is always room for one more.
LEMMA ExpandIfNeededFacts ==
    ASSUME NEW ht, Good(ht)
    PROVE  /\ Good(dictExpandIfNeeded(ht))
           /\ dictExpandIfNeeded(ht).used < dictExpandIfNeeded(ht).size
           /\ \A x : Member(dictExpandIfNeeded(ht).table, x) <=> Member(ht.table, x)
<1>1. ht.size \in Nat /\ ht.used \in Nat /\ ht.used <= ht.size
  BY DEF Good, Tables
<1>2. CASE ht.size = 0
  <2>1. dictExpandIfNeeded(ht) = dictExpand(ht, DICT_HT_INITIAL_SIZE)
    BY <1>2 DEF dictExpandIfNeeded
  <2>2. DICT_HT_INITIAL_SIZE \in Nat /\ ht.used = 0 /\ ht.used <= DICT_HT_INITIAL_SIZE
    BY <1>1, <1>2, InitialSizeAssumption
  <2>3. PICK big : big = dictExpand(ht, DICT_HT_INITIAL_SIZE)
    OBVIOUS
  <2>4. /\ Good(big) /\ big.used = 0 /\ big.size # 0
        /\ \A x : Member(big.table, x) <=> Member(ht.table, x)
    BY <2>2, <2>3, ExpandFacts
  <2>5. big.used < big.size
    <3>1. big.size \in Nat
      BY <2>4 DEF Good, Tables
    <3> QED BY <2>4, <3>1
  <2> QED BY <2>1, <2>3, <2>4, <2>5
<1>3. CASE ht.size # 0 /\ ht.used = ht.size
  <2>1. dictExpandIfNeeded(ht) = dictExpand(ht, ht.size * 2)
    BY <1>3 DEF dictExpandIfNeeded
  <2>2. PICK size \in Nat : size = ht.size * 2 /\ ht.used < size
    BY <1>1, <1>3
  <2>3. PICK big : big = dictExpand(ht, size)
    OBVIOUS
  <2>4. ht.used <= size
    BY <1>1, <2>2
  <2>5. /\ Good(big) /\ big.used = ht.used /\ big.size >= size
        /\ \A x : Member(big.table, x) <=> Member(ht.table, x)
    BY <2>3, <2>4, ExpandFacts
  <2>6. big.used < big.size
    <3>1. big.size \in Nat
      BY <2>5 DEF Good, Tables
    <3> QED BY <1>1, <2>2, <2>5, <3>1
  <2> QED BY <2>1, <2>2, <2>3, <2>5, <2>6
<1>4. CASE ht.size # 0 /\ ht.used # ht.size
  <2>1. dictExpandIfNeeded(ht) = ht
    BY <1>4 DEF dictExpandIfNeeded
  <2>2. ht.used < ht.size
    BY <1>1, <1>4
  <2> QED BY <2>1, <2>2
<1> QED BY <1>2, <1>3, <1>4

\* dictAdd keeps every entry, and afterwards the key is there.
LEMMA AddFacts ==
    ASSUME NEW ht, Good(ht), NEW key \in Nat, NEW val \in Nat
    PROVE  /\ Good(dictAdd(ht, key, val)) /\ dictHas(dictAdd(ht, key, val), key)
           /\ \A x : Member(dictAdd(ht, key, val).table, x) /\ x.key # key
                       <=> Member(ht.table, x) /\ x.key # key
<1>1. PICK big : big = dictExpandIfNeeded(ht)
  OBVIOUS
<1>2. /\ Good(big) /\ big.used < big.size
      /\ \A x : Member(big.table, x) <=> Member(ht.table, x)
  BY <1>1, ExpandIfNeededFacts
<1>3. CASE dictHas(big, key)
  <2>1. dictAdd(ht, key, val) = big
    BY <1>1, <1>3 DEF dictAdd
  <2> QED BY <1>2, <1>3, <2>1
<1>4. CASE ~dictHas(big, key)
  <2>1. PICK e \in Entries : e = [key |-> key, val |-> val]
    BY DEF Entries
  <2>2. PICK t \in Chains : t = big.table
    BY <1>2 DEF Good, Tables
  <2>3. /\ Len(t) = big.size /\ big.size \in Nat /\ big.used \in Nat /\ Len(t) # 0
        /\ Slotted(t) /\ Single(t) /\ big.used = Len(FlattenSeq(t))
    BY <1>2, <2>2 DEF Good, Tables
  <2>4. \A x : Member(t, x) => x.key # e.key
    BY <1>2, <1>4, <2>1, <2>2, HasFacts
  <2>5. PICK u : u = Push(t, e)
    OBVIOUS
  <2>6. u \in Chains /\ Len(u) = Len(t) /\ Slotted(u) /\ Single(u)
    BY <2>3, <2>4, <2>5, PushFacts, PushKeeps
  <2>7. Len(FlattenSeq(u)) = big.used + 1
    BY <2>3, <2>5, PushLength
  <2>8. \A x : Member(u, x) <=> Member(t, x) \/ x = e
    BY <2>3, <2>5, PushMembers
  <2>9. PICK new : new = dictAdd(ht, key, val)
    OBVIOUS
  <2>10. new = [big EXCEPT !.used = @ + 1, !.table = Push(@, [key |-> key, val |-> val])]
    BY <1>1, <1>4, <2>9 DEF dictAdd
  <2>11. big \in Tables
    BY <1>2 DEF Good
  <2>12. new.size = big.size /\ new.used = big.used + 1 /\ new.table = u
    BY <2>1, <2>2, <2>5, <2>10, <2>11 DEF Tables
  <2>13. new \in Tables
    <3>1. new = [big EXCEPT !.used = big.used + 1, !.table = u]
      BY <2>1, <2>2, <2>5, <2>10
    <3>2. big.used + 1 \in Nat
      BY <2>3
    <3> QED BY <2>6, <2>11, <3>1, <3>2 DEF Tables
  <2>14. big.used + 1 <= big.size
    BY <1>2, <2>3
  <2>15. Good(new)
    BY <2>3, <2>6, <2>7, <2>12, <2>13, <2>14 DEF Good
  <2>16. dictHas(new, key)
    <3>1. Member(new.table, e) /\ e.key = key
      BY <2>1, <2>8, <2>12
    <3> QED BY <2>15, <3>1, HasFacts
  <2>17. \A x : Member(new.table, x) /\ x.key # key <=> Member(ht.table, x) /\ x.key # key
    BY <1>2, <2>1, <2>2, <2>8, <2>12
  <2> QED BY <2>9, <2>15, <2>16, <2>17
<1> QED BY <1>3, <1>4

\* What putting another chain in place of one does.
LEMMA ChainFacts ==
    ASSUME NEW t \in Chains, NEW c \in 1..Len(t), NEW s \in Seq(Entries)
    PROVE  \E u : /\ u = [t EXCEPT ![c] = s] /\ u \in Chains /\ Len(u) = Len(t)
                  /\ \A h \in 1..Len(t) : u[h] = IF h = c THEN s ELSE t[h]
                  /\ \A x : Member(u, x) <=>
                       \/ Contains(s, x)
                       \/ \E h \in 1..Len(t) : h # c /\ Contains(t[h], x)
<1>1. t \in Seq(Seq(Entries))
  BY DEF Chains
<1>2. PICK u : u = [t EXCEPT ![c] = s]
  OBVIOUS
<1>3. u \in Chains /\ Len(u) = Len(t) /\ \A h \in 1..Len(t) : u[h] = IF h = c THEN s ELSE t[h]
  BY <1>1, <1>2 DEF Chains
<1>4. \A x : Member(u, x) <=> \E h \in 1..Len(t) : Contains(u[h], x)
  BY <1>3 DEF Member, Contains
<1>5. \A x : Member(u, x) <=>
        \/ Contains(s, x)
        \/ \E h \in 1..Len(t) : h # c /\ Contains(t[h], x)
  BY <1>3, <1>4
<1> QED BY <1>2, <1>3, <1>5

\* dictReplace gives the key this value and changes no other entry.
LEMMA ReplaceFacts ==
    ASSUME NEW ht, Good(ht), NEW key \in Nat, NEW val \in Nat
    PROVE  /\ Good(dictReplace(ht, key, val))
           /\ \A x : Member(dictReplace(ht, key, val).table, x) <=>
                       \/ x = [key |-> key, val |-> val]
                       \/ (Member(ht.table, x) /\ x.key # key)
<1>1. PICK old : old = dictAdd(ht, key, val)
  OBVIOUS
<1>2. /\ Good(old) /\ dictHas(old, key)
      /\ \A x : Member(old.table, x) /\ x.key # key <=> Member(ht.table, x) /\ x.key # key
  BY <1>1, AddFacts
<1>3. PICK t \in Chains : t = old.table
  BY <1>2 DEF Good, Tables
<1>4. PICK c : c = Slot(key, old.size)
  OBVIOUS
<1>5. PICK p : p = Place(old, key)
  OBVIOUS
<1>6. /\ c \in 1..Len(t) /\ t[c] \in Seq(Entries) /\ Bucket(old, key) = t[c]
      /\ p \in 1..Len(t[c]) /\ t[c][p].key = key
  <2>1. /\ old.size # 0 /\ p \in 1..Len(Bucket(old, key))
        /\ Bucket(old, key)[p].key = key
    BY <1>2, <1>5, HasFacts
  <2>2. Bucket(old, key) \in Seq(Entries) /\ c \in 1..Len(t) /\ Bucket(old, key) = t[c]
    BY <1>2, <1>3, <1>4, <2>1, BucketFacts
  <2> QED BY <2>1, <2>2
<1>7. PICK s : s = [t[c] EXCEPT ![p].val = val]
  OBVIOUS
<1>8. t[c][p] \in Entries
  BY <1>6
<1>9. [t[c][p] EXCEPT !.val = val] = [key |-> key, val |-> val]
  BY <1>6, <1>8, SMTT(60) DEF Entries
<1>10. PICK e \in Entries : e = [key |-> key, val |-> val]
  BY DEF Entries
<1>11. s = [t[c] EXCEPT ![p] = e]
  BY <1>7, <1>9, <1>10
<1>12. /\ s \in Seq(Entries) /\ Len(s) = Len(t[c])
       /\ \A i \in 1..Len(t[c]) : s[i] = IF i = p THEN e ELSE t[c][i]
  BY <1>6, <1>11
<1>14. PICK u :
         /\ u = [t EXCEPT ![c] = s] /\ u \in Chains /\ Len(u) = Len(t)
         /\ \A h \in 1..Len(t) : u[h] = IF h = c THEN s ELSE t[h]
         /\ \A x : Member(u, x) <=>
              \/ Contains(s, x)
              \/ \E h \in 1..Len(t) : h # c /\ Contains(t[h], x)
  BY <1>6, <1>12, ChainFacts
<1>15. PICK new : new = dictReplace(ht, key, val)
  OBVIOUS
<1>16. new = [old EXCEPT !.table[c][p].val = val]
  BY <1>1, <1>4, <1>5, <1>15 DEF dictReplace
<1>17. old \in Tables
  BY <1>2 DEF Good
<1>18. new.table = u /\ new.size = old.size /\ new.used = old.used
  BY <1>3, <1>7, <1>14, <1>16, <1>17 DEF Tables
<1>19. new \in Tables
  BY <1>3, <1>7, <1>14, <1>16, <1>17 DEF Tables
<1>20. Slotted(t) /\ Single(t)
  BY <1>2, <1>3 DEF Good
<1>21. \A i \in 1..Len(t[c]) : s[i].key = t[c][i].key
  BY <1>6, <1>10, <1>12
<1>22. Slotted(u)
  BY <1>12, <1>14, <1>20, <1>21 DEF Slotted
<1>23. Single(u)
  BY <1>12, <1>14, <1>20, <1>21 DEF Single, Distinct
<1>24. Len(FlattenSeq(u)) = Len(FlattenSeq(t))
  <2>1. FlattenSeq(t) \in Seq(Entries)
    BY FlattenMembers
  <2>2. /\ 0 \in Int /\ Len(t[c]) \in Nat /\ Len(FlattenSeq(t)) \in Nat
    BY <1>6, <2>1
  <2>3. Len(u[c]) = Len(t[c]) + 0 /\ \A h \in 1..Len(t) : h # c => Len(u[h]) = Len(t[h])
    BY <1>6, <1>12, <1>14, <2>2
  <2>4. Len(FlattenSeq(u)) = Len(FlattenSeq(t)) + 0
    BY <1>6, <1>14, <2>2, <2>3, FlattenLength
  <2> QED BY <2>2, <2>4
<1>25. Good(new)
  BY <1>2, <1>3, <1>14, <1>18, <1>19, <1>22, <1>23, <1>24 DEF Good
<1>26. \A x : Member(t, x) <=> \E h \in 1..Len(t) : Contains(t[h], x)
  BY DEF Member, Contains
<1>27. ASSUME NEW x, Member(u, x) PROVE x = e \/ (Member(ht.table, x) /\ x.key # key)
  <2>1. CASE Contains(s, x)
    <3>1. PICK i \in 1..Len(t[c]) : s[i] = x
      BY <1>12, <2>1 DEF Contains
    <3>2. CASE i = p
      BY <1>6, <1>12, <3>1, <3>2
    <3>3. CASE i # p
      <4>1. x = t[c][i]
        BY <1>12, <3>1, <3>3
      <4>2. x.key # key
        BY <1>6, <1>20, <3>1, <3>3, <4>1 DEF Single, Distinct
      <4>3. Member(t, x)
        BY <1>6, <3>1, <4>1 DEF Member
      <4> QED BY <1>2, <1>3, <4>2, <4>3
    <3> QED BY <3>2, <3>3
  <2>2. CASE \E h \in 1..Len(t) : h # c /\ Contains(t[h], x)
    <3>1. PICK h \in 1..Len(t) : h # c /\ Contains(t[h], x)
      BY <2>2
    <3>2. Slot(x.key, Len(t)) = h
      BY <1>20, <3>1 DEF Slotted, Contains
    <3>3. Len(t) = old.size
      BY <1>2, <1>3 DEF Good
    <3>4. x.key # key /\ Member(t, x)
      BY <1>4, <1>26, <3>1, <3>2, <3>3
    <3> QED BY <1>2, <1>3, <3>4
  <2> QED BY <1>14, <1>27, <2>1, <2>2
<1>28. Member(u, e)
  <2>1. Contains(s, e)
    BY <1>6, <1>12 DEF Contains
  <2> QED BY <1>14, <2>1
<1>29. ASSUME NEW x, Member(ht.table, x), x.key # key PROVE Member(u, x)
  <2>1. Member(t, x)
    BY <1>2, <1>3, <1>29
  <2>2. PICK h \in 1..Len(t) : Contains(t[h], x)
    BY <1>26, <2>1
  <2>3. CASE h # c
    BY <1>14, <2>2, <2>3
  <2>4. CASE h = c
    <3>1. PICK i \in 1..Len(t[c]) : t[c][i] = x
      BY <2>2, <2>4 DEF Contains
    <3>2. i # p
      BY <1>6, <1>29, <3>1
    <3>3. Contains(s, x)
      BY <1>12, <3>1, <3>2 DEF Contains
    <3> QED BY <1>14, <3>3
  <2> QED BY <2>3, <2>4
<1> QED BY <1>10, <1>15, <1>18, <1>25, <1>27, <1>28, <1>29

\* A chain without the entry at p.
LEMMA RemoveAtFacts ==
    ASSUME NEW s \in Seq(Entries), NEW p \in 1..Len(s)
    PROVE  /\ RemoveAt(s, p) \in Seq(Entries) /\ Len(RemoveAt(s, p)) = Len(s) - 1
           /\ \A i \in 1..(Len(s) - 1) :
                RemoveAt(s, p)[i] = IF i < p THEN s[i] ELSE s[i + 1]
<1>1. PICK n \in Nat : n = Len(s)
  OBVIOUS
<1>2. p - 1 \in Nat /\ 1 \in Int /\ p - 1 \in Int /\ p + 1 \in Int /\ n \in Int /\ p <= n /\ p \in Int
  BY <1>1
<1>3. PICK a : a = SubSeq(s, 1, p - 1)
  OBVIOUS
<1>4. PICK b : b = SubSeq(s, p + 1, n)
  OBVIOUS
<1>5. \A i \in 1..(p - 1) : s[i] \in Entries
  BY <1>1, <1>2
<1>6. \A i \in (p + 1)..n : s[i] \in Entries
  BY <1>1, <1>2
<1>7. /\ a \in Seq(Entries) /\ Len(a) = IF 1 <= p - 1 THEN (p - 1) - 1 + 1 ELSE 0
      /\ \A i \in 1..((p - 1) - 1 + 1) : a[i] = s[1 + i - 1]
  BY <1>2, <1>3, <1>5, SubSeqProperties
<1>8. /\ b \in Seq(Entries) /\ Len(b) = IF p + 1 <= n THEN n - (p + 1) + 1 ELSE 0
      /\ \A i \in 1..(n - (p + 1) + 1) : b[i] = s[p + 1 + i - 1]
  BY <1>2, <1>4, <1>6, SubSeqProperties
<1>9. Len(a) = p - 1 /\ Len(b) = n - p
  BY <1>2, <1>7, <1>8
<1>10. \A i \in 1..(p - 1) : a[i] = s[i]
  <2> TAKE i \in 1..(p - 1)
  <2>1. i \in 1..((p - 1) - 1 + 1) /\ 1 + i - 1 = i
    BY <1>2
  <2> QED BY <1>7, <2>1
<1>11. \A i \in 1..(n - p) : b[i] = s[p + i]
  <2> TAKE i \in 1..(n - p)
  <2>1. i \in 1..(n - (p + 1) + 1) /\ p + 1 + i - 1 = p + i
    BY <1>2
  <2> QED BY <1>8, <2>1
<1>12. PICK r : r = RemoveAt(s, p)
  OBVIOUS
<1>13. r = a \o b
  BY <1>1, <1>3, <1>4, <1>12 DEF RemoveAt
<1>14. /\ r \in Seq(Entries) /\ Len(r) = Len(a) + Len(b)
       /\ \A i \in 1..(Len(a) + Len(b)) : r[i] = IF i <= Len(a) THEN a[i] ELSE b[i - Len(a)]
  BY <1>7, <1>8, <1>13, ConcatProperties
<1>15. Len(a) + Len(b) = n - 1
  BY <1>2, <1>9
<1>16. ASSUME NEW i \in 1..(n - 1) PROVE r[i] = IF i < p THEN s[i] ELSE s[i + 1]
  <2>1. CASE i < p
    <3>1. i <= Len(a) /\ i \in 1..(p - 1)
      BY <1>2, <1>9, <2>1
    <3> QED BY <1>10, <1>14, <1>15, <2>1, <3>1
  <2>2. CASE ~(i < p)
    <3>1. ~(i <= Len(a)) /\ i - Len(a) \in 1..(n - p) /\ p + (i - Len(a)) = i + 1
      BY <1>2, <1>9, <2>2
    <3> QED BY <1>11, <1>14, <1>15, <2>2, <3>1
  <2> QED BY <2>1, <2>2
<1> QED BY <1>1, <1>12, <1>14, <1>15, <1>16

\* dictDelete takes the entry of the key out and leaves the others.
LEMMA DeleteFacts ==
    ASSUME NEW ht, Good(ht), NEW key \in Nat
    PROVE  /\ Good(dictDelete(ht, key))
           /\ \A x : Member(dictDelete(ht, key).table, x) <=> Member(ht.table, x) /\ x.key # key
<1>1. CASE ~dictHas(ht, key)
  <2>1. dictDelete(ht, key) = ht
    BY <1>1 DEF dictDelete
  <2> QED BY <1>1, <2>1, HasFacts
<1>2. CASE dictHas(ht, key)
  <2>1. PICK t \in Chains : t = ht.table
    BY DEF Good, Tables
  <2>2. PICK c : c = Slot(key, ht.size)
    OBVIOUS
  <2>3. PICK p : p = Place(ht, key)
    OBVIOUS
  <2>4. /\ c \in 1..Len(t) /\ t[c] \in Seq(Entries)
        /\ p \in 1..Len(t[c]) /\ t[c][p].key = key
    <3>1. /\ ht.size # 0 /\ p \in 1..Len(Bucket(ht, key))
          /\ Bucket(ht, key)[p].key = key
      BY <1>2, <2>3, HasFacts
    <3>2. Bucket(ht, key) \in Seq(Entries) /\ c \in 1..Len(t) /\ Bucket(ht, key) = t[c]
      BY <2>1, <2>2, <3>1, BucketFacts
    <3> QED BY <3>1, <3>2
  <2>5. PICK r : r = t[c]
    OBVIOUS
  <2>6. PICK s : s = RemoveAt(r, p)
    OBVIOUS
  <2>7. /\ r \in Seq(Entries) /\ p \in 1..Len(r) /\ Len(r) \in Nat /\ r[p].key = key
        /\ s \in Seq(Entries) /\ Len(s) = Len(r) - 1
        /\ \A i \in 1..(Len(r) - 1) : s[i] = IF i < p THEN r[i] ELSE r[i + 1]
    <3>1. r \in Seq(Entries) /\ p \in 1..Len(r) /\ r[p].key = key
      BY <2>4, <2>5
    <3>2. PICK q : q = RemoveAt(r, p)
      OBVIOUS
    <3>3. /\ q \in Seq(Entries) /\ Len(q) = Len(r) - 1
          /\ \A i \in 1..(Len(r) - 1) : q[i] = IF i < p THEN r[i] ELSE r[i + 1]
      BY ONLY <3>1, <3>2, RemoveAtFacts
    <3>4. Len(r) \in Nat
      BY <3>1
    <3> QED BY <2>6, <3>1, <3>2, <3>3, <3>4
  <2>8. PICK u :
          /\ u = [t EXCEPT ![c] = s] /\ u \in Chains /\ Len(u) = Len(t)
          /\ \A h \in 1..Len(t) : u[h] = IF h = c THEN s ELSE t[h]
          /\ \A x : Member(u, x) <=>
               \/ Contains(s, x)
               \/ \E h \in 1..Len(t) : h # c /\ Contains(t[h], x)
    <3>1. c \in 1..Len(t) /\ s \in Seq(Entries)
      BY <2>4, <2>7
    <3> QED BY <3>1, ChainFacts
  <2>9. PICK new : new = dictDelete(ht, key)
    OBVIOUS
  <2>10. new = [ht EXCEPT !.used = @ - 1, !.table[c] = RemoveAt(@, p)]
    BY <1>2, <2>2, <2>3, <2>9 DEF dictDelete
  <2>11. ht \in Tables
    BY DEF Good
  <2>12. new = [ht EXCEPT !.used = ht.used - 1, !.table = u]
    BY <2>1, <2>5, <2>6, <2>8, <2>10, <2>11 DEF Tables
  <2>13. new.table = u /\ new.size = ht.size /\ new.used = ht.used - 1
    BY <2>11, <2>12 DEF Tables
  <2>14. Slotted(t) /\ Single(t) /\ Len(t) = ht.size /\ ht.size \in Nat /\ ht.used <= ht.size
    BY <2>1 DEF Good, Tables
  <2>15. \A i \in 1..Len(s) :
           \E j \in 1..Len(r) : s[i] = r[j] /\ j # p /\ (i < p => j = i) /\ (~(i < p) => j = i + 1)
    <3> TAKE i \in 1..Len(s)
    <3>1. CASE i < p
      <4>1. i \in 1..Len(r) /\ i # p /\ s[i] = r[i]
        BY <2>7, <3>1
      <4> QED BY <3>1, <4>1
    <3>2. CASE ~(i < p)
      <4>1. i + 1 \in 1..Len(r) /\ i + 1 # p /\ s[i] = r[i + 1]
        BY <2>7, <3>2
      <4> QED BY <3>2, <4>1
    <3> QED BY <3>1, <3>2
  <2>16. Slotted(u)
    <3> SUFFICES ASSUME NEW h \in 1..Len(t), NEW i \in 1..Len(u[h])
                 PROVE  Slot(u[h][i].key, Len(t)) = h
      BY <2>8 DEF Slotted
    <3>1. CASE h # c
      BY <2>8, <2>14, <3>1 DEF Slotted
    <3>2. CASE h = c
      <4>1. i \in 1..Len(s) /\ u[h] = s
        BY <2>8, <3>2
      <4>2. PICK j \in 1..Len(r) : s[i] = r[j]
        BY <2>15, <4>1
      <4>3. Slot(r[j].key, Len(t)) = c
        BY <2>4, <2>5, <2>14 DEF Slotted
      <4> QED BY <3>2, <4>1, <4>2, <4>3
    <3> QED BY <3>1, <3>2
  <2>17. Distinct(s)
    <3> SUFFICES ASSUME NEW i \in 1..Len(s), NEW j \in 1..Len(s), s[i].key = s[j].key
                 PROVE  i = j
      BY DEF Distinct
    <3>1. PICK k \in 1..Len(r) : s[i] = r[k] /\ (i < p => k = i) /\ (~(i < p) => k = i + 1)
      BY <2>15
    <3>2. PICK m \in 1..Len(r) : s[j] = r[m] /\ (j < p => m = j) /\ (~(j < p) => m = j + 1)
      BY <2>15
    <3>3. k = m
      BY <2>4, <2>5, <2>14, <3>1, <3>2 DEF Single, Distinct
    <3> QED BY <2>7, <3>1, <3>2, <3>3
  <2>18. Single(u)
    BY <2>8, <2>14, <2>17 DEF Single
  <2>19. FlattenSeq(t) \in Seq(Entries) /\ FlattenSeq(u) \in Seq(Entries)
    BY <2>8, FlattenMembers
  <2>20. PICK lt \in Nat : lt = Len(FlattenSeq(t))
    BY <2>19
  <2>21. PICK lu \in Nat : lu = Len(FlattenSeq(u))
    BY <2>19
  <2>22. lu = lt - 1
    <3>1. 0 - 1 \in Int /\ Len(s) = Len(r) + (0 - 1)
      BY <2>7
    <3>2. Len(u[c]) = Len(t[c]) + (0 - 1) /\ \A h \in 1..Len(t) : h # c => Len(u[h]) = Len(t[h])
      BY <2>4, <2>5, <2>8, <3>1
    <3>3. Len(FlattenSeq(u)) = Len(FlattenSeq(t)) + (0 - 1)
      BY <2>4, <2>8, <3>1, <3>2, FlattenLength
    <3>4. lu = lt + (0 - 1)
      BY <2>20, <2>21, <3>3
    <3> QED BY <3>4
  <2>23. ht.used = lt
    BY <2>1, <2>20 DEF Good
  <2>24. new.used = lu /\ lu <= ht.size
    BY <2>13, <2>14, <2>22, <2>23
  <2>25. new \in Tables
    <3>1. ht.used - 1 = lu
      BY <2>22, <2>23
    <3> QED BY <2>8, <2>11, <2>12, <3>1 DEF Tables
  <2>26. Good(new)
    BY <2>8, <2>13, <2>14, <2>16, <2>18, <2>21, <2>24, <2>25 DEF Good
  <2>27. \A x : Member(t, x) <=> \E h \in 1..Len(t) : Contains(t[h], x)
    BY DEF Member, Contains
  <2>28. ASSUME NEW x, Member(u, x) PROVE Member(t, x) /\ x.key # key
    <3>1. CASE Contains(s, x)
      <4>1. PICK i \in 1..Len(s) : s[i] = x
        BY <3>1 DEF Contains
      <4>2. PICK j \in 1..Len(r) : x = r[j] /\ j # p
        BY <2>15, <4>1
      <4>3. x.key # key
        BY <2>4, <2>5, <2>14, <4>2 DEF Single, Distinct
      <4> QED BY <2>4, <2>5, <4>2, <4>3 DEF Member
    <3>2. CASE \E h \in 1..Len(t) : h # c /\ Contains(t[h], x)
      <4>1. PICK h \in 1..Len(t) : h # c /\ Contains(t[h], x)
        BY <3>2
      <4>2. Slot(x.key, Len(t)) = h
        BY <2>14, <4>1 DEF Slotted, Contains
      <4> QED BY <2>2, <2>14, <2>27, <4>1, <4>2
    <3> QED BY <2>8, <2>28, <3>1, <3>2
  <2>29. ASSUME NEW x, Member(t, x), x.key # key PROVE Member(u, x)
    <3>1. PICK h \in 1..Len(t) : Contains(t[h], x)
      BY <2>27, <2>29
    <3>2. CASE h # c
      BY <2>8, <3>1, <3>2
    <3>3. CASE h = c
      <4>1. PICK j \in 1..Len(r) : r[j] = x
        BY <2>5, <3>1, <3>3 DEF Contains
      <4>2. j # p
        BY <2>7, <2>29, <4>1
      <4>3. CASE j < p
        <5>1. j \in 1..(Len(r) - 1) /\ s[j] = x
          BY <2>7, <4>1, <4>3
        <5> QED BY <2>7, <2>8, <5>1 DEF Contains
      <4>4. CASE j > p
        <5>1. j - 1 \in 1..(Len(r) - 1) /\ ~(j - 1 < p) /\ (j - 1) + 1 = j
          BY <2>7, <4>4
        <5>2. s[j - 1] = x
          BY <2>7, <4>1, <5>1
        <5> QED BY <2>7, <2>8, <5>1, <5>2 DEF Contains
      <4> QED BY <2>7, <4>2, <4>3, <4>4
    <3> QED BY <3>2, <3>3
  <2> QED BY <2>1, <2>9, <2>13, <2>26, <2>28, <2>29
<1> QED BY <1>1, <1>2

\* dictNext visits the entries.
LEMMA EntriesFacts ==
    ASSUME NEW ht, Good(ht)
    PROVE  /\ dictEntries(ht) \in Seq(Entries)
           /\ \A x : Contains(dictEntries(ht), x) => x \in Entries /\ Member(ht.table, x)
<1>1. ht.table \in Chains
  BY DEF Good, Tables
<1>2. /\ dictEntries(ht) \in Seq(Entries)
      /\ \A x : Contains(dictEntries(ht), x) => Member(ht.table, x)
  BY <1>1, FlattenMembers DEF dictEntries
<1> QED BY <1>2 DEF Contains

\* What SubscriptionsFound asks of both dictionaries.
LEMMA GoodIsConsistent ==
    ASSUME NEW ht, Good(ht)
    PROVE  dictConsistent(ht)
<1>1. PICK t \in Chains : t = ht.table
  BY DEF Good, Tables
<1>2. t \in Seq(Seq(Entries))
  BY DEF Chains
<1>3. /\ DOMAIN t = 1..Len(t)
      /\ \A h \in 1..Len(t) : t[h] \in Seq(Entries) /\ DOMAIN t[h] = 1..Len(t[h])
  BY <1>2
<1>4. \A h \in DOMAIN t : \A i \in DOMAIN t[h] :
        /\ Slot(t[h][i].key, ht.size) = h
        /\ \A j \in DOMAIN t[h] : t[h][j].key = t[h][i].key => j = i
  <2>1. Slotted(t) /\ Single(t) /\ Len(t) = ht.size
    BY <1>1 DEF Good
  <2>2. \A h \in 1..Len(t) : \A i \in 1..Len(t[h]) :
          /\ Slot(t[h][i].key, ht.size) = h
          /\ \A j \in 1..Len(t[h]) : t[h][j].key = t[h][i].key => j = i
    BY <2>1 DEF Slotted, Single, Distinct
  <2> QED BY <1>3, <2>2
<1> QED BY <1>1, <1>4 DEF Good, dictConsistent, dictEntries

-----------------------------------------------------------------------------
(* The adapters *)

Interests == [events : SUBSET ReadWrite, armed : SUBSET ReadWrite]

\* What the adapters keep between two calls: one that looks at its flags before
\* it calls the library has armed what they say, a mask is what is armed until
\* an error disarms it.
EvOK(a, e) ==
    /\ e \in Interests
    /\ a.style = "flag" => e.events \subseteq e.armed
    /\ a.style = "mask" => e.armed = e.events \/ e.armed = {}

\* What the adapter has asked for: what is armed, or will be with the next call.
Watched(a, e) == IF a.style = "mask" THEN e.events ELSE e.armed

\* What the eight adapters have in common.
LEMMA AdapterFacts ==
    ASSUME NEW a \in Adapters
    PROVE  /\ a.style \in {"flag", "mask", "call"}
           /\ a.style # "call" => a.attach = {} /\ a.once = {}
           /\ a.attach \subseteq ReadWrite
           /\ a.order \in {<<"read", "write">>, <<"write", "read">>}
BY DEF Adapters, ae, libev, qt, libevent, ivykis, macosx, libuv, glib, ReadWrite

\* addRead and addWrite arm the event and disarm nothing.
LEMMA AddArms ==
    ASSUME NEW a \in Adapters, NEW e, EvOK(a, e), NEW what \in ReadWrite
    PROVE  /\ EvOK(a, Add(a, e, what))
           /\ what \in Watched(a, Add(a, e, what))
           /\ Watched(a, e) \subseteq Watched(a, Add(a, e, what))
           /\ a.style = "mask" => Add(a, e, what).armed = Add(a, e, what).events
<1>1. CASE a.style = "flag" /\ what \in e.events
  BY <1>1 DEF EvOK, Add, Watched
<1>2. CASE a.style = "flag" /\ what \notin e.events
  BY <1>2 DEF EvOK, Add, Interests, Watched
<1>3. CASE a.style = "mask"
  BY <1>3 DEF EvOK, Add, Interests, Watched
<1>4. CASE a.style = "call"
  BY <1>4 DEF EvOK, Add, Interests, Watched
<1> QED BY <1>1, <1>2, <1>3, <1>4, AdapterFacts

\* delRead and delWrite disarm no other event.
LEMMA DelKeeps ==
    ASSUME NEW a \in Adapters, NEW e, EvOK(a, e), NEW what \in ReadWrite
    PROVE  /\ EvOK(a, Del(a, e, what))
           /\ Watched(a, e) \ {what} \subseteq Watched(a, Del(a, e, what))
           /\ a.style = "mask" => Del(a, e, what).armed = Del(a, e, what).events
<1>1. CASE a.style = "flag" /\ what \notin e.events
  BY <1>1 DEF EvOK, Del, Watched
<1>2. CASE a.style = "flag" /\ what \in e.events
  BY <1>2 DEF EvOK, Del, Interests, Watched
<1>3. CASE a.style = "mask"
  BY <1>3 DEF EvOK, Del, Interests, Watched
<1>4. CASE a.style = "call"
  BY <1>4 DEF EvOK, Del, Interests, Watched
<1> QED BY <1>1, <1>2, <1>3, <1>4, AdapterFacts

\* An event that is not reported stays armed.
LEMMA FireKeeps ==
    ASSUME NEW a \in Adapters, NEW e, EvOK(a, e), NEW fired
    PROVE  /\ EvOK(a, Fire(a, e, fired))
           /\ Watched(a, e) \ fired \subseteq Watched(a, Fire(a, e, fired))
           /\ a.style = "mask" => Fire(a, e, fired) = e
<1>1. Fire(a, e, fired) = [events |-> e.events, armed |-> e.armed \ (fired \cap a.once)]
  BY DEF Fire, EvOK, Interests
<1>2. a.style # "call" => a.once = {}
  BY AdapterFacts
<1> QED BY <1>1, <1>2 DEF EvOK, Interests, Watched

\* Every event reported has its handler called.
LEMMA HandlersCalled ==
    ASSUME NEW a \in Adapters, NEW fired \in SUBSET ReadWrite, fired # {}
    PROVE  /\ Handlers(a, fired) \in Seq(ReadWrite)
           /\ \A what \in fired :
                \E i \in 1..Len(Handlers(a, fired)) : Handlers(a, fired)[i] = what
<1>1. CASE fired = ReadWrite
  <2>1. Handlers(a, fired) = a.order
    BY <1>1 DEF Handlers
  <2>2. CASE a.order = <<"read", "write">>
    <3>1. a.order \in Seq(ReadWrite) /\ Len(a.order) = 2
      BY <2>2 DEF ReadWrite
    <3>2. a.order[1] = "read" /\ a.order[2] = "write" /\ 1 \in 1..2 /\ 2 \in 1..2
      BY <2>2
    <3> QED BY <1>1, <2>1, <3>1, <3>2 DEF ReadWrite
  <2>3. CASE a.order = <<"write", "read">>
    <3>1. a.order \in Seq(ReadWrite) /\ Len(a.order) = 2
      BY <2>3 DEF ReadWrite
    <3>2. a.order[1] = "write" /\ a.order[2] = "read" /\ 1 \in 1..2 /\ 2 \in 1..2
      BY <2>3
    <3> QED BY <1>1, <2>1, <3>1, <3>2 DEF ReadWrite
  <2> QED BY <2>2, <2>3, AdapterFacts
<1>2. CASE fired # ReadWrite
  <2>1. PICK what \in ReadWrite : fired = {what}
    BY <1>2 DEF ReadWrite
  <2>2. Handlers(a, fired) = <<what>>
    BY <1>2, <2>1 DEF Handlers
  <2>3. /\ <<what>> \in Seq(ReadWrite) /\ <<what>>[1] = what
        /\ 1 \in 1..Len(<<what>>)
    OBVIOUS
  <2> QED BY <2>1, <2>2, <2>3
<1> QED BY <1>1, <1>2

-----------------------------------------------------------------------------
(* The inductive invariant *)

\* The event is watched, or its handler is still to be called in this dispatch.
Queued(what) == \E i \in 1..Len(todo) : todo[i] = what
Awaited(what) == what \in Watched(adapter, ev) \/ Queued(what)

Armed ==
    mem = "live" =>
      /\ obuf # << >> => Awaited("write")
      /\ "CONNECTED" \in flags => Awaited("read")
      /\ "CONNECTED" \notin flags => Awaited("write")

\* A mask is armed unless libuv has reported an error since it was last set.
Mute == adapter = libuv /\ "pollError" \in seen /\ ev.armed = {}
Masked == adapter.style = "mask" => ev.armed = ev.events \/ Mute

\* Nothing is left of a freed context.
Gone ==
    mem = "freed" =>
      /\ ev.armed = {} /\ phase = "idle"
      /\ replies = << >> /\ invalid = << >> /\ obuf = << >> /\ rbuf = << >>

Inv ==
    /\ adapter \in Adapters /\ EvOK(adapter, ev)
    /\ todo \in Seq(ReadWrite)
    /\ mem \in {"live", "freed", "aborted"}
    /\ phase \in {"process", "free"} => mem = "live"
    /\ Armed /\ Masked /\ Gone

\* A context with nothing sent and nothing armed meets the invariant.
LEMMA InitInv == Init => Inv
<1> SUFFICES ASSUME Init PROVE Inv
  OBVIOUS
<1>1. adapter \in Adapters /\ ev = Add(adapter, Attach(adapter), "write")
  BY DEF Init
<1>2. EvOK(adapter, Attach(adapter))
  BY <1>1, AdapterFacts DEF EvOK, Attach, Interests, ReadWrite
<1>3. /\ EvOK(adapter, ev) /\ "write" \in Watched(adapter, ev)
      /\ adapter.style = "mask" => ev.armed = ev.events
  BY <1>1, <1>2, AddArms DEF ReadWrite
<1> QED BY <1>1, <1>3 DEF Init, Inv, Armed, Masked, Gone, Awaited

\* __redisAsyncFree.
LEMMA FreeKeeps ==
    ASSUME Inv, asyncFree, adapter' = adapter, todo' \in Seq(ReadWrite)
    PROVE  Inv'
<1>1. EvOK(adapter, ev')
  BY DEF asyncFree, Cleanup, EvOK, Interests
<1> QED BY <1>1 DEF Inv, asyncFree, Cleanup, Armed, Masked, Gone

\* A step that only adds to what is watched, outside a dispatch.
LEMMA QuietKeeps ==
    ASSUME Inv, UNCHANGED <<adapter, mem, obuf>>, todo' = todo, EvOK(adapter, ev'),
           Watched(adapter, ev) \subseteq Watched(adapter, ev'), mem # "freed",
           ev' = ev \/ (adapter.style = "mask" => ev'.armed = ev'.events),
           "CONNECTED" \in flags' <=> "CONNECTED" \in flags,
           phase' \in {"process", "free"} => mem = "live",
           seen \subseteq seen'
    PROVE  Inv'
BY DEF Inv, Armed, Awaited, Queued, Masked, Mute, Gone

\* A dispatch of the event library, whatever is ready, keeps the invariant.
LEMMA DispatchKeeps ==
    ASSUME Inv, dispatch
    PROVE  Inv'
<1>1. PICK fired \in SUBSET ev.armed :
        fired # {} /\ ev' = Fire(adapter, ev, fired) /\ todo' = Handlers(adapter, fired)
  BY DEF dispatch
<1>2. fired \in SUBSET ReadWrite
  BY <1>1 DEF Inv, EvOK, Interests
<1>3. /\ EvOK(adapter, ev')
      /\ Watched(adapter, ev) \ fired \subseteq Watched(adapter, ev')
      /\ adapter.style = "mask" => ev' = ev
      /\ ev'.armed \subseteq ev.armed
  BY <1>1, FireKeeps DEF Inv, Fire, EvOK, Interests
<1>4. /\ todo' \in Seq(ReadWrite)
      /\ \A what \in fired : \E i \in 1..Len(todo') : todo'[i] = what
  BY <1>1, <1>2, HandlersCalled DEF Inv
<1>5. \A what : Awaited(what) => Awaited(what)'
  BY <1>3, <1>4 DEF dispatch, Awaited, Queued
<1>6. UNCHANGED <<adapter, mem, flags, obuf, replies, invalid, rbuf, phase, seen>>
  BY DEF dispatch, context
<1>7. Armed' /\ Masked'
  BY <1>3, <1>5, <1>6 DEF Inv, Armed, Masked, Mute
<1>8. Gone'
  BY <1>3, <1>6 DEF Inv, Gone
<1> QED BY <1>3, <1>4, <1>6, <1>7, <1>8 DEF Inv

\* The handlers left in a dispatch are called or dropped.
LEMMA DispatchRestKeeps ==
    ASSUME Inv, dispatchRest
    PROVE  Inv'
BY DEF dispatchRest, context, Inv, Armed, Masked, Mute, Gone

\* After an error libuv watches nothing; the adapter keeps its mask.
LEMMA ErrorKeeps ==
    ASSUME Inv, pollError
    PROVE  Inv'
<1>1. /\ adapter = libuv /\ libuv.style = "mask" /\ "pollError" \in seen'
      /\ ev'.events = ev.events /\ ev'.armed = {} /\ ev' \in Interests
      /\ UNCHANGED <<adapter, mem, flags, obuf, replies, invalid, rbuf, phase, todo>>
  BY DEF pollError, context, Inv, EvOK, Interests, libuv
<1>2. EvOK(adapter, ev') /\ Watched(adapter, ev') = Watched(adapter, ev)
  BY <1>1 DEF EvOK, Watched
<1>3. Armed' /\ Masked'
  BY <1>1, <1>2 DEF Inv, Armed, Masked, Mute, Awaited, Queued
<1> QED BY <1>1, <1>2, <1>3 DEF Inv, Gone

\* What is left to call when a handler begins.
LEMMA HandlerBegins ==
    ASSUME Inv, NEW what, Handler(what), todo' = Tail(todo)
    PROVE  /\ todo' \in Seq(ReadWrite) /\ phase = "idle"
           /\ \A other : other # what /\ Queued(other) => Queued(other)'
<1>1. todo \in Seq(ReadWrite) /\ todo # << >> /\ todo[1] = what
  BY DEF Inv, Handler
<1>2. todo' \in Seq(ReadWrite) /\ Len(todo') = Len(todo) - 1
  BY <1>1
<1>3. \A i \in 1..Len(todo') : todo'[i] = todo[i + 1]
  BY <1>1
<1>4. ASSUME NEW other, other # what, NEW i \in 1..Len(todo), todo[i] = other
      PROVE  \E j \in 1..Len(todo') : todo'[j] = other
  <2>1. i # 1 /\ i - 1 \in 1..Len(todo')
    BY <1>1, <1>2, <1>4
  <2> QED BY <1>3, <1>4, <2>1, SMTT(60)
<1> QED BY <1>2, <1>4 DEF Handler, Queued

\* redisAsyncHandleRead: data, nothing yet, or a lost connection.
LEMMA ReadKeeps ==
    ASSUME Inv, redisAsyncHandleRead
    PROVE  Inv'
<1>1. Handler("read") /\ mem = "live" /\ todo' = Tail(todo)
  BY DEF redisAsyncHandleRead
<1>2. /\ todo' \in Seq(ReadWrite)
      /\ Queued("write") => Queued("write")'
  BY <1>1, HandlerBegins
<1>3. CASE Failed
  BY <1>2, <1>3, FreeKeeps DEF Failed, asyncDisconnect
<1>4. CASE ~Failed
  <2>1. /\ ev' = Add(adapter, ev, "read") /\ flags' = FlagsAfterConnect
        /\ phase' = "process"
        /\ UNCHANGED <<adapter, mem, obuf>>
        /\ seen \subseteq seen'
    BY <1>1, <1>4 DEF redisAsyncHandleRead
  <2>2. /\ EvOK(adapter, ev') /\ "read" \in Watched(adapter, ev')
        /\ Watched(adapter, ev) \subseteq Watched(adapter, ev')
        /\ adapter.style = "mask" => ev'.armed = ev'.events
    BY <2>1, AddArms DEF Inv, ReadWrite
  <2>3. Awaited("write") => Awaited("write")'
    BY <1>2, <2>1, <2>2 DEF Awaited
  <2> QED BY <1>1, <1>2, <2>1, <2>2, <2>3
          DEF Inv, Armed, Awaited, Queued, Masked, Mute, Gone, FlagsAfterConnect
<1> QED BY <1>3, <1>4

\* redisAsyncHandleWrite: a part written, all written, or a lost connection.
LEMMA WriteKeeps ==
    ASSUME Inv, redisAsyncHandleWrite
    PROVE  Inv'
<1>1. Handler("write") /\ mem = "live" /\ todo' = Tail(todo)
  BY DEF redisAsyncHandleWrite
<1>2. todo' \in Seq(ReadWrite) /\ phase = "idle"
  BY <1>1, HandlerBegins
<1>3. CASE Failed
  BY <1>2, <1>3, FreeKeeps DEF Failed, asyncDisconnect
<1>4. CASE ~Failed
  <2>1. /\ ev' = Add(adapter, Rearm(obuf'), "read") /\ flags' = FlagsAfterConnect
        /\ UNCHANGED <<adapter, mem, phase, seen>>
    BY <1>1, <1>4 DEF redisAsyncHandleWrite
  <2>2. /\ EvOK(adapter, Rearm(obuf'))
        /\ obuf' # << >> => "write" \in Watched(adapter, Rearm(obuf'))
    BY AddArms, DelKeeps DEF Inv, Rearm, ReadWrite
  <2>3. /\ EvOK(adapter, ev') /\ "read" \in Watched(adapter, ev')
        /\ obuf' # << >> => "write" \in Watched(adapter, ev')
        /\ adapter.style = "mask" => ev'.armed = ev'.events
    BY <2>1, <2>2, AddArms DEF Inv, ReadWrite
  <2> QED BY <1>1, <1>2, <2>1, <2>3
          DEF Inv, Armed, Awaited, Queued, Masked, Mute, Gone, FlagsAfterConnect
<1> QED BY <1>3, <1>4

\* redisAsyncCommand and its relatives arm the write event.
LEMMA CommandKeeps ==
    ASSUME Inv, NEW op, NEW topic, redisAsyncCommand(op, topic)
    PROVE  Inv'
<1>1. /\ mem = "live" /\ ev' = Add(adapter, ev, "write")
      /\ UNCHANGED <<adapter, mem, todo, phase>>
      /\ seen \subseteq seen'
  BY DEF redisAsyncCommand, Oddities
<1>2. "CONNECTED" \in flags' <=> "CONNECTED" \in flags
  BY DEF redisAsyncCommand
<1>3. /\ EvOK(adapter, ev') /\ "write" \in Watched(adapter, ev')
      /\ Watched(adapter, ev) \subseteq Watched(adapter, ev')
      /\ adapter.style = "mask" => ev'.armed = ev'.events
  BY <1>1, AddArms DEF Inv, ReadWrite
<1> QED BY <1>1, <1>2, <1>3 DEF Inv, Armed, Awaited, Queued, Masked, Mute, Gone

\* redisProcessCallbacks, one reply and its callback at a time.
LEMMA ReplyKeeps ==
    ASSUME Inv, processReply
    PROVE  Inv'
<1>1. /\ phase = "process" /\ UNCHANGED <<adapter, ev, mem, obuf, todo>>
      /\ phase' \in {"process", "free"}
      /\ seen \subseteq seen'
  BY DEF processReply
<1>2. "CONNECTED" \in flags' <=> "CONNECTED" \in flags
  BY DEF processReply
<1> QED BY <1>1, <1>2, QuietKeeps DEF Inv

\* Every step keeps the invariant.
LEMMA NextInv == Inv /\ [Next]_vars => Inv'
<1> SUFFICES ASSUME Inv, [Next]_vars
             PROVE  Inv'
  OBVIOUS
<1>1. CASE UNCHANGED vars
  BY <1>1 DEF vars, context, peer, Inv, Armed, Awaited, Queued, Masked, Mute, Gone
<1>2. ASSUME NEW op \in Ops, NEW topic, redisAsyncCommand(op, topic)
      PROVE  Inv'
  BY <1>2, CommandKeeps
<1>3. CASE redisAsyncDisconnect
  <2>1. CASE Idle
    BY <1>3, <2>1, FreeKeeps DEF redisAsyncDisconnect, asyncDisconnect, Inv
  <2>2. CASE ~Idle
    <3>1. /\ UNCHANGED <<adapter, ev, mem, obuf, todo, phase, seen>> /\ mem = "live"
          /\ "CONNECTED" \in flags' <=> "CONNECTED" \in flags
      BY <1>3, <2>2 DEF redisAsyncDisconnect
    <3> QED BY <3>1, QuietKeeps DEF Inv
  <2> QED BY <2>1, <2>2
<1>4. CASE redisAsyncFree
  BY <1>4, FreeKeeps DEF redisAsyncFree, Inv
<1>5. CASE Handling
  <2>1. CASE processEnd
    <3>1. CASE "DISCONNECTING" \in flags /\ obuf = << >> /\ replies = << >>
      BY <2>1, <3>1, FreeKeeps DEF processEnd, asyncDisconnect, Inv
    <3>2. CASE ~("DISCONNECTING" \in flags /\ obuf = << >> /\ replies = << >>)
      <4>1. UNCHANGED <<adapter, ev, mem, obuf, todo, flags, seen>> /\ phase' = "idle"
        BY <2>1, <3>2 DEF processEnd
      <4>2. mem = "live"
        BY <2>1 DEF processEnd, Inv
      <4> QED BY <4>1, <4>2, QuietKeeps DEF Inv
    <3> QED BY <3>1, <3>2
  <2>2. CASE processError
    BY <2>2, FreeKeeps DEF processError, Failed, asyncDisconnect, Inv
  <2>3. CASE processAbort
    <3>1. /\ mem' = "aborted" /\ phase' = "idle" /\ todo' = << >>
          /\ UNCHANGED <<adapter, ev>>
          /\ seen \subseteq seen'
      BY <2>3 DEF processAbort
    <3> QED BY <3>1 DEF Inv, Armed, Masked, Mute, Gone
  <2>4. CASE processFree
    BY <2>4, FreeKeeps DEF processFree, Inv
  <2> QED BY <1>5, <2>1, <2>2, <2>3, <2>4, DispatchKeeps, DispatchRestKeeps, ErrorKeeps,
             ReadKeeps, WriteKeeps, ReplyKeeps DEF Handling
<1>6. CASE connected \/ broken \/ execute \/ push
  <2>1. UNCHANGED <<adapter, ev, context, todo, seen>>
    BY <1>6 DEF connected, broken, execute, push
  <2> QED BY <2>1 DEF context, Inv, Armed, Awaited, Queued, Masked, Mute, Gone
<1> QED BY <1>1, <1>2, <1>3, <1>4, <1>5, <1>6 DEF Next

-----------------------------------------------------------------------------
(* The theorems about events *)

\* Whatever is sent and whatever fails, the adapter and the context agree about
\* the events: the inductive invariant holds.
THEOREM AsyncInductive == Spec => []Inv
<1>1. Init => Inv
  BY InitInv
<1>2. Inv /\ [Next]_vars => Inv'
  BY NextInv
<1> QED BY <1>1, <1>2, PTL DEF Spec

\* With every adapter of src/adapters, output that waits has the write event
\* armed and a connected context waits for replies, until libuv reports an error
\* of the socket, which redisLibuvPoll ignores.
THEOREM AsyncEventsArmed == Spec => []EventsArmed
<1>1. Inv => EventsArmed
  BY DEF Inv, Armed, Masked, Mute, Awaited, Queued, Watched, EventsArmed, Settled
<1> QED BY <1>1, AsyncInductive, PTL

\* After __redisAsyncFree the context is never used again: no callback is
\* called, no command is accepted, nothing is armed.
Final == mem = "freed" => UNCHANGED <<context, ev, cmds>>

THEOREM AsyncFreedIsFinal == Spec => [][Final]_vars
<1>1. Inv /\ [Next]_vars => [Final]_vars
  <2> SUFFICES ASSUME Inv, Next, mem = "freed"
               PROVE  UNCHANGED <<context, ev, cmds>>
    BY DEF Final
  <2>1. phase = "idle" /\ ev.armed = {}
    BY DEF Inv, Gone
  <2>2. ASSUME NEW op, NEW topic, redisAsyncCommand(op, topic)
        PROVE  FALSE
    BY <2>2 DEF redisAsyncCommand
  <2>3. ~dispatch /\ ~pollError
    BY <2>1 DEF dispatch, pollError
  <2>4. ~redisAsyncHandleRead /\ ~redisAsyncHandleWrite
    BY DEF redisAsyncHandleRead, redisAsyncHandleWrite
  <2>5. ~processEnd /\ ~processError /\ ~processAbort /\ ~processReply /\ ~processFree
    BY <2>1 DEF processEnd, processError, processAbort, processReply, processFree
  <2>6. ~connected /\ ~broken /\ ~execute /\ ~push
    BY DEF connected, broken, execute, push
  <2>7. dispatchRest => UNCHANGED <<context, ev, cmds>>
    BY DEF dispatchRest
  <2> QED BY <2>2, <2>3, <2>4, <2>5, <2>6, <2>7
          DEF Next, Handling, redisAsyncDisconnect, redisAsyncFree
<1> QED BY <1>1, AsyncInductive, PTL DEF Spec

-----------------------------------------------------------------------------
(* What is under way between the application and the server, seen as one   *)
(* queue S of items: N holds the counts n of the replies at its front, the *)
(* other items are commands. H are the topics with a callback, T those the *)
(* server knows, U those the application unsubscribed from, on whether     *)
(* SUBSCRIBED is set.                                                      *)

Arrays == {"subscribe", "unsubscribe", "message"}
Kinds == {"get", "monitor"} \cup Arrays
AllTopics == BOOLEAN \X Nat
Items == [kind : Kinds, topic : AllTopics, id : Nat]

\* Nothing of a topic comes after its unsubscribe, no subscribe after any.
Late(S) ==
    \A i, j \in 1..Len(S) : i < j /\ S[i].kind = "unsubscribe" =>
      /\ S[j].kind # "subscribe"
      /\ S[j].kind \in Arrays => S[j].topic # S[i].topic

\* Every topic in use has a callback.
Known(S, H, T, U) ==
    /\ T \subseteq H
    /\ \A i \in 1..Len(S) :
         /\ S[i].kind \in Arrays => S[i].topic \in H
         /\ S[i].kind = "unsubscribe" => S[i].topic \in U

NoArrays(S, k) == \A i \in 1..Len(S) : i > k => S[i].kind \notin Arrays

\* The server has dropped the topic of an unsubscribe it answered; the answer
\* with count 0 is the last that subscriptions give.
Answered(S, N, T) ==
    \A i \in 1..Len(N) : S[i].kind = "unsubscribe" =>
      /\ S[i].topic \notin T
      /\ N[i] = 0 => T = {} /\ NoArrays(S, i)

\* A topic is to be subscribed by a command still under way before place k.
Coming(S, N, t, k) ==
    \E j \in 1..Len(S) : Len(N) < j /\ j < k /\ S[j].kind = "subscribe" /\ S[j].topic = t

\* Commands unsubscribe from topics the server knows by then.
Waiting(S, N, T) ==
    \A i \in 1..Len(S) : i > Len(N) =>
      /\ S[i].kind # "message"
      /\ S[i].kind = "unsubscribe" => S[i].topic \in T \/ Coming(S, N, S[i].topic, i)

\* A callback belongs to a topic that is, was or will be subscribed.
Held(S, N, H, T, U) ==
    \A t \in H : t \in U \/ t \in T \/ Coming(S, N, t, Len(S) + 1)

\* The order that publish/subscribe depends on.
Orderly(S, N, H, T, U, on) ==
    /\ Len(N) <= Len(S)
    /\ Late(S) /\ Known(S, H, T, U)
    /\ ~on => T = {} /\ NoArrays(S, 0)
    /\ Answered(S, N, T) /\ Waiting(S, N, T) /\ Held(S, N, H, T, U)

\* How the queue changes: one item more at the end, one less at the front, one
\* more behind the first k.
Appended(S, R, x) ==
    /\ Len(R) = Len(S) + 1 /\ R[Len(S) + 1] = x
    /\ \A i \in 1..Len(S) : R[i] = S[i]
Shifted(S, R) ==
    /\ Len(S) = Len(R) + 1
    /\ \A i \in 1..Len(R) : R[i] = S[i + 1]
Inserted(S, R, k, x) ==
    /\ Len(R) = Len(S) + 1 /\ R[k + 1] = x
    /\ \A i \in 1..k : R[i] = S[i]
    /\ \A i \in (k + 1)..Len(S) : R[i + 1] = S[i]

\* A subscribe, when no unsubscribe is under way.
LEMMA SubscribeOrderly ==
    ASSUME NEW S \in Seq(Items), NEW R \in Seq(Items), NEW N \in Seq(Nat), NEW H, NEW T, NEW U, NEW on,
           Orderly(S, N, H, T, U, on), NEW x \in Items, Appended(S, R, x),
           x.kind = "subscribe", \A i \in 1..Len(S) : S[i].kind # "unsubscribe"
    PROVE  Orderly(R, N, H \cup {x.topic}, T, U, TRUE)
<1>0. Len(S) \in Nat /\ Len(N) \in Nat /\ Len(R) = Len(S) + 1 /\ Len(N) <= Len(S)
  BY DEF Appended, Orderly
<1>1. \A i \in 1..Len(R) : R[i].kind # "unsubscribe"
  BY <1>0 DEF Appended
<1>2. Late(R) /\ Answered(R, N, T)
  BY <1>0, <1>1 DEF Late, Answered
<1>3. Known(R, H \cup {x.topic}, T, U)
  BY <1>0, <1>1 DEF Orderly, Known, Appended
<1>4. Waiting(R, N, T)
  <2>1. \A i \in 1..Len(S) : R[i] = S[i]
    BY DEF Appended
  <2>2. R[Len(S) + 1].kind # "message"
    BY DEF Appended
  <2>3. \A i \in 1..Len(S) : i > Len(N) => S[i].kind # "message"
    BY DEF Orderly, Waiting
  <2>4. \A i \in 1..Len(R) : i > Len(N) => R[i].kind # "message"
    BY <1>0, <2>1, <2>2, <2>3
  <2>5. ASSUME NEW i \in 1..Len(R), i > Len(N)
        PROVE  /\ R[i].kind # "message"
               /\ R[i].kind = "unsubscribe" => R[i].topic \in T \/ Coming(R, N, R[i].topic, i)
    BY <1>1, <2>4, <2>5
  <2> QED BY <2>5 DEF Waiting
<1>5. \A t : Coming(S, N, t, Len(S) + 1) => Coming(R, N, t, Len(R) + 1)
  BY <1>0 DEF Coming, Appended
<1>6. Coming(R, N, x.topic, Len(R) + 1)
  BY <1>0 DEF Coming, Appended
<1>7. Held(R, N, H \cup {x.topic}, T, U)
  BY <1>5, <1>6 DEF Orderly, Held
<1> QED BY <1>0, <1>2, <1>3, <1>4, <1>7 DEF Orderly

\* An unsubscribe of a topic with a callback, the first of this topic.
LEMMA UnsubscribeOrderly ==
    ASSUME NEW S \in Seq(Items), NEW R \in Seq(Items), NEW N \in Seq(Nat), NEW H, NEW T, NEW U, NEW on,
           Orderly(S, N, H, T, U, on), NEW x \in Items, Appended(S, R, x), on,
           x.kind = "unsubscribe", x.topic \in H, x.topic \notin U
    PROVE  Orderly(R, N, H, T, U \cup {x.topic}, on)
<1>0. Len(S) \in Nat /\ Len(N) \in Nat /\ Len(R) = Len(S) + 1 /\ Len(N) <= Len(S)
  BY DEF Appended, Orderly
<1>1. \A i \in 1..Len(S) : S[i].kind = "unsubscribe" => S[i].topic # x.topic
  BY DEF Orderly, Known
<1>2. x.topic \in T \/ Coming(S, N, x.topic, Len(S) + 1)
  BY DEF Orderly, Held
<1>3. Late(R)
  <2>1. /\ \A i \in 1..Len(S) : R[i] = S[i]
        /\ R[Len(S) + 1] = x /\ Late(S)
    BY DEF Appended, Orderly
  <2> SUFFICES ASSUME NEW i \in 1..Len(R), NEW j \in 1..Len(R), i < j, R[i].kind = "unsubscribe"
               PROVE  R[j].kind # "subscribe" /\ (R[j].kind \in Arrays => R[j].topic # R[i].topic)
    BY DEF Late
  <2>2. i \in 1..Len(S) /\ R[i] = S[i]
    BY <1>0, <2>1
  <2>3. CASE j \in 1..Len(S)
    BY <2>1, <2>2, <2>3 DEF Late
  <2>4. CASE j = Len(S) + 1
    BY <1>1, <2>1, <2>2, <2>4
  <2> QED BY <1>0, <2>3, <2>4
<1>4. Known(R, H, T, U \cup {x.topic})
  BY <1>0 DEF Orderly, Known, Appended, Arrays
<1>5. \A t : \A k \in 1..Len(S) + 1 : Coming(S, N, t, k) => Coming(R, N, t, k)
  BY <1>0 DEF Coming, Appended
<1>6. Waiting(R, N, T)
  <2>1. ASSUME NEW i \in 1..Len(S), i > Len(N)
        PROVE  /\ R[i].kind # "message"
               /\ R[i].kind = "unsubscribe" => R[i].topic \in T \/ Coming(R, N, R[i].topic, i)
    BY <1>0, <1>5, <2>1 DEF Orderly, Waiting, Appended
  <2>2. R[Len(S) + 1].topic \in T \/ Coming(R, N, R[Len(S) + 1].topic, Len(S) + 1)
    BY <1>0, <1>2, <1>5 DEF Appended
  <2>3. R[Len(S) + 1].kind # "message"
    BY DEF Appended
  <2> QED BY <1>0, <2>1, <2>2, <2>3 DEF Waiting
<1>7. Held(R, N, H, T, U \cup {x.topic})
  <2>1. \A t : Coming(S, N, t, Len(S) + 1) => Coming(R, N, t, Len(R) + 1)
    BY <1>0 DEF Coming, Appended
  <2> QED BY <2>1 DEF Orderly, Held
<1>8. Answered(R, N, T)
  <2> SUFFICES ASSUME NEW i \in 1..Len(N), R[i].kind = "unsubscribe"
               PROVE  R[i].topic \notin T /\ (N[i] = 0 => T = {} /\ NoArrays(R, i))
    BY DEF Answered
  <2>1. R[i] = S[i] /\ i \in 1..Len(S)
    BY <1>0 DEF Appended
  <2>2. S[i].topic \notin T /\ (N[i] = 0 => T = {} /\ NoArrays(S, i))
    BY <2>1 DEF Orderly, Answered
  <2>3. N[i] # 0
    <3> SUFFICES ASSUME N[i] = 0 PROVE FALSE
      OBVIOUS
    <3>1. Coming(S, N, x.topic, Len(S) + 1)
      BY <1>2, <2>2
    <3> QED BY <1>0, <2>2, <3>1 DEF Coming, NoArrays, Arrays
  <2> QED BY <2>1, <2>2, <2>3
<1> QED BY <1>0, <1>3, <1>4, <1>6, <1>7, <1>8 DEF Orderly

\* Any other command.
LEMMA OtherOrderly ==
    ASSUME NEW S \in Seq(Items), NEW R \in Seq(Items), NEW N \in Seq(Nat), NEW H, NEW T, NEW U, NEW on,
           Orderly(S, N, H, T, U, on), NEW x \in Items, Appended(S, R, x),
           x.kind \notin Arrays
    PROVE  Orderly(R, N, H, T, U, on)
<1>0. Len(S) \in Nat /\ Len(N) \in Nat /\ Len(R) = Len(S) + 1 /\ Len(N) <= Len(S)
  BY DEF Appended, Orderly
<1>1. x.kind # "unsubscribe" /\ x.kind # "subscribe" /\ x.kind # "message"
  BY DEF Arrays
<1>2. Late(R)
  <2>1. /\ \A i \in 1..Len(S) : R[i] = S[i]
        /\ R[Len(S) + 1] = x /\ Late(S)
    BY DEF Appended, Orderly
  <2> SUFFICES ASSUME NEW i \in 1..Len(R), NEW j \in 1..Len(R), i < j, R[i].kind = "unsubscribe"
               PROVE  R[j].kind # "subscribe" /\ (R[j].kind \in Arrays => R[j].topic # R[i].topic)
    BY DEF Late
  <2>2. i \in 1..Len(S) /\ R[i] = S[i]
    BY <1>0, <2>1
  <2>3. CASE j \in 1..Len(S)
    BY <2>1, <2>2, <2>3 DEF Late
  <2>4. CASE j = Len(S) + 1
    BY <1>1, <2>1, <2>4
  <2> QED BY <1>0, <2>3, <2>4, SMTT(60)
<1>9. Known(R, H, T, U)
  BY <1>0, <1>1 DEF Orderly, Known, Appended
<1>3. \A k : NoArrays(S, k) => NoArrays(R, k)
  BY <1>0 DEF NoArrays, Appended
<1>4. Answered(R, N, T)
  <2>1. \A i \in 1..Len(N) : i \in 1..Len(S) /\ R[i] = S[i]
    BY <1>0 DEF Appended
  <2> QED BY <1>3, <2>1 DEF Orderly, Answered
<1>5. \A t : \A k \in 1..Len(S) + 1 : Coming(S, N, t, k) => Coming(R, N, t, k)
  BY <1>0 DEF Coming, Appended
<1>6. Waiting(R, N, T)
  BY <1>0, <1>1, <1>5 DEF Orderly, Waiting, Appended
<1>7. Held(R, N, H, T, U)
  <2>1. \A t : Coming(S, N, t, Len(S) + 1) => Coming(R, N, t, Len(R) + 1)
    BY <1>0 DEF Coming, Appended
  <2> QED BY <2>1 DEF Orderly, Held
<1> QED BY <1>0, <1>2, <1>3, <1>4, <1>6, <1>7, <1>9 DEF Orderly

\* What the server knows after a command.
Executes(x, T, n, T2) ==
    /\ x.kind = "subscribe" => T2 = T \cup {x.topic}
    /\ x.kind = "unsubscribe" => T2 = T \ {x.topic} /\ (n = 0 => T2 = {})
    /\ x.kind \notin {"subscribe", "unsubscribe"} => T2 = T

\* The server answers the first command.
LEMMA ExecuteOrderly ==
    ASSUME NEW S \in Seq(Items), NEW N \in Seq(Nat), NEW M \in Seq(Nat), NEW H, NEW T, NEW U, NEW on,
           Orderly(S, N, H, T, U, on), Len(N) < Len(S),
           NEW n \in Nat, Appended(N, M, n), NEW T2, NEW x \in Items, x = S[Len(N) + 1],
           Executes(x, T, n, T2)
    PROVE  Orderly(S, M, H, T2, U, on)
<1> USE DEF Executes
<1>0. /\ Len(S) \in Nat /\ Len(N) \in Nat /\ Len(M) = Len(N) + 1 /\ Len(M) <= Len(S)
      /\ Len(N) + 1 \in 1..Len(S)
      /\ \A i \in 1..Len(M) : (i \in 1..Len(N) /\ M[i] = N[i]) \/ (i = Len(N) + 1 /\ M[i] = n)
  BY DEF Appended
<1>1. /\ Late(S) /\ Known(S, H, T, U) /\ (~on => T = {} /\ NoArrays(S, 0))
      /\ Answered(S, N, T) /\ Waiting(S, N, T) /\ Held(S, N, H, T, U)
  BY DEF Orderly
<1>2. x.kind # "message"
  BY <1>0, <1>1 DEF Waiting
<1>3. \A t, k : Coming(S, N, t, k) => Coming(S, M, t, k) \/ (x.kind = "subscribe" /\ x.topic = t)
  BY <1>0 DEF Coming
<1>4. Known(S, H, T2, U)
  <2>1. x.kind = "subscribe" => x.topic \in H
    BY <1>0, <1>1 DEF Known, Arrays
  <2>2. T2 \subseteq H
    BY <1>1, <2>1 DEF Known
  <2> QED BY <1>1, <2>2 DEF Known
<1>5. ~on => T2 = {} /\ NoArrays(S, 0)
  <2> SUFFICES ASSUME ~on PROVE T2 = {}
    BY <1>1
  <2>1. x.kind \notin Arrays
    BY <1>0, <1>1 DEF NoArrays
  <2> QED BY <1>1, <2>1 DEF Arrays
<1>6. CASE x.kind = "subscribe"
  <2>1. \A i \in 1..Len(M) : S[i].kind # "unsubscribe"
    BY <1>0, <1>1, <1>6 DEF Late
  <2>2. Answered(S, M, T2)
    BY <2>1 DEF Answered
  <2>3. Waiting(S, M, T2)
    <3> SUFFICES ASSUME NEW i \in 1..Len(S), i > Len(M)
                 PROVE  /\ S[i].kind # "message"
                        /\ S[i].kind = "unsubscribe" => S[i].topic \in T2 \/ Coming(S, M, S[i].topic, i)
      BY DEF Waiting
    <3>1. /\ S[i].kind # "message"
          /\ S[i].kind = "unsubscribe" => S[i].topic \in T \/ Coming(S, N, S[i].topic, i)
      BY <1>0, <1>1 DEF Waiting
    <3> QED BY <1>3, <1>6, <3>1
  <2>4. Held(S, M, H, T2, U)
    BY <1>1, <1>3, <1>6 DEF Held
  <2> QED BY <1>0, <1>1, <1>4, <1>5, <2>2, <2>3, <2>4 DEF Orderly
<1>7. CASE x.kind = "unsubscribe"
  <2>1. \A j \in 1..Len(S) : j > Len(N) + 1 =>
          S[j].kind # "subscribe" /\ (S[j].kind \in Arrays => S[j].topic # x.topic)
    BY <1>0, <1>1, <1>7 DEF Late
  <2>2. \A t, k : Coming(S, M, t, k) <=> Coming(S, N, t, k)
    BY <1>0, <1>7 DEF Coming
  <2>3. \A i \in 1..Len(S) : i > Len(N) + 1 /\ S[i].kind = "unsubscribe" => S[i].topic \in T2
    <3> SUFFICES ASSUME NEW i \in 1..Len(S), i > Len(N) + 1, S[i].kind = "unsubscribe"
                 PROVE  S[i].topic \in T2
      OBVIOUS
    <3>1. S[i].topic # x.topic
      BY <2>1 DEF Arrays
    <3>2. S[i].topic \in T \/ Coming(S, N, S[i].topic, i)
      BY <1>0, <1>1 DEF Waiting
    <3>3. ~Coming(S, M, S[i].topic, i)
      BY <1>0, <2>1 DEF Coming
    <3> QED BY <1>7, <2>2, <3>1, <3>2, <3>3
  <2>4. n = 0 => NoArrays(S, Len(N) + 1)
    <3> SUFFICES ASSUME n = 0, NEW i \in 1..Len(S), i > Len(N) + 1
                 PROVE  S[i].kind \notin Arrays
      BY DEF NoArrays
    <3>1. S[i].kind # "message"
      BY <1>0, <1>1 DEF Waiting
    <3> QED BY <1>7, <2>1, <2>3, <3>1 DEF Arrays
  <2>5. Answered(S, M, T2)
    <3> SUFFICES ASSUME NEW i \in 1..Len(M), S[i].kind = "unsubscribe"
                 PROVE  S[i].topic \notin T2 /\ (M[i] = 0 => T2 = {} /\ NoArrays(S, i))
      BY DEF Answered
    <3>1. CASE i \in 1..Len(N) /\ M[i] = N[i]
      BY <1>1, <1>7, <3>1 DEF Answered
    <3>2. CASE i = Len(N) + 1 /\ M[i] = n
      BY <1>7, <2>4, <3>2
    <3> QED BY <1>0, <3>1, <3>2
  <2>6. Waiting(S, M, T2)
    <3>1. \A i \in 1..Len(S) : i > Len(M) => S[i].kind # "message"
      BY <1>0, <1>1 DEF Waiting
    <3>2. \A i \in 1..Len(S) : i > Len(M) => i > Len(N) + 1
      BY <1>0
    <3> QED BY <2>3, <3>1, <3>2 DEF Waiting
  <2>7. Held(S, M, H, T2, U)
    <3>1. x.topic \in U
      BY <1>0, <1>1, <1>7 DEF Known
    <3> QED BY <1>1, <1>7, <2>2, <3>1 DEF Held
  <2> QED BY <1>0, <1>1, <1>4, <1>5, <2>5, <2>6, <2>7 DEF Orderly
<1>8. CASE x.kind \notin {"subscribe", "unsubscribe"}
  <2>1. T2 = T /\ \A t, k : Coming(S, N, t, k) => Coming(S, M, t, k)
    BY <1>3, <1>8
  <2>2. Answered(S, M, T2)
    BY <1>0, <1>1, <1>8, <2>1 DEF Answered
  <2>3. Waiting(S, M, T2)
    <3> SUFFICES ASSUME NEW i \in 1..Len(S), i > Len(M)
                 PROVE  /\ S[i].kind # "message"
                        /\ S[i].kind = "unsubscribe" => S[i].topic \in T2 \/ Coming(S, M, S[i].topic, i)
      BY DEF Waiting
    <3>1. i > Len(N)
      BY <1>0
    <3> QED BY <1>1, <2>1, <3>1 DEF Waiting
  <2>4. Held(S, M, H, T2, U)
    BY <1>1, <2>1 DEF Held
  <2> QED BY <1>0, <1>1, <1>4, <1>5, <2>2, <2>3, <2>4 DEF Orderly
<1> QED BY <1>6, <1>7, <1>8

\* The server publishes a message of a topic it knows.
LEMMA PushOrderly ==
    ASSUME NEW S \in Seq(Items), NEW R \in Seq(Items), NEW N \in Seq(Nat), NEW M \in Seq(Nat),
           NEW H, NEW T, NEW U, NEW on,
           Orderly(S, N, H, T, U, on), NEW x \in Items, Inserted(S, R, Len(N), x),
           NEW n \in Nat, Appended(N, M, n), x.kind = "message", x.topic \in T
    PROVE  Orderly(R, M, H, T, U, on)
<1>0. /\ Len(S) \in Nat /\ Len(N) \in Nat /\ Len(M) = Len(N) + 1 /\ Len(N) <= Len(S)
      /\ Len(R) = Len(S) + 1 /\ Len(M) <= Len(R)
  BY DEF Appended, Inserted, Orderly
<1>12. R[Len(N) + 1] = x /\ \A i \in (Len(N) + 1)..Len(S) : R[i + 1] = S[i]
  BY DEF Inserted
<1>10. \A i \in 1..Len(N) : i \in 1..Len(M) /\ i \in 1..Len(S) /\ M[i] = N[i] /\ R[i] = S[i]
  <2>1. \A i \in 1..Len(N) : i \in 1..Len(M) /\ i \in 1..Len(S)
    BY <1>0, SMTT(60)
  <2>2. \A i \in 1..Len(N) : M[i] = N[i]
    BY DEF Appended
  <2>3. \A i \in 1..Len(N) : R[i] = S[i]
    BY DEF Inserted
  <2> QED BY <2>1, <2>2, <2>3
<1>11. \A i \in 1..Len(M) : i \in 1..Len(N) \/ i = Len(N) + 1
  BY <1>0
<1>1. /\ Late(S) /\ Known(S, H, T, U) /\ on
      /\ Answered(S, N, T) /\ Waiting(S, N, T) /\ Held(S, N, H, T, U)
  BY DEF Orderly
<1>2. \A i \in 1..Len(R) :
        \/ i \in 1..Len(N) /\ R[i] = S[i]
        \/ i = Len(N) + 1
        \/ i > Len(N) + 1 /\ i - 1 \in 1..Len(S) /\ i - 1 > Len(N) /\ R[i] = S[i - 1]
  <2> SUFFICES ASSUME NEW i \in 1..Len(R), i > Len(N) + 1
               PROVE  i - 1 \in 1..Len(S) /\ i - 1 > Len(N) /\ R[i] = S[i - 1]
    <3>1. \A i \in 1..Len(R) : i \in 1..Len(N) \/ i = Len(N) + 1 \/ i > Len(N) + 1
      BY <1>0
    <3> QED BY <1>10, <3>1
  <2>1. i - 1 \in (Len(N) + 1)..Len(S) /\ (i - 1) + 1 = i /\ i - 1 \in 1..Len(S) /\ i - 1 > Len(N)
    BY <1>0
  <2>2. R[(i - 1) + 1] = S[i - 1]
    BY <1>12, <2>1
  <2> QED BY <2>1, <2>2
<1>3. \A i \in 1..Len(N) : S[i].kind = "unsubscribe" => S[i].topic # x.topic /\ N[i] # 0
  BY <1>1 DEF Answered
<1>4. Late(R)
  <2> SUFFICES ASSUME NEW i \in 1..Len(R), NEW j \in 1..Len(R), i < j, R[i].kind = "unsubscribe"
               PROVE  R[j].kind # "subscribe" /\ (R[j].kind \in Arrays => R[j].topic # R[i].topic)
    BY DEF Late
  <2>1. i # Len(N) + 1
    BY <1>12
  <2>2. CASE j = Len(N) + 1
    <3>1. i \in 1..Len(N)
      BY <1>0, <2>2
    <3> QED BY <1>3, <1>10, <1>12, <2>2, <3>1
  <2>3. CASE j # Len(N) + 1
    <3>1. PICK a \in 1..Len(S) : R[i] = S[a] /\ ((a = i /\ i \in 1..Len(N)) \/ (a = i - 1 /\ i > Len(N) + 1))
      BY <1>2, <1>10, <2>1
    <3>2. PICK b \in 1..Len(S) : R[j] = S[b] /\ ((b = j /\ j \in 1..Len(N)) \/ (b = j - 1 /\ j > Len(N) + 1))
      BY <1>2, <1>10, <2>3
    <3>3. a < b
      <4>1. CASE a = i /\ i \in 1..Len(N)
        BY <1>0, <3>1, <3>2, <4>1, SMTT(30)
      <4>2. CASE a = i - 1 /\ i > Len(N) + 1
        BY <1>0, <3>1, <3>2, <4>2
      <4> QED BY <3>1, <4>1, <4>2
    <3> QED BY <1>1, <3>1, <3>2, <3>3 DEF Late
  <2> QED BY <2>2, <2>3
<1>5. Known(R, H, T, U)
  <2> SUFFICES ASSUME NEW i \in 1..Len(R)
               PROVE  /\ R[i].kind \in Arrays => R[i].topic \in H
                      /\ R[i].kind = "unsubscribe" => R[i].topic \in U
    BY <1>1 DEF Known
  <2>1. CASE i = Len(N) + 1
    BY <1>1, <1>12, <2>1 DEF Known
  <2>2. CASE i # Len(N) + 1
    BY <1>1, <1>2, <1>10, <2>2 DEF Known
  <2> QED BY <2>1, <2>2
<1>6. Answered(R, M, T)
  <2>1. \A i \in 1..Len(M) : R[i].kind = "unsubscribe" =>
          i \in 1..Len(N) /\ M[i] = N[i] /\ R[i] = S[i]
    BY <1>10, <1>11, <1>12
  <2> QED BY <1>1, <1>3, <2>1 DEF Answered
<1>7. \A t : \A k \in 1..Len(S) + 1 : Coming(S, N, t, k) => Coming(R, M, t, k + 1)
  <2> SUFFICES ASSUME NEW t, NEW k \in 1..Len(S) + 1, NEW j \in 1..Len(S), Len(N) < j, j < k,
                      S[j].kind = "subscribe", S[j].topic = t
               PROVE  Coming(R, M, t, k + 1)
    BY DEF Coming
  <2>1. j \in (Len(N) + 1)..Len(S) /\ j + 1 \in 1..Len(R) /\ Len(M) < j + 1 /\ j + 1 < k + 1
    BY <1>0
  <2>2. R[j + 1] = S[j]
    BY <1>12, <2>1
  <2> QED BY <2>1, <2>2 DEF Coming
<1>8. Waiting(R, M, T)
  <2> SUFFICES ASSUME NEW i \in 1..Len(R), i > Len(M)
               PROVE  /\ R[i].kind # "message"
                      /\ R[i].kind = "unsubscribe" => R[i].topic \in T \/ Coming(R, M, R[i].topic, i)
    BY DEF Waiting
  <2>1. PICK k \in 1..Len(S) : k = i - 1 /\ k > Len(N) /\ R[i] = S[k]
    <3>1. i \notin 1..Len(N) /\ i # Len(N) + 1
      BY <1>0
    <3> QED BY <1>2, <3>1
  <2>2. /\ S[k].kind # "message"
        /\ S[k].kind = "unsubscribe" => S[k].topic \in T \/ Coming(S, N, S[k].topic, k)
    BY <1>1, <2>1 DEF Waiting
  <2>3. k \in 1..Len(S) + 1 /\ k + 1 = i
    BY <1>0, <2>1
  <2>4. Coming(S, N, S[k].topic, k) => Coming(R, M, S[k].topic, i)
    BY <1>7, <2>3
  <2> QED BY <2>1, <2>2, <2>4
<1>9. Held(R, M, H, T, U)
  <2>1. Len(S) + 1 \in 1..Len(S) + 1 /\ (Len(S) + 1) + 1 = Len(R) + 1
    BY <1>0
  <2>2. \A t : Coming(S, N, t, Len(S) + 1) => Coming(R, M, t, Len(R) + 1)
    BY <1>7, <2>1
  <2> QED BY <1>1, <2>2 DEF Held
<1> QED BY <1>0, <1>1, <1>4, <1>5, <1>6, <1>8, <1>9 DEF Orderly

\* redisProcessCallbacks takes the first reply; an unsubscribe takes its
\* callback away, and the last one ends the subscriptions.
LEMMA HandleOrderly ==
    ASSUME NEW S \in Seq(Items), NEW R \in Seq(Items), NEW N \in Seq(Nat), NEW M \in Seq(Nat),
           NEW H, NEW T, NEW U, NEW on, NEW H2, NEW on2,
           Orderly(S, N, H, T, U, on), Shifted(S, R), Shifted(N, M),
           S[1].kind = "unsubscribe" => H2 = H \ {S[1].topic} /\ (on2 <=> (on /\ N[1] # 0)),
           S[1].kind # "unsubscribe" => H2 = H /\ (on2 <=> on)
    PROVE  Orderly(R, M, H2, T, U, on2)
<1>0. /\ Len(S) \in Nat /\ Len(N) \in Nat /\ Len(M) \in Nat /\ Len(N) = Len(M) + 1
      /\ Len(R) \in Nat /\ Len(S) = Len(R) + 1 /\ Len(M) <= Len(R) /\ Len(N) <= Len(S)
  BY DEF Shifted, Orderly
<1>1. /\ Late(S) /\ Known(S, H, T, U) /\ (~on => T = {} /\ NoArrays(S, 0))
      /\ Answered(S, N, T) /\ Waiting(S, N, T) /\ Held(S, N, H, T, U)
  BY DEF Orderly
<1>2. \A i \in 1..Len(R) : i + 1 \in 1..Len(S) /\ i + 1 > 1 /\ i \in Nat
  BY <1>0
<1>3. \A i \in 1..Len(R) : R[i] = S[i + 1]
  BY DEF Shifted
<1>4. \A i \in 1..Len(M) : M[i] = N[i + 1] /\ i + 1 \in 1..Len(N) /\ i \in 1..Len(R) /\ R[i] = S[i + 1]
  <2>1. \A i \in 1..Len(M) : i + 1 \in 1..Len(N) /\ i \in 1..Len(R)
    BY <1>0
  <2>2. \A i \in 1..Len(M) : M[i] = N[i + 1]
    BY DEF Shifted
  <2> QED BY <1>3, <2>1, <2>2
<1>5. 1 \in 1..Len(S) /\ 1 \in 1..Len(N)
  BY <1>0
<1>6. Late(R)
  <2> SUFFICES ASSUME NEW i \in 1..Len(R), NEW j \in 1..Len(R), i < j, R[i].kind = "unsubscribe"
               PROVE  R[j].kind # "subscribe" /\ (R[j].kind \in Arrays => R[j].topic # R[i].topic)
    BY DEF Late
  <2>1. i + 1 < j + 1 /\ i + 1 \in 1..Len(S) /\ j + 1 \in 1..Len(S)
    BY <1>0
  <2>2. R[i] = S[i + 1] /\ R[j] = S[j + 1]
    BY <1>3
  <2>3. PICK a \in 1..Len(S), b \in 1..Len(S) : a < b /\ R[i] = S[a] /\ R[j] = S[b]
    BY <2>1, <2>2
  <2> QED BY <1>1, <2>3 DEF Late
<1>7. S[1].kind = "unsubscribe" => S[1].topic \notin T
  BY <1>1, <1>5 DEF Answered
<1>8. \A i \in 1..Len(R) : S[1].kind = "unsubscribe" /\ R[i].kind \in Arrays => R[i].topic # S[1].topic
  <2> SUFFICES ASSUME NEW i \in 1..Len(R), S[1].kind = "unsubscribe", R[i].kind \in Arrays
               PROVE  R[i].topic # S[1].topic
    OBVIOUS
  <2>1. PICK b \in 1..Len(S) : 1 < b /\ R[i] = S[b]
    BY <1>2, <1>3
  <2> QED BY <1>1, <1>5, <2>1 DEF Late
<1>9. Known(R, H2, T, U)
  <2>1. T \subseteq H2
    BY <1>1, <1>7 DEF Known
  <2>2. \A i \in 1..Len(R) : R[i].kind \in Arrays => R[i].topic \in H
    BY <1>1, <1>2, <1>3 DEF Known
  <2>3. \A i \in 1..Len(R) : R[i].kind = "unsubscribe" => R[i].topic \in U
    BY <1>1, <1>2, <1>3 DEF Known
  <2> QED BY <1>8, <2>1, <2>2, <2>3 DEF Known
<1>10. \A k \in Nat : NoArrays(S, k + 1) => NoArrays(R, k)
  <2> SUFFICES ASSUME NEW k \in Nat, NoArrays(S, k + 1), NEW i \in 1..Len(R), i > k
               PROVE  R[i].kind \notin Arrays
    BY DEF NoArrays
  <2>1. i + 1 \in 1..Len(S) /\ i + 1 > k + 1
    BY <1>0
  <2> QED BY <1>3, <2>1 DEF NoArrays
<1>11. ~on2 => T = {} /\ NoArrays(R, 0)
  <2>1. NoArrays(S, 0) => NoArrays(S, 0 + 1)
    BY <1>0 DEF NoArrays
  <2>2. CASE ~on
    BY <1>1, <1>10, <2>1, <2>2
  <2>3. CASE on /\ S[1].kind = "unsubscribe" /\ N[1] = 0
    <3>1. T = {} /\ NoArrays(S, 1) /\ 0 + 1 = 1 /\ 0 \in Nat
      BY <1>1, <1>5, <2>3 DEF Answered
    <3> QED BY <1>10, <3>1
  <2> QED BY <2>2, <2>3
<1>12. Answered(R, M, T)
  <2> SUFFICES ASSUME NEW i \in 1..Len(M), R[i].kind = "unsubscribe"
               PROVE  R[i].topic \notin T /\ (M[i] = 0 => T = {} /\ NoArrays(R, i))
    BY DEF Answered
  <2>1. S[i + 1].topic \notin T /\ (N[i + 1] = 0 => T = {} /\ NoArrays(S, i + 1))
    BY <1>1, <1>4 DEF Answered
  <2> QED BY <1>2, <1>4, <1>10, <2>1
<1>13. \A t : \A k \in 1..Len(S) + 1 : Coming(S, N, t, k + 1) => Coming(R, M, t, k)
  <2> SUFFICES ASSUME NEW t, NEW k \in 1..Len(S) + 1, NEW j \in 1..Len(S), Len(N) < j, j < k + 1,
                      S[j].kind = "subscribe", S[j].topic = t
               PROVE  Coming(R, M, t, k)
    BY DEF Coming
  <2>1. j - 1 \in 1..Len(R) /\ Len(M) < j - 1 /\ j - 1 < k /\ (j - 1) + 1 = j
    BY <1>0
  <2>2. R[j - 1] = S[j]
    BY <1>3, <2>1
  <2> QED BY <2>1, <2>2 DEF Coming
<1>14. Waiting(R, M, T)
  <2> SUFFICES ASSUME NEW i \in 1..Len(R), i > Len(M)
               PROVE  /\ R[i].kind # "message"
                      /\ R[i].kind = "unsubscribe" => R[i].topic \in T \/ Coming(R, M, R[i].topic, i)
    BY DEF Waiting
  <2>1. i + 1 \in 1..Len(S) /\ i + 1 > Len(N) /\ i \in 1..Len(S) + 1
    BY <1>0
  <2>2. /\ S[i + 1].kind # "message"
        /\ S[i + 1].kind = "unsubscribe" => S[i + 1].topic \in T \/ Coming(S, N, S[i + 1].topic, i + 1)
    BY <1>1, <2>1 DEF Waiting
  <2>3. R[i] = S[i + 1]
    BY <1>3
  <2>4. Coming(S, N, S[i + 1].topic, i + 1) => Coming(R, M, S[i + 1].topic, i)
    BY <1>13, <2>1
  <2> QED BY <2>2, <2>3, <2>4
<1>15. Held(R, M, H2, T, U)
  <2>1. Len(R) + 1 \in 1..Len(S) + 1 /\ (Len(R) + 1) + 1 = Len(S) + 1
    BY <1>0
  <2>2. \A t : Coming(S, N, t, Len(S) + 1) => Coming(R, M, t, Len(R) + 1)
    BY <1>13, <2>1
  <2> QED BY <1>1, <2>2 DEF Held
<1> QED BY <1>0, <1>6, <1>9, <1>11, <1>12, <1>14, <1>15 DEF Orderly

-----------------------------------------------------------------------------
(* The ordinary commands in the queue and the callbacks kept for them: Q   *)
(* for replies, V for invalid.                                             *)

\* The ids of the ordinary commands in the queue.
Gets(S) == {id \in Nat : \E i \in 1..Len(S) : S[i].kind = "get" /\ S[i].id = id}

\* No two items have an id in common, unless it is 0.
IdsDiffer(S) == \A i, j \in 1..Len(S) : i # j /\ S[i].id = S[j].id => S[i].id = 0

NoMonitors(S) == \A i \in 1..Len(S) : S[i].kind # "monitor"

\* There is a callback for each, and those in replies come first.
Matched(S, N, T, Q, V) ==
    /\ NoMonitors(S)
    /\ Len(Q) <= Len(S) /\ \A i \in 1..Len(Q) : S[i].kind = "get"
    /\ T # {} => Len(Q) <= Len(N)
    /\ IsFiniteSet(Gets(S)) /\ Cardinality(Gets(S)) = Len(Q) + Len(V)

\* Each has its own callback.
Paired(S, Q, V) ==
    /\ V = << >>
    /\ \A i \in 1..Len(Q) : Q[i] = S[i].id
    /\ \A i \in 1..Len(S) : i > Len(Q) => S[i].kind # "get"

\* The ordinary commands of a queue after one item more.
LEMMA GetsAppended ==
    ASSUME NEW S \in Seq(Items), NEW R \in Seq(Items), NEW x \in Items, Appended(S, R, x)
    PROVE  Gets(R) = IF x.kind = "get" THEN Gets(S) \cup {x.id} ELSE Gets(S)
<1>0. Len(S) \in Nat /\ Len(R) = Len(S) + 1 /\ Len(S) + 1 \in 1..Len(R) /\ x.id \in Nat
      /\ R[Len(S) + 1] = x
  BY DEF Appended, Items
<1>1. \A i \in 1..Len(R) : i \in 1..Len(S) \/ i = Len(S) + 1
  BY <1>0
<1>2. \A i \in 1..Len(S) : i \in 1..Len(R) /\ R[i] = S[i]
  BY <1>0 DEF Appended
<1>3. \A id \in Nat : (\E i \in 1..Len(R) : R[i].kind = "get" /\ R[i].id = id) <=>
        \/ \E i \in 1..Len(S) : S[i].kind = "get" /\ S[i].id = id
        \/ x.kind = "get" /\ x.id = id
  BY ONLY <1>0, <1>1, <1>2
<1> QED BY <1>0, <1>3 DEF Gets

\* A message or a monitor line is no ordinary command.
LEMMA GetsInserted ==
    ASSUME NEW S \in Seq(Items), NEW R \in Seq(Items), NEW x \in Items, NEW k \in 0..Len(S),
           Inserted(S, R, k, x), x.kind # "get"
    PROVE  Gets(R) = Gets(S)
<1>0. Len(S) \in Nat /\ k \in Nat /\ Len(R) = Len(S) + 1 /\ R[k + 1] = x
  BY DEF Inserted
<1>1. \A i \in 1..Len(S) : \E j \in 1..Len(R) : R[j] = S[i]
  <2> SUFFICES ASSUME NEW i \in 1..Len(S) PROVE \E j \in 1..Len(R) : R[j] = S[i]
    OBVIOUS
  <2>1. CASE i \in 1..k
    BY <1>0, <2>1 DEF Inserted
  <2>2. CASE i \in (k + 1)..Len(S)
    <3>1. i + 1 \in 1..Len(R)
      BY <1>0
    <3>2. R[i + 1] = S[i]
      BY <2>2 DEF Inserted
    <3> QED BY <3>1, <3>2
  <2> QED BY <1>0, <2>1, <2>2
<1>2. \A j \in 1..Len(R) : j # k + 1 => \E i \in 1..Len(S) : R[j] = S[i]
  <2> SUFFICES ASSUME NEW j \in 1..Len(R), j # k + 1 PROVE \E i \in 1..Len(S) : R[j] = S[i]
    OBVIOUS
  <2>1. CASE j \in 1..k
    BY <1>0, <2>1 DEF Inserted
  <2>2. CASE j - 1 \in (k + 1)..Len(S)
    <3>1. j - 1 \in 1..Len(S) /\ (j - 1) + 1 = j
      BY <1>0, <2>2
    <3>2. R[(j - 1) + 1] = S[j - 1]
      BY <2>2 DEF Inserted
    <3> QED BY <3>1, <3>2
  <2> QED BY <1>0, <2>1, <2>2
<1>3. \A id \in Nat : (\E i \in 1..Len(R) : R[i].kind = "get" /\ R[i].id = id) <=>
        \E i \in 1..Len(S) : S[i].kind = "get" /\ S[i].id = id
  BY <1>0, <1>1, <1>2, ZenonT(90)
<1> QED BY <1>3 DEF Gets

\* The ordinary commands of a queue after its first item is gone.
LEMMA GetsShifted ==
    ASSUME NEW S \in Seq(Items), NEW R \in Seq(Items), Shifted(S, R)
    PROVE  /\ S[1].kind # "get" => Gets(R) = Gets(S)
           /\ S[1].kind = "get" /\ S[1].id # 0 /\ IdsDiffer(S) =>
                Gets(R) = Gets(S) \ {S[1].id} /\ S[1].id \in Gets(S)
<1>0. Len(R) \in Nat /\ Len(S) = Len(R) + 1 /\ 1 \in 1..Len(S)
  BY DEF Shifted
<1>1. \A i \in 1..Len(R) : i + 1 \in 1..Len(S) /\ i + 1 # 1 /\ R[i] = S[i + 1]
  <2>1. \A i \in 1..Len(R) : i + 1 \in 1..Len(S) /\ i + 1 # 1
    BY <1>0
  <2> QED BY <2>1 DEF Shifted
<1>2. \A j \in 1..Len(S) : j # 1 => \E i \in 1..Len(R) : R[i] = S[j]
  <2> SUFFICES ASSUME NEW j \in 1..Len(S), j # 1 PROVE \E i \in 1..Len(R) : R[i] = S[j]
    OBVIOUS
  <2>1. j - 1 \in 1..Len(R) /\ (j - 1) + 1 = j
    BY <1>0
  <2> QED BY <1>1, <2>1
<1>5. \A i \in 1..Len(R) : \E j \in 1..Len(S) : j # 1 /\ R[i] = S[j]
  BY <1>1
<1>3. CASE S[1].kind # "get"
  <2>1. \A id \in Nat : (\E i \in 1..Len(R) : R[i].kind = "get" /\ R[i].id = id) =>
          \E i \in 1..Len(S) : S[i].kind = "get" /\ S[i].id = id
    BY ONLY <1>5
  <2>2. \A id \in Nat : (\E i \in 1..Len(S) : S[i].kind = "get" /\ S[i].id = id) =>
          \E i \in 1..Len(R) : R[i].kind = "get" /\ R[i].id = id
    BY <1>2, <1>3
  <2> QED BY <1>3, <2>1, <2>2 DEF Gets
<1>4. CASE S[1].kind = "get" /\ S[1].id # 0 /\ IdsDiffer(S)
  <2>1. S[1] \in Items
    BY <1>0
  <2>2. \A i \in 1..Len(R) : R[i].id # S[1].id
    BY <1>0, <1>1, <1>4 DEF IdsDiffer
  <2>3. \A id \in Nat : (\E i \in 1..Len(R) : R[i].kind = "get" /\ R[i].id = id) =>
          (\E i \in 1..Len(S) : S[i].kind = "get" /\ S[i].id = id) /\ id # S[1].id
    BY ONLY <1>5, <2>2
  <2>5. \A id \in Nat : (\E i \in 1..Len(S) : S[i].kind = "get" /\ S[i].id = id) /\ id # S[1].id =>
          \E i \in 1..Len(R) : R[i].kind = "get" /\ R[i].id = id
    BY <1>2
  <2>4. S[1].id \in Gets(S)
    BY <1>0, <1>4, <2>1 DEF Gets, Items
  <2> QED BY <1>4, <2>3, <2>4, <2>5, SMTT(60) DEF Gets
<1> QED BY <1>3, <1>4

\* An ordinary command on a context without subscriptions.
LEMMA GetMatched ==
    ASSUME NEW S \in Seq(Items), NEW R \in Seq(Items), NEW N, NEW Q \in Seq(Nat), NEW V \in Seq(Nat),
           NEW P \in Seq(Nat), Matched(S, N, {}, Q, V), NoArrays(S, 0), NEW x \in Items, Appended(S, R, x),
           x.kind = "get", x.id \notin Gets(S), Appended(Q, P, x.id)
    PROVE  Matched(R, N, {}, P, V) /\ (Paired(S, Q, V) => Paired(R, P, V))
<1>0. Len(S) \in Nat /\ Len(R) = Len(S) + 1 /\ Len(Q) \in Nat /\ Len(P) = Len(Q) + 1
      /\ Len(P) <= Len(R) /\ Len(V) \in Nat
  BY DEF Appended, Matched
<1>1. R[Len(S) + 1] = x /\ \A i \in 1..Len(S) : R[i] = S[i]
  BY DEF Appended
<1>2. \A i \in 1..Len(R) : i \in 1..Len(S) \/ i = Len(S) + 1
  BY <1>0
<1>3. \A i \in 1..Len(S) : S[i].kind = "get"
  <2> SUFFICES ASSUME NEW i \in 1..Len(S) PROVE S[i].kind = "get"
    OBVIOUS
  <2>3. S[i] \in Items
    OBVIOUS
  <2>1. S[i].kind \in Kinds
    BY <2>3 DEF Items
  <2>2. i > 0
    OBVIOUS
  <2> QED BY <2>1, <2>2 DEF Kinds, NoArrays, Matched, NoMonitors
<1>4. \A i \in 1..Len(R) : R[i].kind = "get"
  BY <1>1, <1>2, <1>3
<1>5. \A i \in 1..Len(P) : i \in 1..Len(R)
  BY <1>0
<1>6. Gets(R) = Gets(S) \cup {x.id}
  BY GetsAppended
<1>7. IsFiniteSet(Gets(R)) /\ Cardinality(Gets(R)) = Cardinality(Gets(S)) + 1
  BY <1>6, FS_AddElement DEF Matched
<1>8. Cardinality(Gets(R)) = Len(P) + Len(V)
  BY <1>0, <1>7 DEF Matched
<1>9. Matched(R, N, {}, P, V)
  BY <1>0, <1>4, <1>5, <1>7, <1>8 DEF Matched, NoMonitors
<1>10. ASSUME Paired(S, Q, V) PROVE Paired(R, P, V)
  <2>1. Len(Q) = Len(S)
    <3>1. \A i \in 1..Len(S) : ~(i > Len(Q))
      BY <1>3, <1>10 DEF Paired
    <3>2. Len(Q) <= Len(S)
      BY DEF Matched
    <3> QED BY <1>0, <3>1, <3>2, SMTT(60)
  <2>2. \A i \in 1..Len(P) : i \in 1..Len(Q) \/ i = Len(Q) + 1
    BY <1>0
  <2>3. P[Len(Q) + 1] = x.id /\ \A i \in 1..Len(Q) : P[i] = Q[i]
    BY DEF Appended
  <2>4. \A i \in 1..Len(P) : P[i] = R[i].id
    BY <1>1, <1>10, <2>1, <2>2, <2>3 DEF Paired
  <2>5. \A i \in 1..Len(R) : ~(i > Len(P))
    BY <1>0, <2>1
  <2> QED BY <1>10, <2>4, <2>5 DEF Paired
<1> QED BY <1>9, <1>10

\* An ordinary command on a subscribed context.
LEMMA MixedMatched ==
    ASSUME NEW S \in Seq(Items), NEW R \in Seq(Items), NEW N, NEW T, NEW Q \in Seq(Nat), NEW V \in Seq(Nat),
           NEW W \in Seq(Nat), Matched(S, N, T, Q, V), NEW x \in Items, Appended(S, R, x),
           x.kind = "get", x.id \notin Gets(S), Appended(V, W, x.id)
    PROVE  Matched(R, N, T, Q, W)
<1>0. Len(S) \in Nat /\ Len(R) = Len(S) + 1 /\ Len(Q) \in Nat /\ Len(W) = Len(V) + 1
      /\ Len(Q) <= Len(R) /\ Len(V) \in Nat /\ Len(Q) <= Len(S)
  BY DEF Appended, Matched
<1>1. R[Len(S) + 1] = x /\ \A i \in 1..Len(S) : R[i] = S[i]
  BY DEF Appended
<1>2. \A i \in 1..Len(R) : i \in 1..Len(S) \/ i = Len(S) + 1
  BY <1>0
<1>3. \A i \in 1..Len(Q) : i \in 1..Len(S)
  BY <1>0
<1>4. \A i \in 1..Len(Q) : R[i].kind = "get"
  BY <1>1, <1>3 DEF Matched
<1>6. Gets(R) = Gets(S) \cup {x.id}
  BY GetsAppended
<1>7. IsFiniteSet(Gets(R)) /\ Cardinality(Gets(R)) = Cardinality(Gets(S)) + 1
  BY <1>6, FS_AddElement DEF Matched
<1>8. Cardinality(Gets(R)) = Len(Q) + Len(W)
  BY <1>0, <1>7 DEF Matched
<1>9. NoMonitors(R)
  BY <1>1, <1>2 DEF Matched, NoMonitors
<1> QED BY <1>0, <1>4, <1>7, <1>8, <1>9 DEF Matched

\* A command about a topic.
LEMMA TopicMatched ==
    ASSUME NEW S \in Seq(Items), NEW R \in Seq(Items), NEW N, NEW T, NEW Q \in Seq(Nat), NEW V \in Seq(Nat),
           Matched(S, N, T, Q, V), NEW x \in Items, Appended(S, R, x), x.kind \in Arrays
    PROVE  Matched(R, N, T, Q, V) /\ (Paired(S, Q, V) => Paired(R, Q, V))
<1>0. Len(S) \in Nat /\ Len(R) = Len(S) + 1 /\ Len(Q) \in Nat
      /\ Len(Q) <= Len(R) /\ Len(V) \in Nat /\ Len(Q) <= Len(S)
  BY DEF Appended, Matched
<1>1. R[Len(S) + 1] = x /\ \A i \in 1..Len(S) : R[i] = S[i]
  BY DEF Appended
<1>2. \A i \in 1..Len(R) : i \in 1..Len(S) \/ i = Len(S) + 1
  BY <1>0
<1>3. \A i \in 1..Len(Q) : i \in 1..Len(S)
  BY <1>0
<1>4. \A i \in 1..Len(Q) : R[i].kind = "get"
  BY <1>1, <1>3 DEF Matched
<1>5. x.kind # "get" /\ x.kind # "monitor"
  BY DEF Arrays
<1>6. Gets(R) = Gets(S)
  BY <1>5, GetsAppended
<1>9. NoMonitors(R)
  BY <1>1, <1>2, <1>5 DEF Matched, NoMonitors
<1>10. Matched(R, N, T, Q, V)
  BY <1>0, <1>4, <1>6, <1>9 DEF Matched
<1>11. ASSUME Paired(S, Q, V) PROVE Paired(R, Q, V)
  <2>1. \A i \in 1..Len(Q) : Q[i] = R[i].id
    BY <1>1, <1>3, <1>11 DEF Paired
  <2>2. \A i \in 1..Len(R) : i > Len(Q) => R[i].kind # "get"
    BY <1>1, <1>2, <1>5, <1>11 DEF Paired
  <2> QED BY <1>11, <2>1, <2>2 DEF Paired
<1> QED BY <1>10, <1>11

\* The server answers a command.
LEMMA ExecuteMatched ==
    ASSUME NEW S \in Seq(Items), NEW N \in Seq(Nat), NEW M \in Seq(Nat), NEW n, Appended(N, M, n),
           NEW T, NEW T2, NEW Q \in Seq(Nat), NEW V \in Seq(Nat),
           Matched(S, N, T, Q, V), Len(N) < Len(S),
           T2 # {} => T # {} \/ S[Len(N) + 1].kind # "get"
    PROVE  Matched(S, M, T2, Q, V)
<1>0. Len(S) \in Nat /\ Len(N) \in Nat /\ Len(M) = Len(N) + 1 /\ Len(Q) \in Nat
  BY DEF Appended
<1>1. S[Len(N) + 1].kind # "get" => Len(Q) <= Len(N)
  <2> SUFFICES ASSUME ~(Len(Q) <= Len(N)) PROVE S[Len(N) + 1].kind = "get"
    OBVIOUS
  <2>1. Len(N) + 1 \in 1..Len(Q)
    BY <1>0
  <2> QED BY <2>1 DEF Matched
<1>2. T # {} => Len(Q) <= Len(N)
  BY DEF Matched
<1>3. Len(Q) <= Len(N) => Len(Q) <= Len(M)
  BY <1>0
<1> QED BY <1>1, <1>2, <1>3 DEF Matched

\* The server publishes a message of a topic.
LEMMA PushMatched ==
    ASSUME NEW S \in Seq(Items), NEW R \in Seq(Items), NEW N \in Seq(Nat), NEW M \in Seq(Nat), NEW n,
           Appended(N, M, n), NEW T, T # {}, NEW Q \in Seq(Nat), NEW V \in Seq(Nat),
           Matched(S, N, T, Q, V), Len(N) <= Len(S),
           NEW x \in Items, x.kind = "message", Inserted(S, R, Len(N), x)
    PROVE  Matched(R, M, T, Q, V) /\ (Paired(S, Q, V) => Paired(R, Q, V))
<1>0. /\ Len(S) \in Nat /\ Len(N) \in Nat /\ Len(M) = Len(N) + 1 /\ Len(Q) \in Nat /\ Len(R) = Len(S) + 1
      /\ Len(Q) <= Len(N)
  BY DEF Appended, Inserted, Matched
<1>1. \A i \in 1..Len(Q) : i \in 1..Len(N)
  BY <1>0
<1>2. \A i \in 1..Len(Q) : R[i] = S[i]
  BY <1>1 DEF Inserted
<1>3. \A j \in 1..Len(R) : R[j] = x \/ \E i \in 1..Len(S) : R[j] = S[i] /\ (j > Len(Q) => i > Len(Q))
  <2> SUFFICES ASSUME NEW j \in 1..Len(R), R[j] # x
               PROVE \E i \in 1..Len(S) : R[j] = S[i] /\ (j > Len(Q) => i > Len(Q))
    OBVIOUS
  <2>0. j # Len(N) + 1
    BY DEF Inserted
  <2>1. CASE j \in 1..Len(N)
    <3>1. j \in 1..Len(S)
      BY <1>0, <2>1
    <3>2. R[j] = S[j]
      BY <2>1 DEF Inserted
    <3> QED BY <3>1, <3>2
  <2>2. CASE j - 1 \in (Len(N) + 1)..Len(S)
    <3>1. j - 1 \in 1..Len(S) /\ (j - 1) + 1 = j /\ j - 1 > Len(Q)
      BY <1>0, <2>2
    <3>2. R[(j - 1) + 1] = S[j - 1]
      BY <2>2 DEF Inserted
    <3> QED BY <3>1, <3>2
  <2> QED BY <1>0, <2>0, <2>1, <2>2
<1>4. NoMonitors(R)
  BY <1>3 DEF Matched, NoMonitors
<1>5. Gets(R) = Gets(S)
  <2>1. Len(N) \in 0..Len(S)
    BY <1>0
  <2> QED BY <2>1, GetsInserted
<1>6. Matched(R, M, T, Q, V)
  <2>1. Len(Q) <= Len(R) /\ Len(Q) <= Len(M)
    BY <1>0
  <2> QED BY <1>2, <1>4, <1>5, <2>1 DEF Matched
<1>7. ASSUME Paired(S, Q, V) PROVE Paired(R, Q, V)
  <2>1. \A i \in 1..Len(Q) : Q[i] = R[i].id
    BY <1>2, <1>7 DEF Paired
  <2>2. \A j \in 1..Len(R) : j > Len(Q) => R[j].kind # "get"
    BY <1>3, <1>7 DEF Paired
  <2> QED BY <1>7, <2>1, <2>2 DEF Paired
<1> QED BY <1>6, <1>7

\* The first reply, to an ordinary command, finds a callback on one of the lists.
LEMMA CallbackThere ==
    ASSUME NEW S \in Seq(Items), NEW N, NEW T, NEW Q \in Seq(Nat), NEW V \in Seq(Nat),
           Matched(S, N, T, Q, V), S # << >>, S[1].kind = "get", Q = << >>
    PROVE  V # << >>
<1> SUFFICES ASSUME V = << >> PROVE FALSE
  OBVIOUS
<1>1. IsFiniteSet(Gets(S)) /\ Cardinality(Gets(S)) = 0
  BY DEF Matched
<1>2. Gets(S) = {}
  BY <1>1, FS_EmptySet
<1>3. 1 \in 1..Len(S) /\ S[1] \in Items
  BY EmptySeq
<1>4. S[1].id \in Gets(S)
  BY <1>3 DEF Gets, Items
<1> QED BY <1>2, <1>4

\* The first reply is handled.
\* What the reply x takes from the lists: the first callback in Q, or for an
\* ordinary command in V.
Taken(x, Q, V, P, W) ==
    /\ x.kind = "get" => x.id # 0
    /\ Q # << >> => Shifted(Q, P) /\ W = V
    /\ Q = << >> /\ x.kind = "get" => P = Q /\ Shifted(V, W)
    /\ Q = << >> /\ x.kind # "get" => P = Q /\ W = V

\* The first reply is handled.
LEMMA HandleMatched ==
    ASSUME NEW S \in Seq(Items), NEW R \in Seq(Items), NEW N \in Seq(Nat), NEW M \in Seq(Nat),
           Shifted(S, R), Shifted(N, M), NEW T, NEW Q \in Seq(Nat), NEW V \in Seq(Nat),
           NEW P \in Seq(Nat), NEW W \in Seq(Nat), Matched(S, N, T, Q, V),
           IdsDiffer(S), Taken(S[1], Q, V, P, W)
    PROVE  Matched(R, M, T, P, W) /\ (Paired(S, Q, V) => Paired(R, P, W))
<1>10. /\ S[1].kind = "get" => S[1].id # 0
       /\ Q # << >> => Shifted(Q, P) /\ W = V
       /\ Q = << >> /\ S[1].kind = "get" => P = Q /\ Shifted(V, W)
       /\ Q = << >> /\ S[1].kind # "get" => P = Q /\ W = V
  BY DEF Taken
<1> USE <1>10
<1>0. /\ Len(S) \in Nat /\ Len(N) \in Nat /\ Len(M) \in Nat /\ Len(N) = Len(M) + 1
      /\ Len(Q) \in Nat /\ Len(R) \in Nat /\ Len(S) = Len(R) + 1
      /\ Len(Q) <= Len(S) /\ (T # {} => Len(Q) <= Len(N)) /\ Len(V) \in Nat /\ Len(W) \in Nat /\ Len(P) \in Nat
  <2>1. /\ Len(S) \in Nat /\ Len(N) \in Nat /\ Len(M) \in Nat /\ Len(Q) \in Nat /\ Len(R) \in Nat
        /\ Len(V) \in Nat /\ Len(W) \in Nat /\ Len(P) \in Nat
    OBVIOUS
  <2>2. Len(N) = Len(M) + 1 /\ Len(S) = Len(R) + 1
    BY DEF Shifted
  <2>3. Len(Q) <= Len(S) /\ (T # {} => Len(Q) <= Len(N))
    BY DEF Matched
  <2> QED BY <2>1, <2>2, <2>3
<1>1. \A i \in 1..Len(R) : i + 1 \in 1..Len(S) /\ R[i] = S[i + 1]
  <2>1. \A i \in 1..Len(R) : i + 1 \in 1..Len(S)
    BY <1>0
  <2> QED BY <2>1 DEF Shifted
<1>2. NoMonitors(R)
  BY <1>1 DEF Matched, NoMonitors
<1>3. IsFiniteSet(Gets(S)) /\ Cardinality(Gets(S)) = Len(Q) + Len(V)
  BY DEF Matched
<1>4. CASE Q # << >>
  <2>1. Len(Q) = Len(P) + 1
    BY <1>4 DEF Shifted
  <2>2. 1 \in 1..Len(Q) /\ S[1].kind = "get"
    <3>1. 1 \in 1..Len(Q)
      BY <1>0, <2>1
    <3> QED BY <3>1 DEF Matched
  <2>3. Gets(R) = Gets(S) \ {S[1].id} /\ S[1].id \in Gets(S)
    BY <2>2, GetsShifted
  <2>4. IsFiniteSet(Gets(R)) /\ Cardinality(Gets(R)) = Cardinality(Gets(S)) - 1
    <3>1. IsFiniteSet(Gets(S) \ {S[1].id}) /\ Cardinality(Gets(S) \ {S[1].id}) = Cardinality(Gets(S)) - 1
      BY <1>3, <2>3, FS_RemoveElement
    <3> QED BY <2>3, <3>1
  <2>5. Cardinality(Gets(R)) = Len(P) + Len(W)
    <3>1. W = V /\ Len(W) = Len(V)
      BY <1>4
    <3>2. Len(Q) \in Nat /\ Len(P) \in Nat /\ Len(V) \in Nat
      BY <1>0
    <3>3. (Len(Q) + Len(V)) - 1 = Len(P) + Len(V)
      BY ONLY <2>1, <3>2
    <3> QED BY <1>3, <2>4, <3>1, <3>3
  <2>6. \A i \in 1..Len(P) : i + 1 \in 1..Len(Q) /\ i \in 1..Len(R)
    BY <1>0, <2>1
  <2>7. \A i \in 1..Len(P) : R[i].kind = "get"
    BY <1>1, <2>6 DEF Matched
  <2>8. Len(P) <= Len(R) /\ (T # {} => Len(P) <= Len(M))
    BY <1>0, <2>1
  <2>9. Matched(R, M, T, P, W)
    BY <1>2, <2>4, <2>5, <2>7, <2>8 DEF Matched
  <2>10. ASSUME Paired(S, Q, V) PROVE Paired(R, P, W)
    <3>1. \A i \in 1..Len(P) : P[i] = Q[i + 1]
      BY <1>4 DEF Shifted
    <3>2. \A i \in 1..Len(P) : P[i] = R[i].id
      BY <1>1, <2>6, <2>10, <3>1 DEF Paired
    <3>3. \A i \in 1..Len(R) : i > Len(P) => i + 1 > Len(Q)
      BY <1>0, <2>1
    <3>4. \A i \in 1..Len(R) : i > Len(P) => R[i].kind # "get"
      BY <1>1, <2>10, <3>3 DEF Paired
    <3> QED BY <1>4, <2>10, <3>2, <3>4 DEF Paired
  <2> QED BY <2>9, <2>10
<1>5. CASE Q = << >>
  <2>1. Len(Q) = 0 /\ P = Q /\ \A i \in 1..Len(Q) : FALSE
    BY <1>5
  <2>2. Len(P) <= Len(R) /\ Len(P) <= Len(M)
    BY <1>0, <2>1
  <2>3. CASE S[1].kind = "get"
    <3>1. Gets(R) = Gets(S) \ {S[1].id} /\ S[1].id \in Gets(S)
      BY <2>3, GetsShifted
    <3>2. IsFiniteSet(Gets(R)) /\ Cardinality(Gets(R)) = Cardinality(Gets(S)) - 1
      <4>1. IsFiniteSet(Gets(S) \ {S[1].id}) /\ Cardinality(Gets(S) \ {S[1].id}) = Cardinality(Gets(S)) - 1
        BY <1>3, <3>1, FS_RemoveElement
      <4> QED BY <3>1, <4>1
    <3>3. Len(V) = Len(W) + 1
      BY <1>5, <2>3 DEF Shifted
    <3>4. Cardinality(Gets(R)) = Len(P) + Len(W)
      BY <1>0, <1>3, <2>1, <3>2, <3>3
    <3>5. ~Paired(S, Q, V)
      BY <1>0, <3>3 DEF Paired
    <3> QED BY <1>2, <2>1, <2>2, <3>2, <3>4, <3>5 DEF Matched
  <2>4. CASE S[1].kind # "get"
    <3>1. Gets(R) = Gets(S)
      BY <2>4, GetsShifted
    <3>2. W = V
      BY <1>5, <2>4
    <3>3. Matched(R, M, T, P, W)
      BY <1>2, <1>3, <2>1, <2>2, <3>1, <3>2 DEF Matched
    <3>4. \A i \in 1..Len(S) : i > Len(Q)
      BY <2>1
    <3>5. ASSUME Paired(S, Q, V) PROVE Paired(R, P, W)
      BY <1>1, <2>1, <3>2, <3>4, <3>5 DEF Paired
    <3> QED BY <3>3, <3>5
  <2> QED BY <2>3, <2>4
<1> QED BY <1>4, <1>5

-----------------------------------------------------------------------------
(* The queue of a context: a are the replies that have arrived, u the ids  *)
(* of the commands C that were not answered.                               *)

Commands == [op : {"get", "subscribe", "unsubscribe", "monitor"}, topic : AllTopics]
Replies == [type : {"array", "string", "error"}, kind : Kinds, topic : AllTopics,
            n : Nat, id : Nat]

Item(kind, topic, id) == [kind |-> kind, topic |-> topic, id |-> id]
StreamOf(C, a, u) ==
    [i \in 1..(Len(a) + Len(u)) |->
       IF i <= Len(a) THEN Item(a[i].kind, a[i].topic, a[i].id)
       ELSE Item(C[u[i - Len(a)]].op, C[u[i - Len(a)]].topic, u[i - Len(a)])]
CountsOf(a) == [i \in 1..Len(a) |-> a[i].n]

Issued(C, u) == \A i \in 1..Len(u) : u[i] \in 1..Len(C)

\* The queue of a context is a sequence of items, replies first.
LEMMA StreamFacts ==
    ASSUME NEW C \in Seq(Commands), NEW a \in Seq(Replies), NEW u \in Seq(Nat), Issued(C, u)
    PROVE  /\ StreamOf(C, a, u) \in Seq(Items) /\ Len(StreamOf(C, a, u)) = Len(a) + Len(u)
           /\ \A i \in 1..Len(a) : StreamOf(C, a, u)[i] = Item(a[i].kind, a[i].topic, a[i].id)
           /\ \A i \in 1..Len(u) :
                StreamOf(C, a, u)[Len(a) + i] = Item(C[u[i]].op, C[u[i]].topic, u[i])
           /\ CountsOf(a) \in Seq(Nat) /\ Len(CountsOf(a)) = Len(a)
           /\ \A i \in 1..Len(a) : CountsOf(a)[i] = a[i].n
<1>0. Len(a) \in Nat /\ Len(u) \in Nat
  OBVIOUS
<1>1. \A i \in 1..Len(a) : a[i] \in Replies
  OBVIOUS
<1>2. \A i \in 1..Len(a) : Item(a[i].kind, a[i].topic, a[i].id) \in Items /\ a[i].n \in Nat
  BY <1>1 DEF Replies, Items, Item
<1>3. \A i \in 1..Len(u) : Item(C[u[i]].op, C[u[i]].topic, u[i]) \in Items
  <2> SUFFICES ASSUME NEW i \in 1..Len(u) PROVE Item(C[u[i]].op, C[u[i]].topic, u[i]) \in Items
    OBVIOUS
  <2>1. C[u[i]] \in Commands /\ u[i] \in Nat
    BY DEF Issued
  <2> QED BY <2>1 DEF Commands, Items, Item, Kinds, Arrays
<1>4. \A i \in 1..(Len(a) + Len(u)) : i <= Len(a) \/ i - Len(a) \in 1..Len(u)
  BY <1>0
<1>5. \A i \in 1..(Len(a) + Len(u)) :
        (IF i <= Len(a) THEN Item(a[i].kind, a[i].topic, a[i].id)
         ELSE Item(C[u[i - Len(a)]].op, C[u[i - Len(a)]].topic, u[i - Len(a)])) \in Items
  <2> SUFFICES ASSUME NEW i \in 1..(Len(a) + Len(u))
               PROVE (IF i <= Len(a) THEN Item(a[i].kind, a[i].topic, a[i].id)
                      ELSE Item(C[u[i - Len(a)]].op, C[u[i - Len(a)]].topic, u[i - Len(a)])) \in Items
    OBVIOUS
  <2>1. CASE i <= Len(a)
    <3>1. i \in 1..Len(a)
      BY <1>0, <2>1
    <3> QED BY <1>2, <2>1, <3>1
  <2>2. CASE ~(i <= Len(a))
    <3>1. i - Len(a) \in 1..Len(u)
      BY <1>4, <2>2
    <3> QED BY <1>3, <2>2, <3>1
  <2> QED BY <2>1, <2>2
<1>6. Len(a) + Len(u) \in Nat
  BY <1>0
<1>7. StreamOf(C, a, u) \in Seq(Items) /\ Len(StreamOf(C, a, u)) = Len(a) + Len(u)
  BY <1>5, <1>6 DEF StreamOf
<1>8. \A i \in 1..Len(a) : StreamOf(C, a, u)[i] = Item(a[i].kind, a[i].topic, a[i].id)
  <2>1. \A i \in 1..Len(a) : i \in 1..(Len(a) + Len(u)) /\ i <= Len(a)
    BY <1>0
  <2> QED BY <2>1 DEF StreamOf
<1>9. \A i \in 1..Len(u) : StreamOf(C, a, u)[Len(a) + i] = Item(C[u[i]].op, C[u[i]].topic, u[i])
  <2> SUFFICES ASSUME NEW i \in 1..Len(u)
               PROVE StreamOf(C, a, u)[Len(a) + i] = Item(C[u[i]].op, C[u[i]].topic, u[i])
    OBVIOUS
  <2>1. PICK k \in 1..(Len(a) + Len(u)) : k = Len(a) + i
    BY <1>0
  <2>2. ~(k <= Len(a)) /\ k - Len(a) = i
    BY <1>0, <2>1
  <2>3. StreamOf(C, a, u)[k] = Item(C[u[k - Len(a)]].op, C[u[k - Len(a)]].topic, u[k - Len(a)])
    BY <2>2 DEF StreamOf
  <2> QED BY <2>1, <2>2, <2>3
<1>10. /\ CountsOf(a) \in Seq(Nat) /\ Len(CountsOf(a)) = Len(a)
       /\ \A i \in 1..Len(a) : CountsOf(a)[i] = a[i].n
  BY <1>0, <1>2 DEF CountsOf
<1> QED BY <1>7, <1>8, <1>9, <1>10

\* A command is issued.
LEMMA CommandStream ==
    ASSUME NEW C \in Seq(Commands), NEW a \in Seq(Replies), NEW u \in Seq(Nat), Issued(C, u),
           NEW c \in Commands, NEW v, v = Append(u, Len(C) + 1)
    PROVE  /\ Append(C, c) \in Seq(Commands) /\ v \in Seq(Nat) /\ Issued(Append(C, c), v)
           /\ Appended(StreamOf(C, a, u), StreamOf(Append(C, c), a, v), Item(c.op, c.topic, Len(C) + 1))
<1>0. Len(a) \in Nat /\ Len(u) \in Nat /\ Len(C) \in Nat /\ Len(v) = Len(u) + 1
  OBVIOUS
<1>1. PICK D \in Seq(Commands) : D = Append(C, c)
  <2>1. Append(C, c) \in Seq(Commands)
    BY ONLY C \in Seq(Commands), c \in Commands
  <2> QED BY <2>1
<1>2. Len(D) = Len(C) + 1 /\ D[Len(C) + 1] = c /\ \A i \in 1..Len(C) : D[i] = C[i]
  BY <1>1
<1>3. v \in Seq(Nat) /\ v[Len(u) + 1] = Len(C) + 1 /\ \A i \in 1..Len(u) : v[i] = u[i]
  <2>1. PICK k \in Nat : k = Len(C) + 1
    BY <1>0
  <2>2. v = Append(u, k)
    BY <2>1
  <2> QED BY <2>1, <2>2
<1>4. \A i \in 1..Len(v) : i \in 1..Len(u) \/ i = Len(u) + 1
  BY <1>0
<1>5. Issued(D, v)
  <2> SUFFICES ASSUME NEW i \in 1..Len(v) PROVE v[i] \in 1..Len(D)
    BY DEF Issued
  <2>1. CASE i \in 1..Len(u)
    <3>1. v[i] \in 1..Len(C)
      BY <1>3, <2>1 DEF Issued
    <3> QED BY <1>0, <1>2, <3>1
  <2>2. CASE i = Len(u) + 1
    BY <1>0, <1>2, <1>3, <2>2
  <2> QED BY <1>4, <2>1, <2>2
<1>6. PICK S : S = StreamOf(C, a, u)
  OBVIOUS
<1>7. PICK R : R = StreamOf(D, a, v)
  OBVIOUS
<1>8. /\ Len(S) = Len(a) + Len(u)
      /\ \A i \in 1..Len(a) : S[i] = Item(a[i].kind, a[i].topic, a[i].id)
      /\ \A i \in 1..Len(u) : S[Len(a) + i] = Item(C[u[i]].op, C[u[i]].topic, u[i])
  BY <1>6, StreamFacts
<1>9. /\ Len(R) = Len(a) + Len(v)
      /\ \A i \in 1..Len(a) : R[i] = Item(a[i].kind, a[i].topic, a[i].id)
      /\ \A i \in 1..Len(v) : R[Len(a) + i] = Item(D[v[i]].op, D[v[i]].topic, v[i])
  BY <1>3, <1>5, <1>7, StreamFacts, ZenonT(60)
<1>10. \A i \in 1..Len(a) : R[i] = S[i]
  BY <1>8, <1>9
<1>11. \A i \in 1..Len(u) : R[Len(a) + i] = S[Len(a) + i]
  <2> SUFFICES ASSUME NEW i \in 1..Len(u) PROVE R[Len(a) + i] = S[Len(a) + i]
    OBVIOUS
  <2>1. i \in 1..Len(v) /\ v[i] = u[i] /\ u[i] \in 1..Len(C)
    BY <1>0, <1>3 DEF Issued
  <2>2. D[v[i]] = C[u[i]]
    BY <1>2, <2>1
  <2> QED BY <1>8, <1>9, <2>1, <2>2
<1>12. \A i \in 1..Len(S) : i \in 1..Len(a) \/ \E j \in 1..Len(u) : i = Len(a) + j
  <2> SUFFICES ASSUME NEW i \in 1..Len(S), i \notin 1..Len(a) PROVE \E j \in 1..Len(u) : i = Len(a) + j
    OBVIOUS
  <2>1. i - Len(a) \in 1..Len(u) /\ i = Len(a) + (i - Len(a))
    BY <1>0, <1>8
  <2> QED BY <2>1
<1>13. R[Len(a) + Len(v)] = Item(c.op, c.topic, Len(C) + 1)
  <2>1. Len(v) \in 1..Len(v)
    BY <1>0
  <2>2. D[v[Len(v)]] = c /\ v[Len(v)] = Len(C) + 1
    BY <1>0, <1>2, <1>3
  <2> QED BY <1>9, <2>1, <2>2
<1>14. Len(R) = Len(S) + 1 /\ Len(S) + 1 = Len(a) + Len(v)
  BY <1>0, <1>8, <1>9
<1>15. Appended(S, R, Item(c.op, c.topic, Len(C) + 1))
  BY <1>10, <1>11, <1>12, <1>13, <1>14 DEF Appended
<1> QED BY <1>1, <1>3, <1>5, <1>6, <1>7, <1>15

\* The first command without a reply is answered by r.
Answers(C, a, u, r, b, v) ==
    /\ u # << >> /\ b = Append(a, r) /\ v = Tail(u)
    /\ Item(r.kind, r.topic, r.id) = Item(C[u[1]].op, C[u[1]].topic, u[1])

\* The server answers a command r: the queue is the same, its front is longer.
LEMMA ExecuteStream ==
    ASSUME NEW C \in Seq(Commands), NEW a \in Seq(Replies), NEW u \in Seq(Nat), Issued(C, u),
           NEW r \in Replies, NEW b, NEW v, Answers(C, a, u, r, b, v)
    PROVE  /\ b \in Seq(Replies) /\ v \in Seq(Nat) /\ Issued(C, v) /\ Len(a) < Len(StreamOf(C, a, u))
           /\ u[1] \in 1..Len(C)
           /\ StreamOf(C, b, v) = StreamOf(C, a, u)
           /\ StreamOf(C, a, u)[Len(a) + 1] = Item(C[u[1]].op, C[u[1]].topic, u[1])
           /\ Appended(CountsOf(a), CountsOf(b), r.n)
<1> USE DEF Answers
<1>0. Len(a) \in Nat /\ Len(u) \in Nat /\ Len(u) > 0 /\ 1 \in 1..Len(u)
  BY EmptySeq
<1>1. b \in Seq(Replies) /\ Len(b) = Len(a) + 1 /\ b[Len(a) + 1] = r /\ \A i \in 1..Len(a) : b[i] = a[i]
  <2>1. Append(a, r) \in Seq(Replies)
    BY ONLY a \in Seq(Replies), r \in Replies
  <2>2. Len(Append(a, r)) = Len(a) + 1 /\ Append(a, r)[Len(a) + 1] = r
        /\ \A i \in 1..Len(a) : Append(a, r)[i] = a[i]
    BY ONLY a \in Seq(Replies), r \in Replies
  <2> QED BY <2>1, <2>2
<1>2. v \in Seq(Nat) /\ Len(v) = Len(u) - 1 /\ \A i \in 1..Len(v) : v[i] = u[i + 1]
  BY <1>0
<1>3. \A i \in 1..Len(v) : i + 1 \in 1..Len(u)
  BY <1>0, <1>2
<1>4. Issued(C, v)
  BY <1>2, <1>3 DEF Issued
<1>5. PICK S : S = StreamOf(C, a, u)
  OBVIOUS
<1>6. PICK R : R = StreamOf(C, b, v)
  OBVIOUS
<1>7. /\ S \in Seq(Items) /\ Len(S) = Len(a) + Len(u)
      /\ \A i \in 1..Len(a) : S[i] = Item(a[i].kind, a[i].topic, a[i].id)
      /\ \A i \in 1..Len(u) : S[Len(a) + i] = Item(C[u[i]].op, C[u[i]].topic, u[i])
      /\ CountsOf(a) \in Seq(Nat) /\ Len(CountsOf(a)) = Len(a)
      /\ \A i \in 1..Len(a) : CountsOf(a)[i] = a[i].n
  BY <1>5, StreamFacts
<1>8. /\ R \in Seq(Items) /\ Len(R) = Len(b) + Len(v)
      /\ \A i \in 1..Len(b) : R[i] = Item(b[i].kind, b[i].topic, b[i].id)
      /\ \A i \in 1..Len(v) : R[Len(b) + i] = Item(C[v[i]].op, C[v[i]].topic, v[i])
      /\ CountsOf(b) \in Seq(Nat) /\ Len(CountsOf(b)) = Len(b)
      /\ \A i \in 1..Len(b) : CountsOf(b)[i] = b[i].n
  <2>1. b \in Seq(Replies) /\ v \in Seq(Nat)
    BY <1>1, <1>2
  <2> QED BY ONLY C \in Seq(Commands), <1>4, <1>6, <2>1, StreamFacts
<1>9. Len(R) = Len(S) /\ Len(a) < Len(S) /\ Len(a) + 1 \in 1..Len(b)
  BY <1>0, <1>1, <1>2, <1>7, <1>8
<1>10. S[Len(a) + 1] = Item(C[u[1]].op, C[u[1]].topic, u[1])
  BY <1>0, <1>7
<1>11. R[Len(a) + 1] = Item(r.kind, r.topic, r.id)
  BY <1>1, <1>8, <1>9
<1>12. \A i \in 1..Len(a) : R[i] = S[i]
  <2>1. \A i \in 1..Len(a) : i \in 1..Len(b)
    BY <1>0, <1>1
  <2> QED BY <1>1, <1>7, <1>8, <2>1
<1>13. \A i \in 1..Len(v) : R[Len(b) + i] = S[Len(b) + i]
  <2> SUFFICES ASSUME NEW i \in 1..Len(v) PROVE R[Len(b) + i] = S[Len(b) + i]
    OBVIOUS
  <2>1. PICK j \in 1..Len(u) : j = i + 1
    BY <1>3
  <2>2. v[i] = u[j] /\ Len(a) + j = Len(b) + i
    BY <1>0, <1>1, <1>2, <2>1
  <2>3. S[Len(a) + j] = Item(C[u[j]].op, C[u[j]].topic, u[j])
    BY <1>7
  <2> QED BY <1>8, <2>2, <2>3
<1>14. \A i \in 1..Len(S) : i \in 1..Len(a) \/ i = Len(a) + 1 \/ \E j \in 1..Len(v) : i = Len(b) + j
  <2> SUFFICES ASSUME NEW i \in 1..Len(S), i \notin 1..Len(a), i # Len(a) + 1
               PROVE \E j \in 1..Len(v) : i = Len(b) + j
    OBVIOUS
  <2>1. i - Len(b) \in 1..Len(v) /\ i = Len(b) + (i - Len(b))
    BY <1>0, <1>1, <1>2, <1>7, SMTT(60)
  <2> QED BY <2>1
<1>15. \A i \in 1..Len(S) : R[i] = S[i]
  BY <1>10, <1>11, <1>12, <1>13, <1>14
<1>16. R = S
  BY <1>7, <1>8, <1>9, <1>15, SeqEqual, SMTT(60)
<1>17. Appended(CountsOf(a), CountsOf(b), r.n)
  <2>1. \A i \in 1..Len(a) : i \in 1..Len(b)
    BY <1>0, <1>1
  <2>4. \A i \in 1..Len(a) : CountsOf(b)[i] = b[i].n
    BY <1>8, <2>1
  <2>5. \A i \in 1..Len(a) : CountsOf(a)[i] = a[i].n
    BY <1>7
  <2>2. \A i \in 1..Len(a) : CountsOf(b)[i] = CountsOf(a)[i]
    BY <1>1, <2>4, <2>5
  <2>3. CountsOf(b)[Len(a) + 1] = r.n
    BY <1>1, <1>8, <1>9
  <2> QED BY <1>1, <1>7, <1>8, <2>2, <2>3 DEF Appended
<1>18. u[1] \in 1..Len(C)
  BY <1>0 DEF Issued
<1> QED BY <1>1, <1>2, <1>4, <1>5, <1>6, <1>9, <1>10, <1>16, <1>17, <1>18

\* The server sends r of its own.
LEMMA PushStream ==
    ASSUME NEW C \in Seq(Commands), NEW a \in Seq(Replies), NEW u \in Seq(Nat), Issued(C, u),
           NEW r \in Replies, NEW b, b = Append(a, r)
    PROVE  /\ b \in Seq(Replies)
           /\ Inserted(StreamOf(C, a, u), StreamOf(C, b, u), Len(a), Item(r.kind, r.topic, r.id))
           /\ Appended(CountsOf(a), CountsOf(b), r.n)
<1>0. Len(a) \in Nat /\ Len(u) \in Nat
  OBVIOUS
<1>1. b \in Seq(Replies) /\ Len(b) = Len(a) + 1 /\ b[Len(a) + 1] = r /\ \A i \in 1..Len(a) : b[i] = a[i]
  <2>1. Append(a, r) \in Seq(Replies)
    BY ONLY a \in Seq(Replies), r \in Replies
  <2>2. Len(Append(a, r)) = Len(a) + 1 /\ Append(a, r)[Len(a) + 1] = r
        /\ \A i \in 1..Len(a) : Append(a, r)[i] = a[i]
    BY ONLY a \in Seq(Replies), r \in Replies
  <2> QED BY <2>1, <2>2
<1>5. PICK S : S = StreamOf(C, a, u)
  OBVIOUS
<1>6. PICK R : R = StreamOf(C, b, u)
  OBVIOUS
<1>7. /\ S \in Seq(Items) /\ Len(S) = Len(a) + Len(u)
      /\ \A i \in 1..Len(a) : S[i] = Item(a[i].kind, a[i].topic, a[i].id)
      /\ \A i \in 1..Len(u) : S[Len(a) + i] = Item(C[u[i]].op, C[u[i]].topic, u[i])
      /\ CountsOf(a) \in Seq(Nat) /\ Len(CountsOf(a)) = Len(a)
      /\ \A i \in 1..Len(a) : CountsOf(a)[i] = a[i].n
  BY <1>5, StreamFacts
<1>8. /\ R \in Seq(Items) /\ Len(R) = Len(b) + Len(u)
      /\ \A i \in 1..Len(b) : R[i] = Item(b[i].kind, b[i].topic, b[i].id)
      /\ \A i \in 1..Len(u) : R[Len(b) + i] = Item(C[u[i]].op, C[u[i]].topic, u[i])
      /\ CountsOf(b) \in Seq(Nat) /\ Len(CountsOf(b)) = Len(b)
      /\ \A i \in 1..Len(b) : CountsOf(b)[i] = b[i].n
  <2>1. b \in Seq(Replies)
    BY <1>1
  <2> QED BY ONLY C \in Seq(Commands), u \in Seq(Nat), Issued(C, u), <1>6, <2>1, StreamFacts
<1>9. Len(R) = Len(S) + 1 /\ Len(a) + 1 \in 1..Len(b)
  BY <1>0, <1>1, <1>7, <1>8
<1>10. R[Len(a) + 1] = Item(r.kind, r.topic, r.id)
  BY <1>1, <1>8, <1>9
<1>11. \A i \in 1..Len(a) : i \in 1..Len(b) /\ b[i] = a[i]
  BY <1>0, <1>1
<1>12. \A i \in 1..Len(a) : R[i] = S[i]
  BY <1>7, <1>8, <1>11
<1>13. \A i \in (Len(a) + 1)..Len(S) : R[i + 1] = S[i]
  <2> SUFFICES ASSUME NEW i \in (Len(a) + 1)..Len(S) PROVE R[i + 1] = S[i]
    OBVIOUS
  <2>1. PICK j \in 1..Len(u) : j = i - Len(a)
    <3>1. Len(S) = Len(a) + Len(u)
      BY <1>7
    <3>2. i - Len(a) \in 1..Len(u)
      BY ONLY <1>0, <3>1, i \in (Len(a) + 1)..Len(S)
    <3> QED BY <3>2
  <2>2. i = Len(a) + j /\ i + 1 = Len(b) + j
    BY <1>0, <1>1, <2>1
  <2>3. S[Len(a) + j] = R[Len(b) + j]
    BY <1>7, <1>8
  <2> QED BY <2>2, <2>3
<1>14. Inserted(S, R, Len(a), Item(r.kind, r.topic, r.id))
  BY <1>9, <1>10, <1>12, <1>13 DEF Inserted
<1>17. Appended(CountsOf(a), CountsOf(b), r.n)
  <2>2. \A i \in 1..Len(a) : CountsOf(b)[i] = CountsOf(a)[i]
    BY <1>7, <1>8, <1>11
  <2>3. CountsOf(b)[Len(a) + 1] = r.n
    BY <1>1, <1>8, <1>9
  <2> QED BY <1>1, <1>7, <1>8, <2>2, <2>3 DEF Appended
<1> QED BY <1>1, <1>5, <1>6, <1>14, <1>17

\* The first reply is taken.
LEMMA HandleStream ==
    ASSUME NEW C \in Seq(Commands), NEW a \in Seq(Replies), NEW u \in Seq(Nat), Issued(C, u),
           a # << >>, NEW b, b = Tail(a)
    PROVE  /\ b \in Seq(Replies) /\ a[1] \in Replies
           /\ Shifted(StreamOf(C, a, u), StreamOf(C, b, u))
           /\ StreamOf(C, a, u)[1] = Item(a[1].kind, a[1].topic, a[1].id)
           /\ Shifted(CountsOf(a), CountsOf(b)) /\ CountsOf(a)[1] = a[1].n
<1>0. Len(a) \in Nat /\ Len(u) \in Nat /\ 1 \in 1..Len(a)
  BY EmptySeq
<1>1. b \in Seq(Replies) /\ Len(b) = Len(a) - 1 /\ \A i \in 1..Len(b) : b[i] = a[i + 1]
  BY <1>0
<1>2. \A i \in 1..Len(b) : i + 1 \in 1..Len(a)
  BY <1>0, <1>1
<1>5. PICK S : S = StreamOf(C, a, u)
  OBVIOUS
<1>6. PICK R : R = StreamOf(C, b, u)
  OBVIOUS
<1>7. /\ S \in Seq(Items) /\ Len(S) = Len(a) + Len(u)
      /\ \A i \in 1..Len(a) : S[i] = Item(a[i].kind, a[i].topic, a[i].id)
      /\ \A i \in 1..Len(u) : S[Len(a) + i] = Item(C[u[i]].op, C[u[i]].topic, u[i])
      /\ CountsOf(a) \in Seq(Nat) /\ Len(CountsOf(a)) = Len(a)
      /\ \A i \in 1..Len(a) : CountsOf(a)[i] = a[i].n
  BY <1>5, StreamFacts
<1>8. /\ R \in Seq(Items) /\ Len(R) = Len(b) + Len(u)
      /\ \A i \in 1..Len(b) : R[i] = Item(b[i].kind, b[i].topic, b[i].id)
      /\ \A i \in 1..Len(u) : R[Len(b) + i] = Item(C[u[i]].op, C[u[i]].topic, u[i])
      /\ CountsOf(b) \in Seq(Nat) /\ Len(CountsOf(b)) = Len(b)
      /\ \A i \in 1..Len(b) : CountsOf(b)[i] = b[i].n
  <2>1. b \in Seq(Replies)
    BY <1>1
  <2> QED BY ONLY C \in Seq(Commands), u \in Seq(Nat), Issued(C, u), <1>6, <2>1, StreamFacts
<1>9. Len(S) = Len(R) + 1 /\ Len(a) = Len(b) + 1
  BY <1>0, <1>1, <1>7, <1>8
<1>10. \A i \in 1..Len(b) : R[i] = S[i + 1]
  BY <1>1, <1>2, <1>7, <1>8
<1>11. \A i \in 1..Len(u) : R[Len(b) + i] = S[(Len(b) + i) + 1]
  <2> SUFFICES ASSUME NEW i \in 1..Len(u) PROVE R[Len(b) + i] = S[(Len(b) + i) + 1]
    OBVIOUS
  <2>1. (Len(b) + i) + 1 = Len(a) + i
    BY <1>0, <1>1
  <2> QED BY <1>7, <1>8, <2>1
<1>12. \A i \in 1..Len(R) : i \in 1..Len(b) \/ \E j \in 1..Len(u) : i = Len(b) + j
  <2> SUFFICES ASSUME NEW i \in 1..Len(R), i \notin 1..Len(b) PROVE \E j \in 1..Len(u) : i = Len(b) + j
    OBVIOUS
  <2>1. i - Len(b) \in 1..Len(u) /\ i = Len(b) + (i - Len(b))
    BY <1>0, <1>1, <1>8
  <2> QED BY <2>1
<1>13. Shifted(S, R)
  BY <1>9, <1>10, <1>11, <1>12 DEF Shifted
<1>14. Shifted(CountsOf(a), CountsOf(b))
  <2>1. \A i \in 1..Len(b) : CountsOf(b)[i] = b[i].n
    BY <1>8
  <2>2. \A i \in 1..Len(b) : CountsOf(a)[i + 1] = a[i + 1].n
    BY <1>2, <1>7
  <2>3. \A i \in 1..Len(b) : b[i] = a[i + 1]
    BY <1>1
  <2>4. Len(CountsOf(a)) = Len(a) /\ Len(CountsOf(b)) = Len(b)
    BY <1>7, <1>8
  <2>5. \A i \in 1..Len(b) : CountsOf(b)[i] = CountsOf(a)[i + 1]
    BY ONLY <2>1, <2>2, <2>3
  <2> QED BY ONLY <1>9, <2>4, <2>5 DEF Shifted
<1> QED BY <1>0, <1>1, <1>5, <1>6, <1>7, <1>13, <1>14

-----------------------------------------------------------------------------
(* Where the items come from.                                              *)

\* A message has no id, an item with an id is about the command of this id.
Tagged(S, C) ==
    \A i \in 1..Len(S) :
      IF S[i].id = 0 THEN S[i].kind \in {"message", "monitor"}
      ELSE S[i].id \in 1..Len(C) /\ C[S[i].id] = Command(S[i].kind, S[i].topic)

\* K: the topics with a callback and those unsubscribed from.
Traced(S, C, K) ==
    /\ Tagged(S, C) /\ IdsDiffer(S)
    /\ \A i \in 1..Len(S) : S[i].kind \in Arrays => S[i].topic \in K

\* A command accepted is traced by its own id, which no other item has.
LEMMA CommandTraced ==
    ASSUME NEW S \in Seq(Items), NEW R \in Seq(Items), NEW C \in Seq(Commands), NEW K, NEW L, K \subseteq L,
           NEW c \in Commands, Traced(S, C, K), Appended(S, R, Item(c.op, c.topic, Len(C) + 1)),
           c.op \in Arrays => c.topic \in L
    PROVE  Traced(R, Append(C, c), L) /\ \A i \in 1..Len(S) : S[i].id # Len(C) + 1
<1>0. Len(S) \in Nat /\ Len(R) = Len(S) + 1 /\ Len(C) \in Nat
  BY DEF Appended
<1>1. PICK D \in Seq(Commands) : D = Append(C, c)
  <2>1. Append(C, c) \in Seq(Commands)
    BY ONLY C \in Seq(Commands), c \in Commands
  <2> QED BY <2>1
<1>2. Len(D) = Len(C) + 1 /\ D[Len(C) + 1] = c /\ \A i \in 1..Len(C) : D[i] = C[i]
  BY <1>1
<1>3. R[Len(S) + 1] = Item(c.op, c.topic, Len(C) + 1) /\ \A i \in 1..Len(S) : R[i] = S[i]
  BY DEF Appended
<1>4. \A i \in 1..Len(R) : i \in 1..Len(S) \/ i = Len(S) + 1
  BY <1>0
<1>5. PICK x : x = Item(c.op, c.topic, Len(C) + 1)
  OBVIOUS
<1>6. x.kind = c.op /\ x.topic = c.topic /\ x.id = Len(C) + 1
  BY <1>5 DEF Item
<1>7. c = Command(c.op, c.topic)
  BY DEF Commands, Command
<1>8. \A i \in 1..Len(S) : S[i].id = 0 \/ S[i].id \in 1..Len(C)
  BY DEF Traced, Tagged
<1>9. \A i \in 1..Len(S) : S[i].id # Len(C) + 1
  BY <1>0, <1>8
<1>10. Tagged(R, D)
  <2> SUFFICES ASSUME NEW i \in 1..Len(R)
               PROVE  IF R[i].id = 0 THEN R[i].kind \in {"message", "monitor"}
                      ELSE R[i].id \in 1..Len(D) /\ D[R[i].id] = Command(R[i].kind, R[i].topic)
    BY DEF Tagged
  <2>1. CASE i = Len(S) + 1
    <3>1. Len(C) + 1 # 0 /\ Len(C) + 1 \in 1..Len(D)
      BY <1>0, <1>2
    <3> QED BY <1>2, <1>3, <1>5, <1>6, <1>7, <2>1, <3>1
  <2>2. CASE i \in 1..Len(S)
    <3>1. IF S[i].id = 0 THEN S[i].kind \in {"message", "monitor"}
          ELSE S[i].id \in 1..Len(C) /\ C[S[i].id] = Command(S[i].kind, S[i].topic)
      BY <2>2 DEF Traced, Tagged
    <3>2. \A k \in 1..Len(C) : k \in 1..Len(D)
      BY <1>0, <1>2
    <3> QED BY <1>2, <1>3, <2>2, <3>1, <3>2
  <2> QED BY <1>4, <2>1, <2>2
<1>11. IdsDiffer(R)
  <2> SUFFICES ASSUME NEW i \in 1..Len(R), NEW j \in 1..Len(R), i # j, R[i].id = R[j].id
               PROVE  R[i].id = 0
    BY DEF IdsDiffer
  <2>1. CASE i \in 1..Len(S) /\ j \in 1..Len(S)
    BY <1>3, <2>1 DEF Traced, IdsDiffer
  <2>2. CASE i = Len(S) + 1 \/ j = Len(S) + 1
    BY <1>3, <1>4, <1>5, <1>6, <1>9, <2>2
  <2> QED BY <1>4, <2>1, <2>2
<1>12. \A i \in 1..Len(R) : R[i].kind \in Arrays => R[i].topic \in L
  <2>1. \A i \in 1..Len(S) : S[i].kind \in Arrays => S[i].topic \in L
    BY DEF Traced
  <2> QED BY <1>3, <1>4, <1>5, <1>6, <2>1
<1> QED BY <1>1, <1>9, <1>10, <1>11, <1>12 DEF Traced

\* What the server sends on its own has no id.
LEMMA PushTraced ==
    ASSUME NEW S \in Seq(Items), NEW R \in Seq(Items), NEW C, NEW K, NEW x \in Items, NEW k \in 0..Len(S),
           Traced(S, C, K), Inserted(S, R, k, x), x.id = 0, x.kind \in {"message", "monitor"},
           x.kind = "message" => x.topic \in K
    PROVE  Traced(R, C, K)
<1>0. Len(S) \in Nat /\ k \in Nat /\ Len(R) = Len(S) + 1 /\ R[k + 1] = x
  BY DEF Inserted
<1>2. \A j \in 1..Len(R) : j # k + 1 => \E i \in 1..Len(S) : R[j] = S[i] /\ i = IF j <= k THEN j ELSE j - 1
  <2> SUFFICES ASSUME NEW j \in 1..Len(R), j # k + 1
               PROVE \E i \in 1..Len(S) : R[j] = S[i] /\ i = IF j <= k THEN j ELSE j - 1
    OBVIOUS
  <2>1. CASE j \in 1..k
    <3>1. j \in 1..Len(S) /\ j <= k
      BY <1>0, <2>1
    <3>2. R[j] = S[j]
      BY <2>1 DEF Inserted
    <3> QED BY <3>1, <3>2
  <2>2. CASE j - 1 \in (k + 1)..Len(S)
    <3>1. j - 1 \in 1..Len(S) /\ (j - 1) + 1 = j /\ ~(j <= k)
      BY <1>0, <2>2
    <3>2. R[(j - 1) + 1] = S[j - 1]
      BY <2>2 DEF Inserted
    <3> QED BY <3>1, <3>2
  <2> QED BY <1>0, <2>1, <2>2
<1>3. Tagged(R, C)
  <2> SUFFICES ASSUME NEW j \in 1..Len(R)
               PROVE  IF R[j].id = 0 THEN R[j].kind \in {"message", "monitor"}
                      ELSE R[j].id \in 1..Len(C) /\ C[R[j].id] = Command(R[j].kind, R[j].topic)
    BY DEF Tagged
  <2>1. CASE j = k + 1
    BY <1>0, <2>1
  <2>2. CASE j # k + 1
    <3>1. PICK i \in 1..Len(S) : R[j] = S[i]
      BY <1>2, <2>2
    <3> QED BY <3>1 DEF Traced, Tagged
  <2> QED BY <2>1, <2>2
<1>4. IdsDiffer(R)
  <2> SUFFICES ASSUME NEW i \in 1..Len(R), NEW j \in 1..Len(R), i # j, R[i].id = R[j].id
               PROVE  R[i].id = 0
    BY DEF IdsDiffer
  <2>1. CASE i = k + 1 \/ j = k + 1
    BY <1>0, <2>1
  <2>2. CASE i # k + 1 /\ j # k + 1
    <3>1. PICK a \in 1..Len(S) : R[i] = S[a] /\ a = IF i <= k THEN i ELSE i - 1
      BY <1>2, <2>2
    <3>2. PICK b \in 1..Len(S) : R[j] = S[b] /\ b = IF j <= k THEN j ELSE j - 1
      BY <1>2, <2>2
    <3>3. a # b
      BY <1>0, <2>2, <3>1, <3>2
    <3> QED BY <3>1, <3>2, <3>3 DEF Traced, IdsDiffer
  <2> QED BY <2>1, <2>2
<1>5. \A j \in 1..Len(R) : R[j].kind \in Arrays => R[j].topic \in K
  <2> SUFFICES ASSUME NEW j \in 1..Len(R), R[j].kind \in Arrays PROVE R[j].topic \in K
    OBVIOUS
  <2>1. CASE j = k + 1
    BY <1>0, <2>1 DEF Arrays
  <2>2. CASE j # k + 1
    <3>1. PICK i \in 1..Len(S) : R[j] = S[i]
      BY <1>2, <2>2
    <3> QED BY <3>1 DEF Traced
  <2> QED BY <2>1, <2>2
<1> QED BY <1>3, <1>4, <1>5 DEF Traced

\* The items left are traced as before.
LEMMA HandleTraced ==
    ASSUME NEW S \in Seq(Items), NEW R \in Seq(Items), NEW C, NEW K, NEW L, K \subseteq L,
           Traced(S, C, K), Shifted(S, R)
    PROVE  Traced(R, C, L)
<1>0. Len(R) \in Nat /\ Len(S) = Len(R) + 1
  BY DEF Shifted
<1>1. \A i \in 1..Len(R) : i + 1 \in 1..Len(S) /\ R[i] = S[i + 1]
  <2>1. \A i \in 1..Len(R) : i + 1 \in 1..Len(S)
    BY <1>0
  <2> QED BY <2>1 DEF Shifted
<1>2. Tagged(R, C)
  BY <1>1 DEF Traced, Tagged
<1>3. IdsDiffer(R)
  <2> SUFFICES ASSUME NEW i \in 1..Len(R), NEW j \in 1..Len(R), i # j, R[i].id = R[j].id
               PROVE  R[i].id = 0
    BY DEF IdsDiffer
  <2>1. i + 1 # j + 1
    BY <1>0
  <2> QED BY <1>1, <2>1, SMTT(60) DEF Traced, IdsDiffer
<1>4. \A i \in 1..Len(R) : R[i].kind \in Arrays => R[i].topic \in L
  BY <1>1 DEF Traced
<1> QED BY <1>2, <1>3, <1>4 DEF Traced

-----------------------------------------------------------------------------
(* The two dictionaries s of callbacks, one of patterns, one of channels.  *)

Callable(s) == {t \in AllTopics : dictHas(s[t[1]], t[2])}

\* A callback belongs to the command that subscribed to its topic.
Entitled(s, C) ==
    \A p \in BOOLEAN : \A x \in Entries : Member(s[p].table, x) =>
      x.val \in 1..Len(C) /\ C[x.val] = Command("subscribe", <<p, x.key>>)

SubOK(s, C) ==
    /\ s \in [BOOLEAN -> Tables] /\ \A p \in BOOLEAN : Good(s[p])
    /\ Entitled(s, C)

\* Members of a well-formed table are entries.
LEMMA MembersAreEntries ==
    ASSUME NEW ht, Good(ht), NEW x, Member(ht.table, x)
    PROVE  x \in Entries
<1>1. ht.table \in Seq(Seq(Entries))
  BY DEF Good, Tables, Chains
<1>2. PICK h \in 1..Len(ht.table) : \E i \in 1..Len(ht.table[h]) : ht.table[h][i] = x
  BY DEF Member
<1>3. ht.table[h] \in Seq(Entries)
  BY <1>1
<1>4. PICK i \in 1..Len(ht.table[h]) : ht.table[h][i] = x
  BY <1>2
<1> QED BY <1>3, <1>4

\* A topic has a callback just when there is an entry with its name.
LEMMA CallableMember ==
    ASSUME NEW s, \A p \in BOOLEAN : Good(s[p]), NEW t \in AllTopics
    PROVE  t \in Callable(s) <=> \E x \in Entries : Member(s[t[1]].table, x) /\ x.key = t[2]
<1>1. t[1] \in BOOLEAN /\ t[2] \in Nat /\ Good(s[t[1]])
  BY DEF AllTopics
<1>2. dictHas(s[t[1]], t[2]) <=> \E x : Member(s[t[1]].table, x) /\ x.key = t[2]
  BY <1>1, HasFacts
<1>3. \A x : Member(s[t[1]].table, x) => x \in Entries
  BY <1>1, MembersAreEntries
<1> QED BY <1>2, <1>3 DEF Callable

\* The callback of a topic is that of a command that subscribed to it.
LEMMA FindCallback ==
    ASSUME NEW s, NEW C, SubOK(s, C), NEW t \in Callable(s)
    PROVE  /\ dictFind(s[t[1]], t[2]) \in 1..Len(C)
           /\ C[dictFind(s[t[1]], t[2])] = Command("subscribe", t)
<1>1. t \in AllTopics /\ dictHas(s[t[1]], t[2])
  BY DEF Callable
<1>2. t[1] \in BOOLEAN /\ t[2] \in Nat /\ Good(s[t[1]]) /\ t = <<t[1], t[2]>>
  BY <1>1 DEF AllTopics, SubOK
<1>3. PICK v : v = dictFind(s[t[1]], t[2])
  OBVIOUS
<1>4. v \in Nat /\ Member(s[t[1]].table, [key |-> t[2], val |-> v])
  BY <1>1, <1>2, <1>3, HasFacts
<1>5. PICK x \in Entries : x = [key |-> t[2], val |-> v]
  BY <1>2, <1>4 DEF Entries
<1>6. x.key = t[2] /\ x.val = v /\ Member(s[t[1]].table, x)
  BY <1>4, <1>5
<1>7. x.val \in 1..Len(C) /\ C[x.val] = Command("subscribe", <<t[1], x.key>>)
  BY <1>2, <1>6 DEF SubOK, Entitled
<1> QED BY <1>2, <1>3, <1>6, <1>7

\* A command was issued that is not a subscribe.
LEMMA IssueSub ==
    ASSUME NEW s, NEW C \in Seq(Commands), SubOK(s, C), NEW c \in Commands
    PROVE  SubOK(s, Append(C, c))
<1>1. PICK D \in Seq(Commands) : D = Append(C, c)
  <2>1. Append(C, c) \in Seq(Commands)
    BY ONLY C \in Seq(Commands), c \in Commands
  <2> QED BY <2>1
<1>2. Len(D) = Len(C) + 1 /\ \A i \in 1..Len(C) : i \in 1..Len(D) /\ D[i] = C[i]
  BY <1>1
<1>3. Entitled(s, D)
  BY <1>2 DEF SubOK, Entitled
<1> QED BY <1>1, <1>3 DEF SubOK

\* A callback is stored for a topic, or removed.
Stored(s, t, v, s2) == s2 = [s EXCEPT ![t[1]] = dictReplace(@, t[2], v)]
Removed(s, t, s2) == s2 = [s EXCEPT ![t[1]] = dictDelete(@, t[2])]

\* A subscribe sets the callback of its topic.
LEMMA SubscribeSub ==
    ASSUME NEW s, NEW C \in Seq(Commands), SubOK(s, C), NEW t \in AllTopics,
           NEW s2, Stored(s, t, Len(C) + 1, s2)
    PROVE  /\ SubOK(s2, Append(C, Command("subscribe", t)))
           /\ Callable(s2) = Callable(s) \cup {t}
<1>1. t[1] \in BOOLEAN /\ t[2] \in Nat /\ t = <<t[1], t[2]>> /\ Len(C) \in Nat
  BY DEF AllTopics
<1>2. PICK c \in Commands : c = Command("subscribe", t)
  BY DEF Command, Commands
<1>3. PICK D \in Seq(Commands) : D = Append(C, c)
  <2>1. Append(C, c) \in Seq(Commands)
    BY ONLY C \in Seq(Commands), c \in Commands
  <2> QED BY <2>1
<1>4. /\ Len(D) = Len(C) + 1 /\ D[Len(C) + 1] = c
      /\ \A i \in 1..Len(C) : i \in 1..Len(D) /\ D[i] = C[i]
  BY <1>3
<1>5. PICK p \in BOOLEAN : p = t[1]
  BY <1>1
<1>6. PICK k \in Nat : k = t[2]
  BY <1>1
<1>7. PICK v \in Nat : v = Len(C) + 1
  BY <1>1
<1>8. PICK ht : ht = dictReplace(s[p], k, v)
  OBVIOUS
<1>9. Good(s[p])
  BY DEF SubOK
<1>10. /\ Good(ht)
       /\ \A x : Member(ht.table, x) <=>
                   \/ x = [key |-> k, val |-> v]
                   \/ (Member(s[p].table, x) /\ x.key # k)
  BY <1>8, <1>9, ReplaceFacts
<1>11. s2 = [s EXCEPT ![p] = ht] /\ s \in [BOOLEAN -> Tables]
  BY <1>5, <1>6, <1>7, <1>8 DEF SubOK, Stored
<1>12. s2[p] = ht /\ \A q \in BOOLEAN : q # p => s2[q] = s[q]
  BY <1>11
<1>13. s2 \in [BOOLEAN -> Tables]
  <2>1. ht \in Tables
    BY <1>10 DEF Good
  <2> QED BY <1>11, <2>1
<1>14. \A q \in BOOLEAN : Good(s2[q])
  BY <1>10, <1>12 DEF SubOK
<1>15. Entitled(s2, D)
  <2> SUFFICES ASSUME NEW q \in BOOLEAN, NEW x \in Entries, Member(s2[q].table, x)
               PROVE  x.val \in 1..Len(D) /\ D[x.val] = Command("subscribe", <<q, x.key>>)
    BY DEF Entitled
  <2>1. CASE q = p /\ x = [key |-> k, val |-> v]
    <3>1. x.key = t[2] /\ x.val = Len(C) + 1
      BY <1>6, <1>7, <2>1
    <3>2. D[x.val] = Command("subscribe", <<t[1], t[2]>>)
      BY <1>1, <1>2, <1>4, <3>1
    <3>3. x.val \in 1..Len(D)
      BY <1>1, <1>4, <3>1
    <3> QED BY <1>5, <2>1, <3>1, <3>2, <3>3
  <2>2. CASE ~(q = p /\ x = [key |-> k, val |-> v])
    <3>1. Member(s[q].table, x)
      BY <1>10, <1>12, <2>2
    <3>2. x.val \in 1..Len(C) /\ C[x.val] = Command("subscribe", <<q, x.key>>)
      BY <3>1 DEF SubOK, Entitled
    <3> QED BY <1>4, <3>2
  <2> QED BY <2>1, <2>2
<1>16. \A r \in AllTopics : r \in Callable(s2) <=> r \in Callable(s) \/ r = t
  <2> SUFFICES ASSUME NEW r \in AllTopics PROVE r \in Callable(s2) <=> r \in Callable(s) \/ r = t
    OBVIOUS
  <2>1. r[1] \in BOOLEAN /\ r[2] \in Nat /\ r = <<r[1], r[2]>>
    BY DEF AllTopics
  <2>2. r \in Callable(s2) <=> \E x \in Entries : Member(s2[r[1]].table, x) /\ x.key = r[2]
    BY <1>14, CallableMember
  <2>3. r \in Callable(s) <=> \E x \in Entries : Member(s[r[1]].table, x) /\ x.key = r[2]
    BY CallableMember DEF SubOK
  <2>4. CASE r[1] # p
    BY <1>5, <1>12, <2>1, <2>2, <2>3, <2>4
  <2>5. CASE r[1] = p /\ r[2] # k
    <3>1. \A x \in Entries : x.key = r[2] => (Member(ht.table, x) <=> Member(s[p].table, x))
      BY <1>10, <2>5
    <3>2. r # t
      BY <1>6, <2>5
    <3> QED BY <1>12, <2>2, <2>3, <2>5, <3>1, <3>2
  <2>6. CASE r[1] = p /\ r[2] = k
    <3>1. r = t
      BY <1>1, <1>5, <1>6, <2>1, <2>6
    <3>2. PICK x \in Entries : x = [key |-> k, val |-> v]
      BY DEF Entries
    <3>3. Member(ht.table, x) /\ x.key = k
      BY <1>10, <3>2
    <3> QED BY <1>12, <2>2, <2>6, <3>1, <3>3
  <2> QED BY <2>4, <2>5, <2>6
<1>17. Callable(s2) = Callable(s) \cup {t}
  BY <1>16 DEF Callable
<1> QED BY <1>2, <1>3, <1>13, <1>14, <1>15, <1>17 DEF SubOK

\* An unsubscribe takes the callback of its topic away.
LEMMA UnsubscribeSub ==
    ASSUME NEW s, NEW C, SubOK(s, C), NEW t \in AllTopics,
           NEW s2, Removed(s, t, s2)
    PROVE  /\ SubOK(s2, C)
           /\ Callable(s2) = Callable(s) \ {t}
<1>1. t[1] \in BOOLEAN /\ t[2] \in Nat /\ t = <<t[1], t[2]>>
  BY DEF AllTopics
<1>5. PICK p \in BOOLEAN : p = t[1]
  BY <1>1
<1>6. PICK k \in Nat : k = t[2]
  BY <1>1
<1>8. PICK ht : ht = dictDelete(s[p], k)
  OBVIOUS
<1>9. Good(s[p])
  BY DEF SubOK
<1>10. /\ Good(ht)
       /\ \A x : Member(ht.table, x) <=> Member(s[p].table, x) /\ x.key # k
  BY <1>8, <1>9, DeleteFacts
<1>11. s2 = [s EXCEPT ![p] = ht] /\ s \in [BOOLEAN -> Tables]
  BY <1>5, <1>6, <1>8 DEF SubOK, Removed
<1>12. s2[p] = ht /\ \A q \in BOOLEAN : q # p => s2[q] = s[q]
  BY <1>11
<1>13. s2 \in [BOOLEAN -> Tables]
  <2>1. ht \in Tables
    BY <1>10 DEF Good
  <2> QED BY <1>11, <2>1
<1>14. \A q \in BOOLEAN : Good(s2[q])
  BY <1>10, <1>12 DEF SubOK
<1>15. Entitled(s2, C)
  <2> SUFFICES ASSUME NEW q \in BOOLEAN, NEW x \in Entries, Member(s2[q].table, x)
               PROVE  x.val \in 1..Len(C) /\ C[x.val] = Command("subscribe", <<q, x.key>>)
    BY DEF Entitled
  <2>1. Member(s[q].table, x)
    BY <1>10, <1>12
  <2> QED BY <2>1 DEF SubOK, Entitled
<1>16. \A r \in AllTopics : r \in Callable(s2) <=> r \in Callable(s) /\ r # t
  <2> SUFFICES ASSUME NEW r \in AllTopics PROVE r \in Callable(s2) <=> r \in Callable(s) /\ r # t
    OBVIOUS
  <2>1. r[1] \in BOOLEAN /\ r[2] \in Nat /\ r = <<r[1], r[2]>>
    BY DEF AllTopics
  <2>2. r \in Callable(s2) <=> \E x \in Entries : Member(s2[r[1]].table, x) /\ x.key = r[2]
    BY <1>14, CallableMember
  <2>3. r \in Callable(s) <=> \E x \in Entries : Member(s[r[1]].table, x) /\ x.key = r[2]
    BY CallableMember DEF SubOK
  <2>4. CASE r[1] # p
    BY <1>5, <1>12, <2>1, <2>2, <2>3, <2>4
  <2>5. CASE r[1] = p /\ r[2] # k
    <3>1. \A x \in Entries : x.key = r[2] => (Member(ht.table, x) <=> Member(s[p].table, x))
      BY <1>10, <2>5
    <3>2. r # t
      BY <1>6, <2>5
    <3> QED BY <1>12, <2>2, <2>3, <2>5, <3>1, <3>2
  <2>6. CASE r[1] = p /\ r[2] = k
    <3>1. r = t
      BY <1>1, <1>5, <1>6, <2>1, <2>6
    <3> QED BY <1>10, <1>12, <2>2, <2>6, <3>1
  <2> QED BY <2>4, <2>5, <2>6
<1>17. Callable(s2) = Callable(s) \ {t}
  BY <1>16 DEF Callable
<1> QED BY <1>13, <1>14, <1>15, <1>17 DEF SubOK

\* Empty dictionaries.
LEMMA CreateSub ==
    ASSUME NEW s, s = [p \in BOOLEAN |-> dictCreate], NEW C
    PROVE  SubOK(s, C) /\ Callable(s) = {}
<1>1. \A p \in BOOLEAN : s[p] = dictCreate /\ Good(s[p]) /\ \A x : ~Member(s[p].table, x)
  BY CreateFacts
<1>2. s \in [BOOLEAN -> Tables]
  BY CreateFacts DEF Good
<1>3. Entitled(s, C)
  BY <1>1 DEF Entitled
<1>4. \A t \in AllTopics : t \notin Callable(s)
  <2> SUFFICES ASSUME NEW t \in AllTopics, t \in Callable(s) PROVE FALSE
    OBVIOUS
  <2>1. t[1] \in BOOLEAN
    BY DEF AllTopics
  <2>2. PICK x \in Entries : Member(s[t[1]].table, x)
    BY <1>1, CallableMember
  <2> QED BY <1>1, <2>1, <2>2
<1>5. Callable(s) = {}
  BY <1>4 DEF Callable
<1> QED BY <1>1, <1>2, <1>3, <1>5 DEF SubOK

-----------------------------------------------------------------------------
(* The calls of the callbacks.                                             *)

\* Which callbacks are called, and how often a callback called once has been.
LEMMA CalledFacts ==
    ASSUME NEW r \in Seq(Nat), NEW s \in Seq(Nat)
    PROVE  /\ Called(r, s) \in Seq(Nat) /\ Len(Called(r, s)) = Len(r)
           /\ \A i \in 1..Len(r) : ~Contains(s, i) => Called(r, s)[i] = r[i]
           /\ \A i \in 1..Len(r) : \A j \in 1..Len(s) :
                r[i] = 0 /\ s[j] = i /\ (\A k \in 1..Len(s) : s[k] = i => k = j) => Called(r, s)[i] = 1
<1>0. DOMAIN r = 1..Len(r) /\ DOMAIN s = 1..Len(s) /\ Len(r) \in Nat /\ Len(s) \in Nat
  OBVIOUS
<1>1. \A i : i \in ToSet(s) <=> Contains(s, i)
  BY <1>0 DEF ToSet, Contains
<1>2. \A i \in 1..Len(r) : r[i] \in Nat
  OBVIOUS
<1>3. \A i \in 1..Len(r) :
        Called(r, s)[i] = IF i \in ToSet(s)
          THEN (IF r[i] + Cardinality({j \in DOMAIN s : s[j] = i}) > 1 THEN 2 ELSE 1)
          ELSE r[i]
  BY <1>0 DEF Called
<1>4. DOMAIN Called(r, s) = 1..Len(r)
  BY <1>0 DEF Called
<1>5. \A i \in 1..Len(r) : Called(r, s)[i] \in Nat
  <2>1. \A i \in 1..Len(r) : Called(r, s)[i] \in {1, 2, r[i]}
    BY <1>3, Zenon
  <2> QED BY <1>2, <2>1
<1>6. Called(r, s) = [i \in 1..Len(r) |-> Called(r, s)[i]]
  BY <1>0 DEF Called
<1>7. Called(r, s) \in Seq(Nat) /\ Len(Called(r, s)) = Len(r)
  <2> DEFINE c == Called(r, s)
  <2>1. c = [i \in 1..Len(r) |-> c[i]] /\ \A i \in 1..Len(r) : c[i] \in Nat
    BY <1>5, <1>6
  <2> HIDE DEF c
  <2>2. c \in Seq(Nat) /\ Len(c) = Len(r)
    BY <1>0, <2>1
  <2> QED BY <2>2 DEF c
<1>8. ASSUME NEW i \in 1..Len(r), NEW j \in 1..Len(s), r[i] = 0, s[j] = i,
             \A k \in 1..Len(s) : s[k] = i => k = j
      PROVE  Called(r, s)[i] = 1
  <2>1. {k \in DOMAIN s : s[k] = i} = {j}
    BY <1>0, <1>8
  <2>2. Cardinality({j}) = 1
    BY FS_Singleton
  <2>3. i \in ToSet(s)
    BY <1>0, <1>8 DEF ToSet
  <2> QED BY <1>3, <1>8, <2>1, <2>2, <2>3, SMTT(60)
<1> QED BY <1>1, <1>3, <1>7, <1>8

\* A callback that is not among those called.
LEMMA CalledNot ==
    ASSUME NEW r \in Seq(Nat), NEW s \in Seq(Nat), NEW i \in 1..Len(r), ~Contains(s, i)
    PROVE  Called(r, s)[i] = r[i]
BY CalledFacts

\* A callback called for the first time, and once.
LEMMA CalledFirst ==
    ASSUME NEW r \in Seq(Nat), NEW s \in Seq(Nat), NEW i \in 1..Len(r), NEW j \in 1..Len(s),
           r[i] = 0, s[j] = i, \A k \in 1..Len(s) : s[k] = i => k = j
    PROVE  Called(r, s)[i] = 1
BY CalledFacts, SMTT(60)

\* No callback is on a list twice.
NoTwice(s) == \A i, j \in 1..Len(s) : s[i] = s[j] => i = j

\* The callbacks on the lists Q (replies) and V (invalid) are those of the
\* ordinary commands of C that were not called yet; the others were called once.
Owed(Q, V, C, r) ==
    /\ NoTwice(Q) /\ NoTwice(V) /\ \A x : ~(Contains(Q, x) /\ Contains(V, x))
    /\ \A x : Contains(Q, x) \/ Contains(V, x) => x \in 1..Len(C) /\ C[x].op = "get"
    /\ \A id \in 1..Len(C) : C[id].op = "get" =>
         r[id] = IF Contains(Q, id) \/ Contains(V, id) THEN 0 ELSE 1

\* A new callback at the end of a list.
LEMMA AppendNoTwice ==
    ASSUME NEW s \in Seq(Nat), NEW x \in Nat, ~Contains(s, x), NEW t, t = Append(s, x)
    PROVE  /\ t \in Seq(Nat)
           /\ NoTwice(s) => NoTwice(t)
           /\ \A y : Contains(t, y) <=> Contains(s, y) \/ y = x
           /\ Appended(s, t, x)
<1>0. /\ t \in Seq(Nat) /\ Len(t) = Len(s) + 1 /\ t[Len(s) + 1] = x /\ Len(s) \in Nat
      /\ \A i \in 1..Len(s) : t[i] = s[i]
  OBVIOUS
<1>1. \A i \in 1..Len(t) : i \in 1..Len(s) \/ i = Len(s) + 1
  BY <1>0
<1>2. \A i \in 1..Len(s) : i \in 1..Len(t)
  BY <1>0
<1>3. Len(s) + 1 \in 1..Len(t)
  BY <1>0
<1>4. \A y : Contains(t, y) <=> Contains(s, y) \/ y = x
  BY <1>0, <1>1, <1>2, <1>3 DEF Contains
<1>5. ASSUME NoTwice(s) PROVE NoTwice(t)
  BY <1>0, <1>1, <1>5 DEF NoTwice, Contains
<1> QED BY <1>0, <1>4, <1>5 DEF Appended

\* The first callback leaves a list.
LEMMA TailNoTwice ==
    ASSUME NEW s \in Seq(Nat), s # << >>, NoTwice(s), NEW t, t = Tail(s)
    PROVE  /\ t \in Seq(Nat) /\ NoTwice(t) /\ Contains(s, s[1]) /\ Head(s) = s[1]
           /\ \A y : Contains(t, y) <=> Contains(s, y) /\ y # s[1]
           /\ Shifted(s, t)
<1>0. /\ t \in Seq(Nat) /\ Len(s) = Len(t) + 1 /\ Len(t) \in Nat /\ 1 \in 1..Len(s)
      /\ \A i \in 1..Len(t) : t[i] = s[i + 1]
  <2>1. Len(s) \in Nat \ {0}
    BY EmptySeq
  <2> QED BY <2>1, HeadTailProperties
<1>1. \A i \in 1..Len(t) : i + 1 \in 1..Len(s) /\ i + 1 # 1
  BY <1>0
<1>2. \A j \in 1..Len(s) : j = 1 \/ \E i \in 1..Len(t) : t[i] = s[j]
  <2> SUFFICES ASSUME NEW j \in 1..Len(s), j # 1 PROVE \E i \in 1..Len(t) : t[i] = s[j]
    OBVIOUS
  <2>1. j - 1 \in 1..Len(t) /\ (j - 1) + 1 = j
    BY <1>0
  <2>2. t[j - 1] = s[(j - 1) + 1]
    BY <1>0, <2>1
  <2> QED BY <2>1, <2>2
<1>3. \A y : Contains(t, y) => Contains(s, y) /\ y # s[1]
  BY <1>0, <1>1 DEF Contains, NoTwice
<1>4. \A y : Contains(s, y) /\ y # s[1] => Contains(t, y)
  BY <1>2 DEF Contains
<1>5. NoTwice(t)
  <2> SUFFICES ASSUME NEW i \in 1..Len(t), NEW j \in 1..Len(t), t[i] = t[j] PROVE i = j
    BY DEF NoTwice
  <2>1. i + 1 = j + 1
    BY <1>0, <1>1 DEF NoTwice
  <2> QED BY <2>1
<1>6. Contains(s, s[1])
  BY <1>0 DEF Contains
<1>7. Head(s) = s[1]
  OBVIOUS
<1> QED BY <1>0, <1>3, <1>4, <1>5, <1>6, <1>7 DEF Shifted

\* The callback of command n goes to one of the lists, if it is an ordinary one.
Enlisted(c, n, on, Q, V, P, W) ==
    /\ P = IF c.op = "get" /\ ~on THEN Append(Q, n) ELSE Q
    /\ W = IF c.op = "get" /\ on THEN Append(V, n) ELSE V

\* A command is issued; on is whether the context is subscribed.
LEMMA CommandOwed ==
    ASSUME NEW Q \in Seq(Nat), NEW V \in Seq(Nat), NEW C \in Seq(Commands), NEW r \in Seq(Nat),
           Len(r) = Len(C), Owed(Q, V, C, r), NEW c \in Commands, NEW P, NEW W, NEW on,
           c.op # "monitor", Enlisted(c, Len(C) + 1, on, Q, V, P, W)
    PROVE  /\ Owed(P, W, Append(C, c), Append(r, 0)) /\ P \in Seq(Nat) /\ W \in Seq(Nat)
<1> USE DEF Enlisted
<1>1. PICK D \in Seq(Commands) : D = Append(C, c)
  <2>1. Append(C, c) \in Seq(Commands)
    BY ONLY C \in Seq(Commands), c \in Commands
  <2> QED BY <2>1
<1>2. /\ Len(D) = Len(C) + 1 /\ D[Len(C) + 1] = c /\ Len(C) \in Nat
      /\ \A i \in 1..Len(C) : i \in 1..Len(D) /\ D[i] = C[i]
  BY <1>1
<1>3. PICK n \in Nat : n = Len(C) + 1
  BY <1>2
<1>4. PICK q \in Seq(Nat) : q = Append(r, 0)
  <2>1. Append(r, 0) \in Seq(Nat)
    BY ONLY r \in Seq(Nat)
  <2> QED BY <2>1
<1>5. q[n] = 0 /\ \A i \in 1..Len(C) : q[i] = r[i]
  BY <1>2, <1>3, <1>4
<1>6. \A i \in 1..Len(D) : i \in 1..Len(C) \/ i = n
  BY <1>2, <1>3
<1>7. n \notin 1..Len(C) /\ n \in 1..Len(D) /\ D[n] = c
  BY <1>2, <1>3
<1>8. ~Contains(Q, n) /\ ~Contains(V, n)
  BY <1>7 DEF Owed
<1>9. CASE c.op = "get" /\ ~on
  <2>1. P = Append(Q, n) /\ W = V
    BY <1>3, <1>9
  <2>2. /\ P \in Seq(Nat) /\ NoTwice(P) /\ \A y : Contains(P, y) <=> Contains(Q, y) \/ y = n
        /\ Appended(Q, P, n)
    BY <1>8, <2>1, AppendNoTwice DEF Owed
  <2>3. \A x : Contains(P, x) \/ Contains(W, x) => x \in 1..Len(D) /\ D[x].op = "get"
    BY <1>2, <1>7, <1>9, <2>1, <2>2 DEF Owed
  <2>4. \A x : ~(Contains(P, x) /\ Contains(W, x))
    BY <1>8, <2>1, <2>2 DEF Owed
  <2>5. \A id \in 1..Len(C) : D[id].op = "get" =>
          q[id] = IF Contains(P, id) \/ Contains(W, id) THEN 0 ELSE 1
    BY <1>2, <1>5, <1>7, <2>1, <2>2 DEF Owed
  <2>6. q[n] = IF Contains(P, n) \/ Contains(W, n) THEN 0 ELSE 1
    BY <1>5, <2>2
  <2>7. Owed(P, W, D, q)
    BY <1>6, <2>1, <2>2, <2>3, <2>4, <2>5, <2>6 DEF Owed
  <2> QED BY <1>1, <1>3, <1>4, <1>9, <2>1, <2>2, <2>7
<1>10. CASE c.op = "get" /\ on
  <2>1. W = Append(V, n) /\ P = Q
    BY <1>3, <1>10
  <2>2. /\ W \in Seq(Nat) /\ NoTwice(W) /\ \A y : Contains(W, y) <=> Contains(V, y) \/ y = n
        /\ Appended(V, W, n)
    BY <1>8, <2>1, AppendNoTwice DEF Owed
  <2>3. \A x : Contains(P, x) \/ Contains(W, x) => x \in 1..Len(D) /\ D[x].op = "get"
    BY <1>2, <1>7, <1>10, <2>1, <2>2 DEF Owed
  <2>4. \A x : ~(Contains(P, x) /\ Contains(W, x))
    BY <1>8, <2>1, <2>2 DEF Owed
  <2>5. \A id \in 1..Len(C) : D[id].op = "get" =>
          q[id] = IF Contains(P, id) \/ Contains(W, id) THEN 0 ELSE 1
    BY <1>2, <1>5, <1>7, <2>1, <2>2 DEF Owed
  <2>6. q[n] = IF Contains(P, n) \/ Contains(W, n) THEN 0 ELSE 1
    BY <1>5, <2>2
  <2>7. Owed(P, W, D, q)
    BY <1>6, <2>1, <2>2, <2>3, <2>4, <2>5, <2>6 DEF Owed
  <2> QED BY <1>1, <1>3, <1>4, <1>10, <2>1, <2>2, <2>7
<1>11. CASE c.op # "get"
  <2>1. W = V /\ P = Q
    BY <1>11
  <2>2. \A x : Contains(P, x) \/ Contains(W, x) => x \in 1..Len(D) /\ D[x].op = "get"
    BY <1>2, <2>1 DEF Owed
  <2>3. \A id \in 1..Len(C) : D[id].op = "get" =>
          q[id] = IF Contains(P, id) \/ Contains(W, id) THEN 0 ELSE 1
    BY <1>2, <1>5, <2>1 DEF Owed
  <2>4. \A id \in 1..Len(D) : D[id].op = "get" => id \in 1..Len(C)
    BY <1>6, <1>7, <1>11
  <2>5. Owed(P, W, D, q)
    BY <2>1, <2>2, <2>3, <2>4 DEF Owed
  <2> QED BY <1>1, <1>4, <1>11, <2>1, <2>5
<1> QED BY <1>9, <1>10, <1>11

\* The callback x is called: the first of Q or of V, or one of another kind.
Spent(x, C, Q, V, P, W) ==
    \/ Q # << >> /\ x = Head(Q) /\ P = Tail(Q) /\ W = V
    \/ V # << >> /\ x = Head(V) /\ P = Q /\ W = Tail(V)
    \/ P = Q /\ W = V /\ (x \in 1..Len(C) => C[x].op # "get")

\* A callback that is called is not owed any more.
LEMMA CallOwed ==
    ASSUME NEW Q \in Seq(Nat), NEW V \in Seq(Nat), NEW C \in Seq(Commands), NEW r \in Seq(Nat),
           Len(r) = Len(C), Owed(Q, V, C, r), NEW P, NEW W, NEW x \in Nat,
           Spent(x, C, Q, V, P, W)
    PROVE  /\ Owed(P, W, C, Called(r, <<x>>)) /\ P \in Seq(Nat) /\ W \in Seq(Nat)
           /\ Q # << >> /\ P = Tail(Q) => Shifted(Q, P)
           /\ V # << >> /\ W = Tail(V) => Shifted(V, W)
<1>1. PICK s \in Seq(Nat) : s = <<x>>
  <2>1. <<x>> \in Seq(Nat)
    OBVIOUS
  <2> QED BY <2>1
<1>10. Len(s) = 1 /\ s[1] = x
  BY <1>1
<1>11. 1 \in 1..Len(s) /\ \A k \in 1..Len(s) : k = 1
  BY <1>10
<1>2. \A i : Contains(s, i) <=> i = x
  BY <1>10, <1>11 DEF Contains
<1>3. PICK q : q = Called(r, s)
  OBVIOUS
<1>12. r \in Seq(Nat) /\ Len(r) = Len(C)
  OBVIOUS
<1>4. \A i \in 1..Len(C) : i # x => q[i] = r[i]
  BY <1>2, <1>3, <1>12, CalledNot
<1>5. x \in 1..Len(C) /\ r[x] = 0 => q[x] = 1
  <2> SUFFICES ASSUME x \in 1..Len(r), r[x] = 0 PROVE q[x] = 1
    BY <1>12
  <2>1. s[1] = x /\ 1 \in 1..Len(s) /\ \A k \in 1..Len(s) : s[k] = x => k = 1
    BY <1>10, <1>11
  <2> QED BY <1>3, <2>1, CalledFirst
<1>6. NoTwice(Q) /\ NoTwice(V)
  BY DEF Owed
<1>7. CASE Q # << >> /\ x = Head(Q) /\ P = Tail(Q) /\ W = V
  <2>1. /\ P \in Seq(Nat) /\ NoTwice(P) /\ Contains(Q, x) /\ Shifted(Q, P)
        /\ \A y : Contains(P, y) <=> Contains(Q, y) /\ y # x
    BY <1>6, <1>7, TailNoTwice
  <2>2. ~Contains(V, x) /\ x \in 1..Len(C) /\ C[x].op = "get" /\ r[x] = 0
    BY <2>1 DEF Owed
  <2>3. Owed(P, W, C, q)
    BY <1>4, <1>5, <1>6, <1>7, <2>1, <2>2 DEF Owed
  <2> QED BY <1>1, <1>3, <1>6, <1>7, <2>1, <2>3, TailNoTwice
<1>8. CASE V # << >> /\ x = Head(V) /\ P = Q /\ W = Tail(V)
  <2>1. /\ W \in Seq(Nat) /\ NoTwice(W) /\ Contains(V, x) /\ Shifted(V, W)
        /\ \A y : Contains(W, y) <=> Contains(V, y) /\ y # x
    BY <1>6, <1>8, TailNoTwice
  <2>2. ~Contains(Q, x) /\ x \in 1..Len(C) /\ C[x].op = "get" /\ r[x] = 0
    BY <2>1 DEF Owed
  <2>3. Owed(P, W, C, q)
    BY <1>4, <1>5, <1>6, <1>8, <2>1, <2>2 DEF Owed
  <2> QED BY <1>1, <1>3, <1>6, <1>8, <2>1, <2>3, TailNoTwice
<1>9. CASE P = Q /\ W = V /\ (x \in 1..Len(C) => C[x].op # "get")
  <2>1. Owed(P, W, C, q)
    BY <1>4, <1>9 DEF Owed
  <2> QED BY <1>1, <1>3, <1>6, <1>9, <2>1, TailNoTwice
<1> QED BY <1>7, <1>8, <1>9 DEF Spent

\* These callbacks are not of ordinary commands.
Spares(e, C) == \A x : Contains(e, x) => x \in 1..Len(C) /\ C[x].op # "get"

\* All callbacks left are called: those on the lists and those of topics.
LEMMA FreeOwed ==
    ASSUME NEW Q \in Seq(Nat), NEW V \in Seq(Nat), NEW C \in Seq(Commands), NEW r \in Seq(Nat),
           Len(r) = Len(C), Owed(Q, V, C, r), NEW e \in Seq(Nat), Spares(e, C)
    PROVE  \A id \in 1..Len(C) : C[id].op = "get" => Called(r, (Q \o V) \o e)[id] = 1
<1> SUFFICES ASSUME NEW id \in 1..Len(C), C[id].op = "get"
             PROVE  Called(r, (Q \o V) \o e)[id] = 1
  OBVIOUS
<1>10. PICK m \in Seq(Nat) : m = Q \o V
  BY ConcatProperties
<1>1. PICK s \in Seq(Nat) : s = (Q \o V) \o e
  BY <1>10, ConcatProperties
<1>2. /\ Len(Q) \in Nat /\ Len(V) \in Nat /\ Len(e) \in Nat
      /\ Len(s) = (Len(Q) + Len(V)) + Len(e)
  BY <1>1, <1>10, ConcatProperties
<1>3. \A i \in 1..Len(s) :
        s[i] = IF i <= Len(Q) THEN Q[i]
               ELSE IF i <= Len(Q) + Len(V) THEN V[i - Len(Q)]
               ELSE e[i - (Len(Q) + Len(V))]
  <2>2. Len(m) = Len(Q) + Len(V) /\ \A i \in 1..Len(m) : m[i] = IF i <= Len(Q) THEN Q[i] ELSE V[i - Len(Q)]
    BY <1>10, ConcatProperties
  <2>3. s = m \o e
    BY <1>1, <1>10
  <2>7. Len(s) = Len(m) + Len(e)
    BY <2>3, ConcatProperties
  <2>4. \A i \in 1..Len(s) : s[i] = IF i <= Len(m) THEN m[i] ELSE e[i - Len(m)]
    BY <2>3, <2>7, ConcatProperties
  <2>5. \A i \in 1..Len(s) : i <= Len(m) => i \in 1..Len(m)
    BY <1>2, <2>2
  <2>6. \A i \in 1..Len(s) : i <= Len(Q) => i <= Len(m)
    BY <1>2, <2>2
  <2> QED BY <2>2, <2>4, <2>5, <2>6
<1>4. \A i \in 1..Len(s) :
        \/ i \in 1..Len(Q) /\ s[i] = Q[i]
        \/ i - Len(Q) \in 1..Len(V) /\ s[i] = V[i - Len(Q)]
        \/ i - (Len(Q) + Len(V)) \in 1..Len(e) /\ s[i] = e[i - (Len(Q) + Len(V))]
  <2> SUFFICES ASSUME NEW i \in 1..Len(s)
               PROVE  \/ i \in 1..Len(Q) /\ s[i] = Q[i]
                      \/ i - Len(Q) \in 1..Len(V) /\ s[i] = V[i - Len(Q)]
                      \/ i - (Len(Q) + Len(V)) \in 1..Len(e) /\ s[i] = e[i - (Len(Q) + Len(V))]
    OBVIOUS
  <2>1. CASE i <= Len(Q)
    BY <1>2, <1>3, <2>1
  <2>2. CASE ~(i <= Len(Q)) /\ i <= Len(Q) + Len(V)
    <3>1. i - Len(Q) \in 1..Len(V)
      BY <1>2, <2>2
    <3> QED BY <1>3, <2>2, <3>1
  <2>3. CASE ~(i <= Len(Q)) /\ ~(i <= Len(Q) + Len(V))
    <3>1. i - (Len(Q) + Len(V)) \in 1..Len(e)
      BY <1>2, <2>3
    <3> QED BY <1>3, <2>3, <3>1
  <2> QED BY <2>1, <2>2, <2>3
<1>5. ~Contains(e, id)
  BY DEF Spares
<1>6. r[id] = IF Contains(Q, id) \/ Contains(V, id) THEN 0 ELSE 1
  BY DEF Owed
<1>7. CASE Contains(Q, id)
  <2>1. PICK j \in 1..Len(Q) : Q[j] = id
    BY <1>7 DEF Contains
  <2>2. ~Contains(V, id) /\ \A k \in 1..Len(Q) : Q[k] = id => k = j
    BY <1>7, <2>1 DEF Owed, NoTwice
  <2>6. j \in 1..Len(s) /\ j <= Len(Q)
    BY <1>2
  <2>3. j \in 1..Len(s) /\ s[j] = id
    BY <1>3, <2>1, <2>6
  <2>4. \A k \in 1..Len(s) : s[k] = id => k = j
    BY <1>4, <1>5, <2>2 DEF Contains
  <2>5. j \in 1..Len(s) /\ s[j] = id /\ r[id] = 0 /\ id \in 1..Len(r)
    BY <1>6, <1>7, <2>3
  <2>7. Called(r, s)[id] = 1
    BY <2>4, <2>5, CalledFirst
  <2> QED BY <1>1, <2>7
<1>8. CASE Contains(V, id)
  <2>1. PICK j \in 1..Len(V) : V[j] = id
    BY <1>8 DEF Contains
  <2>2. ~Contains(Q, id) /\ \A k \in 1..Len(V) : V[k] = id => k = j
    BY <1>8, <2>1 DEF Owed, NoTwice
  <2>3. PICK i \in 1..Len(s) : i = Len(Q) + j
    <3>2. j \in Nat /\ j >= 1 /\ j <= Len(V)
      BY <1>2
    <3>1. Len(Q) + j \in 1..Len(s)
      BY ONLY <1>2, <3>2, SMTT(60)
    <3> QED BY <3>1
  <2>6. ~(i <= Len(Q)) /\ i <= Len(Q) + Len(V) /\ i - Len(Q) = j
    BY <1>2, <2>3
  <2>7. s[i] = id
    BY <1>3, <2>1, <2>6
  <2>4. \A k \in 1..Len(s) : s[k] = id => k = i
    <3>1. \A k \in 1..Len(s) : s[k] = id => k - Len(Q) = j
      BY <1>4, <1>5, <2>2 DEF Contains
    <3> QED BY <1>2, <2>3, <3>1
  <2>5. r[id] = 0 /\ id \in 1..Len(r)
    BY <1>6, <1>8
  <2>8. Called(r, s)[id] = 1
    BY <2>4, <2>5, <2>7, CalledFirst
  <2> QED BY <1>1, <2>8
<1>9. CASE ~Contains(Q, id) /\ ~Contains(V, id)
  <2>1. ~Contains(s, id)
    BY <1>4, <1>5, <1>9 DEF Contains
  <2>2. id \in 1..Len(r) /\ r[id] = 1
    BY <1>6, <1>9
  <2>3. Called(r, s)[id] = r[id]
    BY <2>1, <2>2, CalledFacts
  <2> QED BY <1>1, <2>2, <2>3
<1> QED BY <1>7, <1>8, <1>9

-----------------------------------------------------------------------------
(* The invariant of the commands and their callbacks *)

Arrived == rbuf \o inbox
Unanswered == wire \o obuf
Stream == StreamOf(cmds, Arrived, Unanswered)
Counts == CountsOf(Arrived)

\* The topics the application unsubscribed from.
Left(C) == {C[i].topic : i \in {j \in 1..Len(C) : C[j].op = "unsubscribe"}}

On == "SUBSCRIBED" \in flags
Monitoring == "MONITORING" \in flags
Calm == seen \cap {"stray", "hasty", "shared"} = {}

Servers == [topics : SUBSET AllTopics, monitor : BOOLEAN, pushed : Nat]

\* The types, and the dictionaries as their lemmas want them.
Shape ==
    /\ cmds \in Seq(Commands) /\ runs \in Seq(Nat) /\ Len(runs) = Len(cmds)
    /\ \A i \in 1..Len(cmds) : cmds[i].op \in {"get", "monitor"} => cmds[i].topic = NoTopic
    /\ rbuf \in Seq(Replies) /\ inbox \in Seq(Replies)
    /\ wire \in Seq(Nat) /\ obuf \in Seq(Nat)
    /\ replies \in Seq(Nat) /\ invalid \in Seq(Nat) /\ cb \in Nat
    /\ server \in Servers /\ IsFiniteSet(server.topics)
    /\ SubOK(sub, cmds)

\* Whatever the application does: what is under way are its commands, in no
\* case twice, and what the server sends for them, and a topic the server knows
\* of has a callback or was unsubscribed from.
Genuine ==
    /\ Issued(cmds, Unanswered)
    /\ \A i \in 1..Len(Arrived) : Arrived[i].type = "array" <=> Arrived[i].kind \in Arrays
    /\ Traced(Stream, cmds, Callable(sub) \cup Left(cmds))
    /\ server.topics \subseteq Callable(sub) \cup Left(cmds)
    /\ phase = "idle" => rbuf = << >>
    /\ cmds = << >> => ~On /\ ~Monitoring

\* A context used for commands and subscriptions: the order of the queue gives
\* every reply a callback, and each callback left belongs to a command.
Queue ==
    /\ Orderly(Stream, Counts, Callable(sub), server.topics, Left(cmds), On)
    /\ Matched(Stream, Counts, server.topics, replies, invalid)
    /\ Owed(replies, invalid, cmds, runs)
    /\ ~server.monitor /\ \A i \in 1..Len(cmds) : cmds[i].op # "monitor"
    /\ cb \in 0..Len(cmds)

\* A context used for MONITOR only.
Alone ==
    /\ Len(cmds) = 1 /\ cmds[1].op = "monitor"
    /\ server.topics = {} /\ ~On /\ invalid = << >>
    /\ \A i \in 1..Len(Stream) : Stream[i].kind = "monitor"
    /\ \A i \in 1..Len(Arrived) : Arrived[i].type = "string"
\* The callback of MONITOR waits in replies, or is the one just called.
AlonePaired ==
    /\ phase = "idle" => replies = <<1>>
    /\ phase = "process" => \/ cb = 0 /\ replies = <<1>> /\ rbuf # << >>
                            \/ cb = 1 /\ replies = << >>

\* A context in use. Mixing ordinary commands with subscriptions costs the
\* pairing, a read that ends inside a reply that of MONITOR.
Live ==
    /\ Genuine
    /\ Calm /\ ~Monitoring =>
         Queue /\ ("mixed" \notin seen => Paired(Stream, replies, invalid))
    /\ Calm /\ Monitoring => Alone /\ ("partial" \notin seen => AlonePaired)

\* A context that is gone called the callback of each ordinary command.
Over ==
    Calm => \A id \in 1..Len(cmds) : cmds[id].op = "get" =>
      /\ runs[id] <= 1
      /\ mem = "freed" => runs[id] = 1

\* The inductive invariant.
Full ==
    /\ Inv /\ Shape
    /\ mem = "live" => Live
    /\ mem # "live" => Over
    /\ ReplyReachesItsCallback /\ AssertionsHold

\* What the application unsubscribed from after one more command.
LEMMA LeftAppend ==
    ASSUME NEW C \in Seq(Commands), NEW c \in Commands
    PROVE  Left(Append(C, c)) = IF c.op = "unsubscribe" THEN Left(C) \cup {c.topic} ELSE Left(C)
<1> DEFINE D == Append(C, c)
<1>1. Len(D) = Len(C) + 1 /\ D[Len(C) + 1] = c /\ Len(C) \in Nat
  OBVIOUS
<1>2. \A i \in 1..Len(C) : D[i] = C[i]
  OBVIOUS
<1>3. \A t : t \in Left(D) <=> \E i \in 1..Len(D) : D[i].op = "unsubscribe" /\ D[i].topic = t
  BY DEF Left
<1>4. \A t : t \in Left(C) <=> \E i \in 1..Len(C) : C[i].op = "unsubscribe" /\ C[i].topic = t
  BY DEF Left
<1> HIDE DEF D
<1>5. \A i : i \in 1..Len(D) <=> i \in 1..Len(C) \/ i = Len(C) + 1
  BY <1>1
<1>6. \A t : t \in Left(D) <=> t \in Left(C) \/ (c.op = "unsubscribe" /\ t = c.topic)
  BY <1>1, <1>2, <1>3, <1>4, <1>5
<1> QED BY <1>6 DEF D

\* An item that answers or is an unsubscribe tells what the application left.
LEMMA LeftHas ==
    ASSUME NEW C \in Seq(Commands), NEW i \in 1..Len(C), NEW t, C[i] = Command("unsubscribe", t)
    PROVE  t \in Left(C)
BY DEF Left, Command

\* The invariant gives what the operators on the stream need.
LEMMA StreamTypes ==
    ASSUME Shape
    PROVE  Arrived \in Seq(Replies) /\ Unanswered \in Seq(Nat)
BY DEF Shape, Arrived, Unanswered

\* Only the truth of the flag matters.
LEMMA OrderlyOn ==
    ASSUME NEW S, NEW N, NEW H, NEW T, NEW U, NEW on, NEW on2,
           Orderly(S, N, H, T, U, on), on2 <=> on
    PROVE  Orderly(S, N, H, T, U, on2)
BY DEF Orderly

\* A step that moves nothing between the application and the server.
LEMMA SameLive ==
    ASSUME Live, UNCHANGED <<cmds, runs, sub, replies, invalid, server>>,
           Arrived' = Arrived, Unanswered' = Unanswered,
           On' <=> On, Monitoring' <=> Monitoring, seen \subseteq seen',
           phase' = "idle" => rbuf' = << >>, cb' \in {0, cb},
           Monitoring /\ "partial" \notin seen' /\ AlonePaired /\ Alone => AlonePaired'
    PROVE  Live'
<1>1. Stream' = Stream /\ Counts' = Counts
  BY DEF Stream, Counts
<1>2. Genuine'
  BY <1>1 DEF Live, Genuine
<1>3. Calm' => Calm
  BY DEF Calm
<1>4. Queue => Queue'
  <2> SUFFICES ASSUME Queue PROVE Queue'
    OBVIOUS
  <2>1. Orderly(Stream, Counts, Callable(sub), server.topics, Left(cmds), On')
    BY OrderlyOn DEF Queue
  <2> QED BY <1>1, <2>1 DEF Queue
<1>5. Alone => Alone'
  BY <1>1 DEF Alone
<1>6. CASE Calm' /\ ~Monitoring'
  BY <1>1, <1>2, <1>3, <1>4, <1>6 DEF Live
<1>7. CASE Calm' /\ Monitoring'
  BY <1>2, <1>3, <1>5, <1>7 DEF Live
<1> QED BY <1>2, <1>6, <1>7 DEF Live

\* The callbacks in a dictionary are those of subscribe commands.
LEMMA ValuesFacts ==
    ASSUME NEW s, NEW C, SubOK(s, C), NEW p \in BOOLEAN
    PROVE  Values(s[p]) \in Seq(Nat) /\ Spares(Values(s[p]), C)
<1>1. PICK es \in Seq(Entries) : es = dictEntries(s[p])
  BY EntriesFacts DEF SubOK
<1>2. \A x : Contains(es, x) => x \in Entries /\ Member(s[p].table, x)
  BY <1>1, EntriesFacts DEF SubOK
<1>3. \A i \in 1..Len(es) : es[i] \in Entries /\ Member(s[p].table, es[i])
  BY <1>2 DEF Contains
<1>4. \A i \in 1..Len(es) : es[i].val \in 1..Len(C) /\ C[es[i].val].op = "subscribe"
  <2>1. \A x \in Entries : Member(s[p].table, x) =>
          x.val \in 1..Len(C) /\ C[x.val] = Command("subscribe", <<p, x.key>>)
    BY DEF SubOK, Entitled
  <2>2. \A x \in Entries : Command("subscribe", <<p, x.key>>).op = "subscribe"
    BY DEF Command
  <2>3. \A x \in Entries : Member(s[p].table, x) =>
          x.val \in 1..Len(C) /\ C[x.val].op = "subscribe"
    BY <2>1, <2>2
  <2> QED BY <1>3, <2>3
<1>5. DOMAIN es = 1..Len(es) /\ Len(es) \in Nat
  BY <1>1
<1>6. Values(s[p]) = [i \in 1..Len(es) |-> es[i].val]
  BY <1>1, <1>5 DEF Values
<1>7. \A i \in 1..Len(es) : es[i].val \in Nat
  BY <1>3 DEF Entries
<1>8. Values(s[p]) \in Seq(Nat) /\ Len(Values(s[p])) = Len(es)
  BY <1>5, <1>6, <1>7
<1> QED BY <1>4, <1>6, <1>8 DEF Contains, Spares

\* What __redisAsyncFree calls besides the callbacks on the two lists.
LEMMA PendingFacts ==
    ASSUME Shape
    PROVE  \E e \in Seq(Nat) :
             /\ Pending = (replies \o invalid) \o e /\ Pending \in Seq(Nat)
             /\ Spares(e, cmds)
<1>1. PICK v \in Seq(Nat) : v = Values(sub[FALSE])
  BY ValuesFacts DEF Shape
<1>2. PICK w \in Seq(Nat) : w = Values(sub[TRUE])
  BY ValuesFacts DEF Shape
<1>3. Spares(v, cmds) /\ Spares(w, cmds)
  BY <1>1, <1>2, ValuesFacts DEF Shape
<1>4. PICK q \in Seq(Nat) : q = replies \o invalid
  BY ConcatProperties DEF Shape
<1>5. PICK e \in Seq(Nat) : e = v \o w
  BY ConcatProperties
<1>6. Pending = q \o e
  <2>1. (q \o v) \o w = q \o (v \o w)
    BY ONLY q \in Seq(Nat), v \in Seq(Nat), w \in Seq(Nat)
  <2> QED BY <1>1, <1>2, <1>4, <1>5, <2>1 DEF Pending
<1>7. Pending \in Seq(Nat)
  BY <1>6, ConcatProperties
<1>8. Spares(e, cmds)
  BY <1>3, <1>5, ConcatContains DEF Spares
<1> QED BY <1>4, <1>6, <1>7, <1>8

\* What holds of a context with the lists, the dictionaries and the queue in
\* order, whether it is in use or gone.
Sound ==
    /\ Shape
    /\ mem = "live" => Live
    /\ mem # "live" => Over

\* __redisAsyncFree calls every callback that waits.
LEMMA FreeSound ==
    ASSUME Sound, mem = "live", asyncFree, UNCHANGED <<cmds, inbox, wire, server>>,
           seen \subseteq seen'
    PROVE  Sound'
<1>1. PICK e \in Seq(Nat) :
        /\ Pending = (replies \o invalid) \o e /\ Pending \in Seq(Nat)
        /\ Spares(e, cmds)
  BY PendingFacts DEF Sound
<1>2. runs' = Called(runs, Pending) /\ mem' = "freed"
  BY DEF asyncFree
<1>3. runs' \in Seq(Nat) /\ Len(runs') = Len(runs)
  BY <1>1, <1>2, CalledFacts DEF Sound, Shape
<1>4. SubOK(sub', cmds)
  BY CreateSub DEF asyncFree
<1>5. Shape'
  BY <1>3, <1>4 DEF Sound, Shape, asyncFree
<1>6. ASSUME Calm'
      PROVE  \A id \in 1..Len(cmds) : cmds[id].op = "get" => runs'[id] = 1
  <2>1. Calm
    BY <1>6 DEF Calm
  <2>2. CASE Monitoring
    <3>1. Len(cmds) = 1 /\ cmds[1].op = "monitor"
      BY <2>1, <2>2 DEF Sound, Live, Alone
    <3>2. \A id \in 1..Len(cmds) : cmds[id].op # "get"
      BY ONLY <3>1
    <3> QED BY <3>2
  <2>3. CASE ~Monitoring
    <3>1. Owed(replies, invalid, cmds, runs)
      BY <2>1, <2>3 DEF Sound, Live, Queue
    <3>2. /\ replies \in Seq(Nat) /\ invalid \in Seq(Nat) /\ cmds \in Seq(Commands)
          /\ runs \in Seq(Nat) /\ Len(runs) = Len(cmds)
      BY DEF Sound, Shape
    <3>3. \A id \in 1..Len(cmds) : cmds[id].op = "get" =>
            Called(runs, (replies \o invalid) \o e)[id] = 1
      BY ONLY <1>1, <3>1, <3>2, FreeOwed
    <3> QED BY <1>1, <1>2, <3>3
  <2> QED BY <2>2, <2>3
<1>7. Over'
  BY <1>6 DEF Over, asyncFree
<1> QED BY <1>2, <1>5, <1>7 DEF Sound

\* A step that moves nothing keeps what holds of a context in use.
LEMMA QuietSound ==
    ASSUME Sound, mem = "live", mem' = "live",
           UNCHANGED <<cmds, runs, sub, replies, invalid, server>>,
           rbuf' \in Seq(Replies), inbox' \in Seq(Replies), wire' \in Seq(Nat), obuf' \in Seq(Nat),
           Arrived' = Arrived, Unanswered' = Unanswered,
           On' <=> On, Monitoring' <=> Monitoring, seen \subseteq seen',
           phase' = "idle" => rbuf' = << >>, cb' \in {0, cb},
           Monitoring /\ "partial" \notin seen' /\ AlonePaired /\ Alone => AlonePaired'
    PROVE  Sound'
<1>1. Live'
  BY SameLive DEF Sound
<1>2. Shape'
  BY DEF Sound, Shape
<1> QED BY <1>1, <1>2 DEF Sound

\* A step of the event library or the network.
LEMMA StillSound ==
    ASSUME Sound, UNCHANGED <<context, cmds, inbox, wire, server>>, seen \subseteq seen'
    PROVE  Sound'
<1>1. UNCHANGED <<mem, flags, replies, invalid, sub, obuf, rbuf, phase, cb, runs>>
  BY DEF context
<1>2. Calm' => Calm
  BY DEF Calm
<1>3. CASE mem = "live"
  <2>1. Arrived' = Arrived /\ Unanswered' = Unanswered
    BY <1>1 DEF Arrived, Unanswered
  <2>2. (On' <=> On) /\ (Monitoring' <=> Monitoring) /\ (AlonePaired => AlonePaired')
    BY <1>1 DEF On, Monitoring, AlonePaired
  <2>3. /\ rbuf \in Seq(Replies) /\ inbox \in Seq(Replies) /\ wire \in Seq(Nat)
        /\ obuf \in Seq(Nat)
        /\ phase = "idle" => rbuf = << >>
    BY <1>3 DEF Sound, Shape, Live, Genuine
  <2>4. /\ mem' = "live" /\ UNCHANGED <<cmds, runs, sub, replies, invalid, server>>
        /\ rbuf' \in Seq(Replies) /\ inbox' \in Seq(Replies) /\ wire' \in Seq(Nat)
        /\ obuf' \in Seq(Nat) /\ cb' \in {0, cb}
        /\ phase' = "idle" => rbuf' = << >>
    BY <1>1, <1>3, <2>3
  <2> QED BY <1>3, <2>1, <2>2, <2>4, QuietSound
<1>4. CASE mem # "live"
  <2>1. Shape'
    BY <1>1 DEF Sound, Shape
  <2>2. Over'
    BY <1>1, <1>2, <1>4 DEF Sound, Over
  <2> QED BY <1>1, <1>4, <2>1, <2>2 DEF Sound
<1> QED BY <1>3, <1>4

\* A sequence cut in two.
LEMMA Cut ==
    ASSUME NEW S, NEW s \in Seq(S), NEW k \in 0..Len(s)
    PROVE  /\ SubSeq(s, 1, k) \in Seq(S) /\ SubSeq(s, k + 1, Len(s)) \in Seq(S)
           /\ Len(SubSeq(s, 1, k)) = k
           /\ SubSeq(s, 1, k) \o SubSeq(s, k + 1, Len(s)) = s
<1>1. Len(s) \in Nat /\ k \in Nat /\ k <= Len(s) /\ k \in Int /\ k + 1 \in Int /\ Len(s) \in Int
  OBVIOUS
<1>2. \A i \in 1..k : s[i] \in S
  BY <1>1
<1>3. \A i \in (k + 1)..Len(s) : s[i] \in S
  BY <1>1
<1>4. /\ SubSeq(s, 1, k) \in Seq(S) /\ Len(SubSeq(s, 1, k)) = k
      /\ \A i \in 1..k : SubSeq(s, 1, k)[i] = s[i]
  BY <1>1, <1>2, SubSeqProperties
<1>5. /\ SubSeq(s, k + 1, Len(s)) \in Seq(S) /\ Len(SubSeq(s, k + 1, Len(s))) = Len(s) - k
      /\ \A i \in 1..(Len(s) - k) : SubSeq(s, k + 1, Len(s))[i] = s[k + i]
  BY <1>1, <1>3, SubSeqProperties
<1>6. PICK a \in Seq(S) : a = SubSeq(s, 1, k)
  BY <1>4
<1>7. PICK b \in Seq(S) : b = SubSeq(s, k + 1, Len(s))
  BY <1>5
<1>8. Len(a) = k /\ Len(b) = Len(s) - k /\ a \o b \in Seq(S) /\ Len(a \o b) = Len(s)
  <2>1. Len(a) = k /\ Len(b) = Len(s) - k
    BY ONLY <1>4, <1>5, <1>6, <1>7
  <2>2. a \in Seq(S) /\ b \in Seq(S)
    OBVIOUS
  <2>3. a \o b \in Seq(S) /\ Len(a \o b) = Len(a) + Len(b)
    BY <2>2, ConcatProperties
  <2> QED BY <1>1, <2>1, <2>3
<1>9. \A i \in 1..Len(s) : (a \o b)[i] = s[i]
  <2> SUFFICES ASSUME NEW i \in 1..Len(s) PROVE (a \o b)[i] = s[i]
    OBVIOUS
  <2>1. (a \o b)[i] = IF i <= Len(a) THEN a[i] ELSE b[i - Len(a)]
    BY <1>1, <1>8, ConcatProperties
  <2>2. \A j \in 1..k : a[j] = s[j]
    BY <1>4, <1>6
  <2>3. i \in Nat /\ 1 <= i /\ i <= Len(s) /\ k \in Nat
    BY <1>1
  <2>4. CASE i <= k
    <3>1. i \in 1..k /\ i <= Len(a)
      BY <1>8, <2>4, <2>3
    <3> QED BY ONLY <2>1, <2>2, <3>1
  <2>5. CASE ~(i <= k)
    <3>1. i - k \in 1..(Len(s) - k) /\ k + (i - k) = i
      BY <1>1, <2>5
    <3> QED BY <1>5, <1>7, <1>8, <2>1, <2>5, <3>1
  <2> QED BY <2>4, <2>5
<1>10. a \o b = s
  BY <1>8, <1>9, SeqEqual
<1> QED BY <1>4, <1>5, <1>6, <1>7, <1>10

\* Concatenation is associative.
LEMMA Regroup ==
    ASSUME NEW a \in Seq(Nat), NEW b \in Seq(Nat), NEW c \in Seq(Nat)
    PROVE  (a \o b) \o c = a \o (b \o c)
OBVIOUS

\* redisAsyncHandleRead.
LEMMA ReadSound ==
    ASSUME Sound, redisAsyncHandleRead
    PROVE  Sound'
<1>1. mem = "live" /\ phase = "idle"
  BY DEF redisAsyncHandleRead, Handler
<1>2. CASE Failed
  BY <1>1, <1>2, FreeSound DEF Failed, asyncDisconnect, peer
<1>3. CASE ~Failed
  <2>1. PICK k \in 0..Len(inbox) :
          /\ rbuf' = SubSeq(inbox, 1, k) /\ inbox' = SubSeq(inbox, k + 1, Len(inbox))
          /\ seen' = IF k = 0 /\ Monitoring THEN seen \cup {"partial"} ELSE seen
    BY <1>3 DEF redisAsyncHandleRead, Monitoring
  <2>2. /\ flags' = FlagsAfterConnect /\ phase' = "process" /\ cb' = 0
        /\ UNCHANGED <<mem, replies, invalid, sub, obuf, runs, wire, server, cmds>>
    BY <1>3 DEF redisAsyncHandleRead
  <2>3. rbuf = << >> /\ inbox \in Seq(Replies) /\ wire \in Seq(Nat) /\ obuf \in Seq(Nat)
    BY <1>1 DEF Sound, Shape, Live, Genuine
  <2>4. /\ rbuf' \in Seq(Replies) /\ inbox' \in Seq(Replies) /\ Len(rbuf') = k
        /\ rbuf' \o inbox' = inbox
    BY <2>1, <2>3, Cut
  <2>5. Arrived' = Arrived
    BY <2>3, <2>4, ConcatEmptySeq DEF Arrived
  <2>6. Unanswered' = Unanswered
    BY <2>2 DEF Unanswered
  <2>7. (On' <=> On) /\ (Monitoring' <=> Monitoring)
    BY <2>2 DEF On, Monitoring, FlagsAfterConnect
  <2>8. Monitoring /\ "partial" \notin seen' => rbuf' # << >>
    BY <2>1, <2>4
  <2>9. Monitoring /\ "partial" \notin seen' /\ AlonePaired /\ Alone => AlonePaired'
    BY <1>1, <2>2, <2>8 DEF AlonePaired
  <2>10. seen \subseteq seen'
    BY <2>1
  <2>11. phase' = "idle" => rbuf' = << >>
    BY <2>2
  <2>12. wire' \in Seq(Nat) /\ obuf' \in Seq(Nat)
    BY <2>2, <2>3
  <2> QED BY <1>1, <2>2, <2>4, <2>5, <2>6, <2>7, <2>9, <2>10, <2>11, <2>12, QuietSound
<1> QED BY <1>2, <1>3

\* redisAsyncHandleWrite.
LEMMA WriteSound ==
    ASSUME Sound, redisAsyncHandleWrite
    PROVE  Sound'
<1>1. mem = "live" /\ phase = "idle"
  BY DEF redisAsyncHandleWrite, Handler
<1>2. CASE Failed
  BY <1>1, <1>2, FreeSound DEF Failed, asyncDisconnect, peer
<1>3. CASE ~Failed
  <2>1. PICK k \in 0..Len(obuf) :
          wire' = wire \o SubSeq(obuf, 1, k) /\ obuf' = SubSeq(obuf, k + 1, Len(obuf))
    BY <1>3 DEF redisAsyncHandleWrite
  <2>2. /\ flags' = FlagsAfterConnect
        /\ UNCHANGED <<mem, replies, invalid, sub, rbuf, phase, cb, runs, inbox, server, cmds, seen>>
    BY <1>3 DEF redisAsyncHandleWrite
  <2>3. /\ rbuf \in Seq(Replies) /\ inbox \in Seq(Replies) /\ wire \in Seq(Nat)
        /\ obuf \in Seq(Nat) /\ cb \in Nat
        /\ phase = "idle" => rbuf = << >>
    BY <1>1 DEF Sound, Shape, Live, Genuine
  <2>4. PICK a \in Seq(Nat) : a = SubSeq(obuf, 1, k)
    BY <2>3, Cut
  <2>5. obuf' \in Seq(Nat) /\ a \o obuf' = obuf
    BY <2>1, <2>3, <2>4, Cut
  <2>6. wire' \in Seq(Nat)
    BY <2>1, <2>3, <2>4, ConcatProperties
  <2>7. (wire \o a) \o obuf' = wire \o (a \o obuf')
    BY ONLY <2>3, <2>4, <2>5, Regroup
  <2>8. Unanswered' = Unanswered
    BY <2>1, <2>4, <2>5, <2>7 DEF Unanswered
  <2>9. Arrived' = Arrived /\ (AlonePaired => AlonePaired')
    BY <2>2 DEF Arrived, AlonePaired
  <2>10. (On' <=> On) /\ (Monitoring' <=> Monitoring)
    BY <2>2 DEF On, Monitoring, FlagsAfterConnect
  <2>11. /\ rbuf' \in Seq(Replies) /\ inbox' \in Seq(Replies) /\ cb' \in {0, cb}
         /\ phase' = "idle" => rbuf' = << >>
    BY <2>2, <2>3
  <2> QED BY <1>1, <2>2, <2>5, <2>6, <2>8, <2>9, <2>10, <2>11, QuietSound
<1> QED BY <1>2, <1>3

\* The end of redisProcessCallbacks; the callback of MONITOR is pushed again.
LEMMA EndSound ==
    ASSUME Sound, Inv, processEnd
    PROVE  Sound'
<1>1. mem = "live" /\ phase = "process" /\ rbuf = << >>
  BY DEF processEnd, Inv
<1>2. CASE "DISCONNECTING" \in flags /\ obuf = << >> /\ replies = << >>
  BY <1>1, <1>2, FreeSound DEF processEnd, asyncDisconnect, peer
<1>3. CASE ~("DISCONNECTING" \in flags /\ obuf = << >> /\ replies = << >>)
  <2>1. /\ replies' = IF Monitoring THEN Append(replies, cb) ELSE replies
        /\ phase' = "idle" /\ cb' = 0
        /\ UNCHANGED <<mem, flags, invalid, sub, obuf, rbuf, runs, seen, inbox, wire, server, cmds>>
    BY <1>3 DEF processEnd, Monitoring, peer
  <2>2. (On' <=> On) /\ (Monitoring' <=> Monitoring) /\ (Calm' <=> Calm)
        /\ Arrived' = Arrived /\ Unanswered' = Unanswered
    BY <2>1 DEF On, Monitoring, Calm, Arrived, Unanswered
  <2>3. CASE ~Monitoring
    <3>1. /\ rbuf' \in Seq(Replies) /\ inbox' \in Seq(Replies) /\ wire' \in Seq(Nat)
          /\ obuf' \in Seq(Nat) /\ cb' \in {0, cb}
          /\ phase' = "idle" => rbuf' = << >>
      BY <1>1, <2>1 DEF Sound, Shape
    <3> QED BY <1>1, <2>1, <2>2, <2>3, <3>1, QuietSound
  <2>4. CASE Monitoring
    <3>1. Live
      BY <1>1 DEF Sound
    <3>2. Stream' = Stream
      BY <2>1, <2>2 DEF Stream
    <3>3. Genuine'
      BY <1>1, <2>1, <2>2, <3>1, <3>2 DEF Live, Genuine
    <3>4. Alone => Alone'
      BY <2>1, <2>2, <3>2 DEF Alone
    <3>5. AlonePaired => AlonePaired'
      <4> SUFFICES ASSUME AlonePaired PROVE AlonePaired'
        OBVIOUS
      <4>1. cb = 1 /\ replies = << >>
        BY <1>1 DEF AlonePaired
      <4>2. replies' = <<1>>
        BY <2>1, <2>4, <4>1
      <4> QED BY <2>1, <4>2 DEF AlonePaired
    <3>6. Live'
      BY <2>1, <2>2, <2>4, <3>1, <3>3, <3>4, <3>5 DEF Live
    <3>7. replies' \in Seq(Nat)
      BY <2>1 DEF Sound, Shape
    <3>8. Shape'
      BY <2>1, <3>7 DEF Sound, Shape
    <3> QED BY <1>1, <2>1, <3>6, <3>8 DEF Sound
  <2> QED BY <2>3, <2>4
<1> QED BY <1>2, <1>3

\* redisAsyncDisconnect: at once, or when the replies are in.
LEMMA DisconnectSound ==
    ASSUME Sound, redisAsyncDisconnect
    PROVE  Sound'
<1>1. mem = "live" /\ phase = "idle"
  BY DEF redisAsyncDisconnect, Outside
<1>2. CASE Idle
  BY <1>1, <1>2, FreeSound DEF redisAsyncDisconnect, asyncDisconnect, peer
<1>3. CASE ~Idle
  <2>1. /\ flags' = flags \cup {"DISCONNECTING"}
        /\ UNCHANGED <<mem, replies, invalid, sub, obuf, rbuf, phase, cb, runs, seen,
                       inbox, wire, server, cmds>>
    BY <1>3 DEF redisAsyncDisconnect, peer
  <2>2. (On' <=> On) /\ (Monitoring' <=> Monitoring)
    BY <2>1 DEF On, Monitoring
  <2>3. Arrived' = Arrived /\ Unanswered' = Unanswered /\ (AlonePaired => AlonePaired')
    BY <2>1 DEF Arrived, Unanswered, AlonePaired
  <2>4. /\ rbuf' \in Seq(Replies) /\ inbox' \in Seq(Replies) /\ wire' \in Seq(Nat)
        /\ obuf' \in Seq(Nat) /\ cb' \in {0, cb}
        /\ phase' = "idle" => rbuf' = << >>
    BY <1>1, <2>1 DEF Sound, Shape, Live, Genuine
  <2> QED BY <1>1, <2>1, <2>2, <2>3, <2>4, QuietSound
<1> QED BY <1>2, <1>3

\* The first of two sequences loses its head.
LEMMA TailConcat ==
    ASSUME NEW S, NEW s \in Seq(S), NEW t \in Seq(S), s # << >>
    PROVE  /\ s \o t # << >> /\ (s \o t)[1] = Head(s) /\ Head(s) \in S
           /\ Tail(s) \in Seq(S) /\ Tail(s) \o t = Tail(s \o t)
<1>1. PICK u \in Seq(S) : u = s \o t
  BY ConcatProperties
<1>2. Head(s) \in S /\ Tail(s) \in Seq(S) /\ Head(s) = s[1]
  BY HeadTailProperties
<1>3. /\ Len(s) \in Nat /\ Len(s) >= 1 /\ Len(t) \in Nat
      /\ Len(u) = Len(s) + Len(t)
  BY <1>1, ConcatProperties
<1>4. u # << >> /\ 1 \in 1..Len(u)
  BY <1>3
<1>5. \A i \in 1..Len(u) : u[i] = IF i <= Len(s) THEN s[i] ELSE t[i - Len(s)]
  BY <1>1, <1>3, ConcatProperties
<1>6. u[1] = Head(s)
  BY <1>2, <1>3, <1>4, <1>5
<1>7. Tail(s) \o t = Tail(u)
  <2>1. PICK a \in Seq(S) : a = Tail(s)
    BY <1>2
  <2>2. PICK b \in Seq(S) : b = Tail(u)
    BY <1>4, HeadTailProperties
  <2>3. Len(a) = Len(s) - 1 /\ \A i \in 1..Len(a) : a[i] = s[i + 1]
    BY <2>1, HeadTailProperties
  <2>4. Len(b) = Len(u) - 1 /\ \A i \in 1..Len(b) : b[i] = u[i + 1]
    BY <1>4, <2>2, HeadTailProperties
  <2>5. PICK c \in Seq(S) : c = a \o t
    BY ConcatProperties
  <2>6. Len(c) = Len(a) + Len(t)
    BY <2>5, ConcatProperties
  <2>7. \A i \in 1..Len(c) : c[i] = IF i <= Len(a) THEN a[i] ELSE t[i - Len(a)]
    BY <2>5, <2>6, ConcatProperties
  <2>8. Len(c) = Len(b)
    BY <1>3, <2>3, <2>4, <2>6
  <2>9. ASSUME NEW i \in 1..Len(c)
        PROVE  c[i] = b[i]
    <3>1. i \in Nat /\ i \in 1..Len(b) /\ i + 1 \in 1..Len(u)
      BY <1>3, <2>4, <2>8, <2>9
    <3>2. b[i] = u[i + 1]
      BY <2>4, <3>1
    <3>3. CASE i <= Len(a)
      <4>1. i \in 1..Len(a) /\ i + 1 <= Len(s)
        BY <1>3, <2>3, <3>1, <3>3
      <4> QED BY <1>5, <2>3, <2>7, <2>9, <3>1, <3>2, <4>1
    <3>4. CASE ~(i <= Len(a))
      <4>1. ~(i + 1 <= Len(s)) /\ (i + 1) - Len(s) = i - Len(a)
        BY <1>3, <2>3, <3>1, <3>4
      <4> QED BY <1>5, <2>7, <2>9, <3>1, <3>2, <3>4, <4>1
    <3> QED BY <3>3, <3>4
  <2>10. c = b
    BY <2>8, <2>9, SeqEqual
  <2> QED BY <2>1, <2>2, <2>5, <2>10
<1> QED BY <1>1, <1>2, <1>4, <1>6, <1>7

\* The first reply read, as the first item of the queue.
LEMMA HeadItem ==
    ASSUME Sound, mem = "live", rbuf # << >>
    PROVE  /\ Head(rbuf) \in Replies /\ Tail(rbuf) \in Seq(Replies)
           /\ Arrived # << >> /\ Arrived[1] = Head(rbuf) /\ Tail(rbuf) \o inbox = Tail(Arrived)
           /\ Stream # << >>
           /\ Stream[1] = Item(Head(rbuf).kind, Head(rbuf).topic, Head(rbuf).id)
           /\ Head(rbuf).type = "array" <=> Head(rbuf).kind \in Arrays
<1>1. /\ rbuf \in Seq(Replies) /\ inbox \in Seq(Replies) /\ cmds \in Seq(Commands)
      /\ Issued(cmds, Unanswered)
  BY DEF Sound, Shape, Live, Genuine
<1>2. Arrived \in Seq(Replies) /\ Unanswered \in Seq(Nat)
  BY StreamTypes DEF Sound
<1>3. Head(rbuf) \in Replies /\ Tail(rbuf) \in Seq(Replies) /\ Head(rbuf) = rbuf[1]
  BY <1>1
<1>4. /\ Len(rbuf) \in Nat /\ Len(rbuf) >= 1 /\ Len(inbox) \in Nat
      /\ Len(Arrived) = Len(rbuf) + Len(inbox)
  BY <1>1, ConcatProperties DEF Arrived
<1>5. Arrived # << >> /\ 1 \in 1..Len(Arrived)
  BY <1>2, <1>4
<1>6. \A i \in 1..Len(Arrived) : Arrived[i] = IF i <= Len(rbuf) THEN rbuf[i] ELSE inbox[i - Len(rbuf)]
  BY <1>1, <1>4, ConcatProperties DEF Arrived
<1>7. Arrived[1] = Head(rbuf)
  BY <1>3, <1>4, <1>5, <1>6
<1>8. Tail(rbuf) \o inbox = Tail(Arrived)
  BY <1>1, TailConcat DEF Arrived
<1>9. /\ Stream \in Seq(Items) /\ Len(Stream) = Len(Arrived) + Len(Unanswered)
      /\ \A i \in 1..Len(Arrived) : Stream[i] = Item(Arrived[i].kind, Arrived[i].topic, Arrived[i].id)
  BY <1>1, <1>2, StreamFacts DEF Stream
<1>10. Stream # << >>
  BY <1>2, <1>4, <1>9
<1>11. Stream[1] = Item(Head(rbuf).kind, Head(rbuf).topic, Head(rbuf).id)
  BY <1>5, <1>7, <1>9
<1>12. Head(rbuf).type = "array" <=> Head(rbuf).kind \in Arrays
  BY <1>5, <1>7 DEF Sound, Live, Genuine
<1> QED BY <1>3, <1>5, <1>7, <1>8, <1>10, <1>11, <1>12

\* The assert of redisProcessCallbacks fails only for an ordinary command sent
\* on a subscribed context, or one of the uses that are not calm.
LEMMA AbortSound ==
    ASSUME Sound, Inv, processAbort
    PROVE  Sound' /\ (Calm => "mixed" \in seen)
<1>1. mem = "live" /\ phase = "process" /\ rbuf # << >>
  BY DEF processAbort, Inv
<1>2. /\ mem' = "aborted"
      /\ UNCHANGED <<flags, replies, invalid, sub, obuf, rbuf, cb, runs, inbox, wire, server, cmds>>
      /\ seen \subseteq seen'
  BY DEF processAbort, peer
<1> DEFINE r == Head(rbuf)
<1>3. replies = << >> /\ ~On /\ ~Monitoring
  BY DEF processAbort, Unexpected, Regular, On, Monitoring
<1>4. Shape'
  BY <1>2 DEF Sound, Shape
<1>5. Calm' => Calm
  BY <1>2 DEF Calm
<1>6. ASSUME Calm
      PROVE  \A id \in 1..Len(cmds) : cmds[id].op = "get" => runs[id] <= 1
  <2>1. Owed(replies, invalid, cmds, runs)
    BY <1>1, <1>3, <1>6 DEF Sound, Live, Queue
  <2>2. \A id \in 1..Len(cmds) : cmds[id].op = "get" => runs[id] \in {0, 1}
    BY <2>1 DEF Owed
  <2> QED BY <2>2
<1>7. Over'
  BY <1>2, <1>5, <1>6 DEF Over
<1>8. ASSUME Calm, "mixed" \notin seen
      PROVE  FALSE
  <2>1. Queue /\ Paired(Stream, replies, invalid)
    BY <1>1, <1>3, <1>8 DEF Sound, Live
  <2>2. /\ Stream \in Seq(Items) /\ Stream # << >>
        /\ Stream[1] = Item(r.kind, r.topic, r.id) /\ r \in Replies
    BY <1>1, HeadItem, StreamTypes, StreamFacts DEF Sound, Stream, Shape, Live, Genuine
  <2>3. 1 \in 1..Len(Stream) /\ 1 > 0
    BY <2>2
  <2>4. Stream[1].kind = r.kind /\ r.kind \in Kinds
    BY <2>2 DEF Item, Replies
  <2>5. r.kind \notin Arrays
    BY <1>3, <2>1, <2>3, <2>4 DEF Queue, Orderly, NoArrays
  <2>6. r.kind # "get"
    BY <1>3, <2>1, <2>3, <2>4 DEF Paired
  <2>7. r.kind # "monitor"
    BY <2>1, <2>3, <2>4 DEF Queue, Matched, NoMonitors
  <2> QED BY <2>4, <2>5, <2>6, <2>7 DEF Kinds
<1> QED BY <1>2, <1>4, <1>7, <1>8 DEF Sound

\* A value appended to the second of two sequences.
LEMMA ConcatAppend ==
    ASSUME NEW S, NEW s \in Seq(S), NEW t \in Seq(S), NEW e \in S
    PROVE  s \o Append(t, e) = Append(s \o t, e)
<1>1. PICK u \in Seq(S) : u = s \o t
  BY ConcatProperties
<1>2. PICK w \in Seq(S) : w = Append(t, e)
  BY AppendProperties
<1>3. PICK a \in Seq(S) : a = s \o w
  BY ConcatProperties
<1>4. PICK b \in Seq(S) : b = Append(u, e)
  BY AppendProperties
<1>5. /\ Len(s) \in Nat /\ Len(t) \in Nat /\ Len(u) = Len(s) + Len(t)
      /\ Len(w) = Len(t) + 1
  BY <1>1, <1>2, ConcatProperties
<1>6. Len(a) = Len(s) + Len(w) /\ Len(b) = Len(u) + 1
  BY <1>3, <1>4, ConcatProperties
<1>7. \A i \in 1..Len(a) : a[i] = IF i <= Len(s) THEN s[i] ELSE w[i - Len(s)]
  BY <1>3, <1>6, ConcatProperties
<1>8. \A i \in 1..Len(u) : u[i] = IF i <= Len(s) THEN s[i] ELSE t[i - Len(s)]
  BY <1>1, <1>5, ConcatProperties
<1>9. (\A i \in 1..Len(u) : b[i] = u[i]) /\ b[Len(u) + 1] = e
  BY <1>4
<1>10. (\A i \in 1..Len(t) : w[i] = t[i]) /\ w[Len(t) + 1] = e
  BY <1>2
<1>11. Len(a) = Len(b)
  BY <1>5, <1>6
<1>12. ASSUME NEW i \in 1..Len(a)
       PROVE  a[i] = b[i]
  <2>1. CASE i = Len(u) + 1
    <3>1. ~(i <= Len(s)) /\ i - Len(s) = Len(t) + 1
      BY <1>5, <2>1
    <3> QED BY <1>7, <1>9, <1>10, <1>12, <2>1, <3>1
  <2>2. CASE i # Len(u) + 1 /\ i <= Len(s)
    <3>1. i \in 1..Len(u)
      BY <1>5, <1>6, <1>12, <2>2
    <3> QED BY <1>7, <1>8, <1>9, <1>12, <2>2, <3>1
  <2>3. CASE i # Len(u) + 1 /\ ~(i <= Len(s))
    <3>1. i \in 1..Len(u) /\ i - Len(s) \in 1..Len(t)
      BY <1>5, <1>6, <1>12, <2>3
    <3> QED BY <1>7, <1>8, <1>9, <1>10, <1>12, <2>3, <3>1
  <2> QED BY <2>1, <2>2, <2>3
<1>13. a = b
  BY <1>11, <1>12, SeqEqual
<1> QED BY <1>1, <1>2, <1>3, <1>4, <1>13

\* A reply arrives after those that did.
LEMMA ArrivedAppended ==
    ASSUME Sound, mem = "live", rbuf' = rbuf, NEW r \in Replies, inbox' = Append(inbox, r),
           r.type = "array" <=> r.kind \in Arrays
    PROVE  /\ inbox' \in Seq(Replies) /\ Arrived' = Append(Arrived, r)
           /\ \A i \in 1..Len(Arrived') : Arrived'[i].type = "array" <=> Arrived'[i].kind \in Arrays
           /\ \A i \in 1..Len(Arrived') : Arrived'[i] = r \/ (i \in 1..Len(Arrived) /\ Arrived'[i] = Arrived[i])
<1>1. /\ rbuf \in Seq(Replies) /\ inbox \in Seq(Replies)
      /\ \A i \in 1..Len(Arrived) : Arrived[i].type = "array" <=> Arrived[i].kind \in Arrays
  BY DEF Sound, Shape, Live, Genuine
<1>2. Arrived \in Seq(Replies)
  BY StreamTypes DEF Sound
<1>3. inbox' \in Seq(Replies)
  BY <1>1, AppendProperties
<1>4. Arrived' = Append(Arrived, r)
  BY <1>1, ConcatAppend DEF Arrived
<1>5. PICK b \in Seq(Replies) : b = Arrived'
  BY <1>2, <1>4, AppendProperties
<1>6. /\ Len(b) = Len(Arrived) + 1 /\ b[Len(Arrived) + 1] = r /\ Len(Arrived) \in Nat
      /\ \A i \in 1..Len(Arrived) : b[i] = Arrived[i]
  BY <1>2, <1>4, <1>5, AppendProperties
<1>7. \A i \in 1..Len(b) : i \in 1..Len(Arrived) \/ i = Len(Arrived) + 1
  BY <1>6
<1>8. \A i \in 1..Len(b) : b[i] = r \/ (i \in 1..Len(Arrived) /\ b[i] = Arrived[i])
  BY <1>6, <1>7
<1>9. \A i \in 1..Len(b) : b[i].type = "array" <=> b[i].kind \in Arrays
  BY <1>1, <1>8
<1> QED BY <1>3, <1>4, <1>5, <1>8, <1>9

\* The server answers the next command.
LEMMA ExecuteSound ==
    ASSUME Sound, execute
    PROVE  Sound'
<1> DEFINE id == Head(wire)
           c == cmds[id]
           T == server.topics
           T2 == server'.topics
<1>1. /\ mem = "live" /\ wire # << >> /\ wire' = Tail(wire)
      /\ UNCHANGED <<mem, flags, replies, invalid, sub, obuf, rbuf, phase, cb, runs, cmds, seen>>
  BY DEF execute, context
<1>2. Shape /\ Live
  BY <1>1 DEF Sound
<1>3. /\ wire \in Seq(Nat) /\ obuf \in Seq(Nat) /\ inbox \in Seq(Replies) /\ rbuf \in Seq(Replies)
      /\ cmds \in Seq(Commands) /\ Issued(cmds, Unanswered)
      /\ Arrived \in Seq(Replies) /\ Unanswered \in Seq(Nat)
  BY <1>2, StreamTypes DEF Shape, Live, Genuine
<1>4. /\ Unanswered # << >> /\ Unanswered[1] = id /\ Unanswered' = Tail(Unanswered)
      /\ wire' \in Seq(Nat)
  BY <1>1, <1>3, TailConcat DEF Unanswered
<1>5. id \in 1..Len(cmds) /\ id \in Nat /\ c \in Commands
  <2>1. 1 \in 1..Len(Unanswered)
    BY <1>3, <1>4
  <2>2. id \in 1..Len(cmds)
    BY <1>3, <1>4, <2>1 DEF Issued
  <2> QED BY <1>3, <2>2
<1>6. /\ c.op \in {"get", "subscribe", "unsubscribe", "monitor"} /\ c.topic \in AllTopics
      /\ c.op \in {"get", "monitor"} => c.topic = NoTopic
  BY <1>2, <1>5 DEF Shape, Commands
<1>7. /\ server \in Servers /\ IsFiniteSet(T)
  BY <1>2 DEF Shape
<1>8. /\ c.op = "subscribe" => T2 = T \cup {c.topic}
      /\ c.op = "unsubscribe" => T2 = T \ {c.topic}
      /\ c.op \notin {"subscribe", "unsubscribe"} => T2 = T
      /\ server' = [server EXCEPT !.topics = T2, !.monitor = @ \/ c.op = "monitor"]
  BY <1>7 DEF execute, Servers
<1>9. T2 \subseteq AllTopics /\ IsFiniteSet(T2)
  <2>1. T \subseteq AllTopics
    BY <1>7 DEF Servers
  <2>2. CASE c.op = "subscribe"
    BY <1>6, <1>7, <1>8, <2>1, <2>2, FS_AddElement, SMTT(60)
  <2>3. CASE c.op = "unsubscribe"
    BY <1>6, <1>7, <1>8, <2>1, <2>3, FS_RemoveElement
  <2> QED BY <1>7, <1>8, <2>1, <2>2, <2>3
<1>10. server' \in Servers
  BY <1>7, <1>8, <1>9 DEF Servers
<1>11. Cardinality(T2) \in Nat /\ (Cardinality(T2) = 0 => T2 = {})
  BY <1>9, FS_CardinalityType, FS_EmptySet
<1>12. PICK r \in Replies :
         /\ inbox' = Append(inbox, r) /\ r.kind = c.op /\ r.topic = c.topic /\ r.id = id
         /\ r.type = "array" <=> r.kind \in Arrays
         /\ c.op \in {"subscribe", "unsubscribe"} => r.n = Cardinality(T2)
         /\ c.op = "monitor" /\ T = {} => r.type = "string"
  <2>1. CASE c.op \in {"subscribe", "unsubscribe"}
    <3> DEFINE r == Reply("array", c.op, c.topic, Cardinality(T2), id)
    <3>1. inbox' = Append(inbox, r)
      BY <1>7, <2>1 DEF execute, Servers
    <3>2. r \in Replies
      BY <1>5, <1>6, <1>11, <2>1 DEF Reply, Replies, Kinds, Arrays
    <3> QED BY <2>1, <3>1, <3>2 DEF Reply, Arrays
  <2>2. CASE c.op \in {"get", "monitor"}
    <3> DEFINE r == Reply(IF T = {} THEN "string" ELSE "error", c.op, NoTopic, 0, id)
    <3>1. inbox' = Append(inbox, r)
      BY <2>2 DEF execute
    <3>2. NoTopic \in AllTopics
      BY DEF NoTopic, AllTopics
    <3>3. r \in Replies
      BY <1>5, <2>2, <3>2 DEF Reply, Replies, Kinds, Arrays
    <3> QED BY <1>6, <2>2, <3>1, <3>3 DEF Reply, Arrays
  <2> QED BY <1>6, <2>1, <2>2
<1> HIDE DEF id, c, T, T2
<1>13. /\ inbox' \in Seq(Replies) /\ Arrived' = Append(Arrived, r)
       /\ \A i \in 1..Len(Arrived') : Arrived'[i].type = "array" <=> Arrived'[i].kind \in Arrays
       /\ \A i \in 1..Len(Arrived') : Arrived'[i] = r \/ (i \in 1..Len(Arrived) /\ Arrived'[i] = Arrived[i])
  BY <1>1, <1>12, ArrivedAppended
<1>14. cmds[Unanswered[1]] = c /\ Unanswered[1] = id
  BY <1>4 DEF c
<1>15. Item(r.kind, r.topic, r.id) = Item(cmds[Unanswered[1]].op, cmds[Unanswered[1]].topic, Unanswered[1])
  BY <1>12, <1>14
<1>16. /\ Issued(cmds, Unanswered') /\ Len(Arrived) < Len(Stream)
       /\ StreamOf(cmds, Arrived', Unanswered') = Stream
       /\ Stream[Len(Arrived) + 1] = Item(c.op, c.topic, id)
       /\ Appended(Counts, CountsOf(Arrived'), r.n)
  <2>1. Answers(cmds, Arrived, Unanswered, r, Arrived', Unanswered')
    BY <1>4, <1>13, <1>15 DEF Answers
  <2> QED BY <1>3, <1>14, <2>1, ExecuteStream, SMTT(60) DEF Stream, Counts
<1>17. Stream' = Stream /\ Appended(Counts, Counts', r.n)
  BY <1>1, <1>16 DEF Stream, Counts
<1>18. /\ Stream \in Seq(Items) /\ Counts \in Seq(Nat) /\ Counts' \in Seq(Nat)
       /\ Len(Counts) = Len(Arrived) /\ Len(Arrived) \in Nat /\ Len(Arrived) + 1 \in 1..Len(Stream)
  <2>1. Stream \in Seq(Items) /\ Counts \in Seq(Nat) /\ Len(Counts) = Len(Arrived)
    BY <1>3, StreamFacts DEF Stream, Counts
  <2>2. Arrived' \in Seq(Replies) /\ Unanswered' \in Seq(Nat)
    BY <1>1, <1>3, <1>4, <1>13, ConcatProperties, HeadTailProperties DEF Arrived
  <2>3. Counts' \in Seq(Nat)
    BY <1>3, <1>16, <2>2, StreamFacts DEF Counts
  <2>4. Len(Arrived) \in Nat /\ Len(Stream) \in Nat
    BY <1>3, <2>1
  <2> QED BY <1>16, <2>1, <2>3, <2>4
<1>19. Shape'
  BY <1>1, <1>2, <1>4, <1>9, <1>10, <1>13 DEF Shape, T2
<1>20. /\ Stream[Len(Arrived) + 1].kind = c.op
       /\ Stream[Len(Arrived) + 1].topic = c.topic
  BY <1>16 DEF Item
<1>21. Genuine'
  <2>1. c.op \in Arrays => c.topic \in Callable(sub) \cup Left(cmds)
    BY <1>2, <1>18, <1>20 DEF Live, Genuine, Traced
  <2>2. T2 \subseteq Callable(sub) \cup Left(cmds)
    BY <1>2, <1>6, <1>8, <2>1 DEF Live, Genuine, T, T2, Arrays
  <2>3. T2 = (server.topics)'
    BY DEF T2
  <2> QED BY <1>1, <1>2, <1>13, <1>16, <1>17, <2>2, <2>3 DEF Live, Genuine, On, Monitoring
<1>22. ASSUME Queue
       PROVE  Queue'
  <2>1. c.op # "monitor"
    BY <1>5, <1>22 DEF Queue, c
  <2>2. r.n \in Nat
    BY DEF Replies
  <2>3. /\ c.op = "unsubscribe" => T2 = T \ {c.topic} /\ (r.n = 0 => T2 = {})
    BY <1>8, <1>11, <1>12
  <2>4. Orderly(Stream, Counts', Callable(sub), T2, Left(cmds), On)
    <3>1. Orderly(Stream, Counts, Callable(sub), T, Left(cmds), On)
      BY <1>22 DEF Queue, T
    <3>2. PICK x \in Items : x = Stream[Len(Counts) + 1]
      BY <1>18
    <3>3. x.kind = c.op /\ x.topic = c.topic /\ Len(Counts) < Len(Stream)
      BY <1>16, <1>18, <1>20, <3>2
    <3>4. Executes(x, T, r.n, T2)
      BY <1>8, <2>3, <3>3 DEF Executes
    <3> QED BY <1>17, <1>18, <2>2, <3>1, <3>2, <3>3, <3>4, ExecuteOrderly
  <2>5. Matched(Stream, Counts', T2, replies, invalid)
    <3>1. Matched(Stream, Counts, T, replies, invalid)
      BY <1>22 DEF Queue, T
    <3>2. T2 # {} => T # {} \/ Stream[Len(Counts) + 1].kind # "get"
      BY <1>8, <1>18, <1>20
    <3>3. replies \in Seq(Nat) /\ invalid \in Seq(Nat)
      BY <1>2 DEF Shape
    <3> QED BY <1>16, <1>17, <1>18, <3>1, <3>2, <3>3, ExecuteMatched
  <2>6. ~server'.monitor
    BY <1>7, <1>8, <1>22, <2>1 DEF Queue, Servers
  <2>7. On' = On /\ T2 = (server.topics)'
    BY <1>1 DEF On, T2
  <2> QED BY <1>1, <1>17, <1>22, <2>4, <2>5, <2>6, <2>7 DEF Queue
<1>23. ASSUME Alone
       PROVE  Alone'
  <2>1. c.op = "monitor"
    BY <1>18, <1>20, <1>23 DEF Alone
  <2>2. T = {} /\ T2 = {} /\ r.type = "string"
    BY <1>8, <1>12, <1>23, <2>1 DEF Alone, T
  <2>3. \A i \in 1..Len(Arrived') : Arrived'[i].type = "string"
    BY <1>13, <1>23, <2>2 DEF Alone
  <2> QED BY <1>1, <1>17, <1>23, <2>2, <2>3 DEF Alone, On, T2
<1>24. Live'
  <2>1. (Calm' <=> Calm) /\ (Monitoring' <=> Monitoring) /\ (AlonePaired => AlonePaired')
    BY <1>1 DEF Calm, Monitoring, AlonePaired
  <2>2. CASE Calm' /\ ~Monitoring'
    BY <1>1, <1>2, <1>17, <1>21, <1>22, <2>1, <2>2 DEF Live
  <2>3. CASE Calm' /\ Monitoring'
    BY <1>1, <1>2, <1>21, <1>23, <2>1, <2>3 DEF Live
  <2> QED BY <1>21, <2>2, <2>3 DEF Live
<1> QED BY <1>1, <1>19, <1>24 DEF Sound

\* A published message, or what MONITOR shows, is sent to the client.
LEMMA PushSound ==
    ASSUME Sound, push
    PROVE  Sound'
<1> DEFINE T == server.topics
<1>1. /\ mem = "live"
      /\ UNCHANGED <<mem, flags, replies, invalid, sub, obuf, rbuf, phase, cb, runs, cmds, seen, wire>>
  BY DEF push, context
<1>2. Shape /\ Live
  BY <1>1 DEF Sound
<1>3. /\ wire \in Seq(Nat) /\ obuf \in Seq(Nat) /\ inbox \in Seq(Replies) /\ rbuf \in Seq(Replies)
      /\ cmds \in Seq(Commands) /\ Issued(cmds, Unanswered)
      /\ Arrived \in Seq(Replies) /\ Unanswered \in Seq(Nat)
  BY <1>2, StreamTypes DEF Shape, Live, Genuine
<1>4. /\ server \in Servers /\ IsFiniteSet(T) /\ T \subseteq AllTopics
      /\ server' = [server EXCEPT !.pushed = @ + 1]
  BY <1>2 DEF Shape, Servers, push
<1>5. /\ server' \in Servers /\ server'.topics = T /\ server'.monitor = server.monitor
  BY <1>4 DEF Servers
<1>6. PICK r \in Replies :
        /\ inbox' = Append(inbox, r) /\ r.id = 0
        /\ r.type = "array" <=> r.kind \in Arrays
        /\ \/ r.kind = "message" /\ r.topic \in T
           \/ r.kind = "monitor" /\ server.monitor /\ r.type = "string"
  <2>1. CASE \E t \in T : inbox' = Append(inbox, Reply("array", "message", t, 0, 0))
    <3>1. PICK t \in T : inbox' = Append(inbox, Reply("array", "message", t, 0, 0))
      BY <2>1
    <3>2. t \in AllTopics
      BY <1>4
    <3>3. Reply("array", "message", t, 0, 0) \in Replies
      BY <3>2 DEF Reply, Replies, Kinds, Arrays
    <3> QED BY <3>1, <3>3 DEF Reply, Arrays
  <2>2. CASE server.monitor /\ inbox' = Append(inbox, Reply("string", "monitor", NoTopic, 0, 0))
    <3>1. NoTopic \in AllTopics
      BY DEF NoTopic, AllTopics
    <3>2. Reply("string", "monitor", NoTopic, 0, 0) \in Replies
      BY <3>1 DEF Reply, Replies, Kinds, Arrays
    <3> QED BY <2>2, <3>2 DEF Reply, Arrays
  <2> QED BY <2>1, <2>2 DEF push
<1>7. /\ inbox' \in Seq(Replies) /\ Arrived' = Append(Arrived, r)
      /\ \A i \in 1..Len(Arrived') : Arrived'[i].type = "array" <=> Arrived'[i].kind \in Arrays
      /\ \A i \in 1..Len(Arrived') : Arrived'[i] = r \/ (i \in 1..Len(Arrived) /\ Arrived'[i] = Arrived[i])
  BY <1>1, <1>6, ArrivedAppended
<1> DEFINE x == Item(r.kind, r.topic, r.id)
<1>8. Unanswered' = Unanswered
  BY <1>1 DEF Unanswered
<1>9. /\ Arrived' \in Seq(Replies)
      /\ Inserted(Stream, Stream', Len(Arrived), x)
      /\ Appended(Counts, Counts', r.n)
  BY <1>1, <1>3, <1>7, <1>8, PushStream DEF Stream, Counts
<1>10. /\ Stream \in Seq(Items) /\ Stream' \in Seq(Items) /\ Counts \in Seq(Nat) /\ Counts' \in Seq(Nat)
       /\ Len(Counts) = Len(Arrived) /\ Len(Arrived) \in 0..Len(Stream)
  <2>1. /\ Stream \in Seq(Items) /\ Counts \in Seq(Nat) /\ Len(Counts) = Len(Arrived)
        /\ Len(Stream) = Len(Arrived) + Len(Unanswered)
    BY <1>3, StreamFacts DEF Stream, Counts
  <2>2. Stream' \in Seq(Items) /\ Counts' \in Seq(Nat)
    BY <1>1, <1>3, <1>8, <1>9, StreamFacts DEF Stream, Counts
  <2>3. Len(Arrived) \in Nat /\ Len(Unanswered) \in Nat
    BY <1>3
  <2> QED BY <2>1, <2>2, <2>3
<1>11. x \in Items /\ x.kind = r.kind /\ x.topic = r.topic /\ x.id = 0
  BY <1>6 DEF Item, Items, Replies
<1> HIDE DEF T, x
<1>12. Shape'
  BY <1>1, <1>2, <1>4, <1>5, <1>7 DEF Shape, T
<1>13. Genuine'
  <2>1. Traced(Stream, cmds, Callable(sub) \cup Left(cmds)) /\ T \subseteq Callable(sub) \cup Left(cmds)
    BY <1>2 DEF Live, Genuine, T
  <2>2. x.kind \in {"message", "monitor"} /\ (x.kind = "message" => x.topic \in Callable(sub) \cup Left(cmds))
    BY <1>6, <1>11, <2>1
  <2>3. Traced(Stream', cmds, Callable(sub) \cup Left(cmds))
    BY <1>9, <1>10, <1>11, <2>1, <2>2, PushTraced
  <2> QED BY <1>1, <1>2, <1>5, <1>7, <1>8, <2>1, <2>3 DEF Live, Genuine, On, Monitoring
<1>14. ASSUME Queue
       PROVE  Queue' /\ (Paired(Stream, replies, invalid) => Paired(Stream', replies, invalid))
  <2>1. x.kind = "message" /\ x.topic \in T /\ T # {}
    BY <1>6, <1>11, <1>14 DEF Queue
  <2>2. r.n \in Nat
    BY DEF Replies
  <2>3. /\ Orderly(Stream, Counts, Callable(sub), T, Left(cmds), On)
        /\ Matched(Stream, Counts, T, replies, invalid)
    BY <1>14 DEF Queue, T
  <2>4. Orderly(Stream', Counts', Callable(sub), T, Left(cmds), On)
    BY <1>9, <1>10, <1>11, <2>1, <2>2, <2>3, PushOrderly
  <2>5. replies \in Seq(Nat) /\ invalid \in Seq(Nat)
    BY <1>2 DEF Shape
  <2>6. /\ Matched(Stream', Counts', T, replies, invalid)
        /\ Paired(Stream, replies, invalid) => Paired(Stream', replies, invalid)
    BY <1>9, <1>10, <1>11, <2>1, <2>3, <2>5, PushMatched
  <2>7. On' = On
    BY <1>1 DEF On
  <2> QED BY <1>1, <1>5, <1>14, <2>4, <2>6, <2>7 DEF Queue
<1>15. ASSUME Alone
       PROVE  Alone'
  <2>1. r.kind = "monitor" /\ r.type = "string"
    BY <1>6, <1>15 DEF Alone, T
  <2>2. \A i \in 1..Len(Arrived') : Arrived'[i].type = "string"
    BY <1>7, <1>15, <2>1 DEF Alone
  <2>3. \A i \in 1..Len(Stream') : Stream'[i].kind = "monitor"
    <3> SUFFICES ASSUME NEW i \in 1..Len(Stream') PROVE Stream'[i].kind = "monitor"
      OBVIOUS
    <3>1. Len(Stream') = Len(Stream) + 1 /\ Len(Stream) \in Nat /\ Len(Arrived) \in Nat
      BY <1>9, <1>10 DEF Inserted
    <3>2. CASE i <= Len(Arrived)
      <4>1. i \in 1..Len(Arrived) /\ i \in 1..Len(Stream)
        BY <1>10, <3>1, <3>2
      <4> QED BY <1>9, <1>15, <4>1 DEF Inserted, Alone
    <3>3. CASE i = Len(Arrived) + 1
      BY <1>9, <1>11, <2>1, <3>3 DEF Inserted
    <3>4. CASE i > Len(Arrived) + 1
      <4>1. i - 1 \in (Len(Arrived) + 1)..Len(Stream) /\ i - 1 \in 1..Len(Stream) /\ (i - 1) + 1 = i
        BY <1>10, <3>1, <3>4
      <4>2. Stream'[(i - 1) + 1] = Stream[i - 1]
        BY <1>9, <4>1 DEF Inserted
      <4> QED BY <1>15, <4>1, <4>2 DEF Alone
    <3> QED BY <3>1, <3>2, <3>3, <3>4
  <2> QED BY <1>1, <1>5, <1>15, <2>2, <2>3 DEF Alone, On, T
<1>16. Live'
  <2>1. (Calm' <=> Calm) /\ (Monitoring' <=> Monitoring) /\ (AlonePaired => AlonePaired')
    BY <1>1 DEF Calm, Monitoring, AlonePaired
  <2>2. CASE Calm' /\ ~Monitoring'
    BY <1>1, <1>2, <1>13, <1>14, <2>1, <2>2 DEF Live
  <2>3. CASE Calm' /\ Monitoring'
    BY <1>1, <1>2, <1>13, <1>15, <2>1, <2>3 DEF Live
  <2> QED BY <1>13, <2>2, <2>3 DEF Live
<1> QED BY <1>1, <1>12, <1>16 DEF Sound

\* What the application may ask for.
Asks(op, topic) ==
    \/ op \in {"get", "monitor"} /\ topic = NoTopic
    \/ op \in {"subscribe", "unsubscribe"} /\ topic \in AllTopics

\* A command accepted is the last of the queue and has a callback.
LEMMA CommandFacts ==
    ASSUME Sound, NEW op, NEW topic, Asks(op, topic), redisAsyncCommand(op, topic)
    PROVE  /\ Shape' /\ Genuine' /\ Live /\ Command(op, topic) \in Commands
           /\ cmds' = Append(cmds, Command(op, topic)) /\ Arrived' = Arrived
           /\ Stream \in Seq(Items) /\ Stream' \in Seq(Items) /\ Counts \in Seq(Nat) /\ Counts' = Counts
           /\ Item(op, topic, Len(cmds) + 1) \in Items
           /\ Appended(Stream, Stream', Item(op, topic, Len(cmds) + 1))
           /\ Len(cmds) + 1 \notin Gets(Stream)
           /\ Callable(sub') = IF op = "subscribe" THEN Callable(sub) \cup {topic} ELSE Callable(sub)
           /\ Left(cmds') = IF op = "unsubscribe" THEN Left(cmds) \cup {topic} ELSE Left(cmds)
<1> DEFINE c == Command(op, topic)
           id == Len(cmds) + 1
           x == Item(op, topic, id)
<1>1. /\ mem = "live" /\ cmds' = Append(cmds, c) /\ runs' = Append(runs, 0)
      /\ obuf' = Append(obuf, id)
      /\ UNCHANGED <<mem, rbuf, phase, cb, wire, inbox, server>>
  BY DEF redisAsyncCommand, peer
<1>2. Shape /\ Live
  BY <1>1 DEF Sound
<1>3. /\ wire \in Seq(Nat) /\ obuf \in Seq(Nat) /\ runs \in Seq(Nat) /\ Len(runs) = Len(cmds)
      /\ replies \in Seq(Nat) /\ invalid \in Seq(Nat)
      /\ cmds \in Seq(Commands) /\ Issued(cmds, Unanswered) /\ SubOK(sub, cmds)
      /\ Arrived \in Seq(Replies) /\ Unanswered \in Seq(Nat)
  BY <1>2, StreamTypes DEF Shape, Live, Genuine
<1>4. Len(cmds) \in Nat /\ id \in Nat
  BY <1>3
<1>5. c \in Commands /\ topic \in AllTopics /\ x \in Items /\ c.op = op /\ c.topic = topic
  <2>2. NoTopic \in AllTopics
    BY DEF NoTopic, AllTopics
  <2>1. topic \in AllTopics
    BY <2>2 DEF Asks
  <2> QED BY <1>4, <2>1 DEF Asks, Command, Commands, Item, Items, Kinds, Arrays
<1>6. Arrived' = Arrived
  BY <1>1 DEF Arrived
<1>7. Unanswered' = Append(Unanswered, id) /\ obuf' \in Seq(Nat)
  <2>1. wire \o Append(obuf, id) = Append(wire \o obuf, id)
    BY ONLY <1>3, <1>4, ConcatAppend, SMTT(60)
  <2>2. Append(obuf, id) \in Seq(Nat)
    BY ONLY <1>3, <1>4, AppendProperties
  <2> QED BY <1>1, <2>1, <2>2 DEF Unanswered
<1>8. /\ cmds' \in Seq(Commands) /\ Unanswered' \in Seq(Nat) /\ Issued(cmds', Unanswered')
      /\ Appended(Stream, Stream', x)
  BY <1>1, <1>3, <1>5, <1>6, <1>7, CommandStream DEF Stream
<1>9. Counts' = Counts /\ Counts \in Seq(Nat) /\ Stream \in Seq(Items) /\ Stream' \in Seq(Items)
  BY <1>3, <1>6, <1>8, StreamFacts DEF Stream, Counts
<1>10. /\ SubOK(sub', cmds')
       /\ Callable(sub') = IF op = "subscribe" THEN Callable(sub) \cup {topic} ELSE Callable(sub)
  <2>1. CASE op = "subscribe"
    <3>1. Stored(sub, topic, Len(cmds) + 1, sub')
      BY <2>1 DEF redisAsyncCommand, Stored
    <3>2. cmds' = Append(cmds, Command("subscribe", topic))
      BY <1>1, <2>1
    <3>3. /\ SubOK(sub', Append(cmds, Command("subscribe", topic)))
          /\ Callable(sub') = Callable(sub) \cup {topic}
      BY ONLY <1>3, <1>5, <3>1, SubscribeSub
    <3> QED BY <2>1, <3>2, <3>3
  <2>2. CASE op # "subscribe"
    <3>1. sub' = sub
      BY <2>2 DEF redisAsyncCommand
    <3>2. SubOK(sub, cmds')
      BY <1>1, <1>3, <1>5, IssueSub
    <3> QED BY <2>2, <3>1, <3>2
  <2> QED BY <2>1, <2>2
<1>11. Left(cmds') = IF op = "unsubscribe" THEN Left(cmds) \cup {topic} ELSE Left(cmds)
  BY <1>1, <1>3, <1>5, LeftAppend
<1> DEFINE K == Callable(sub) \cup Left(cmds)
           L == Callable(sub') \cup Left(cmds')
<1>12. K \subseteq L /\ (c.op \in Arrays => c.topic \in L)
  BY <1>5, <1>10, <1>11 DEF Asks, Arrays
<1>13. Traced(Stream', cmds', L) /\ \A i \in 1..Len(Stream) : Stream[i].id # id
  <2>1. Traced(Stream, cmds, K)
    BY <1>2 DEF Live, Genuine
  <2>2. Appended(Stream, Stream', Item(c.op, c.topic, Len(cmds) + 1))
    BY <1>5, <1>8
  <2> HIDE DEF K, L, c
  <2>3. Traced(Stream', Append(cmds, c), L) /\ \A i \in 1..Len(Stream) : Stream[i].id # Len(cmds) + 1
    BY <1>3, <1>5, <1>9, <1>12, <2>1, <2>2, CommandTraced
  <2> QED BY <1>1, <2>3
<1>14. id \notin Gets(Stream)
  BY <1>13 DEF Gets
<1>15. runs' \in Seq(Nat) /\ Len(runs') = Len(cmds')
  BY <1>1, <1>3, <1>5, AppendProperties
<1>16. replies' \in Seq(Nat) /\ invalid' \in Seq(Nat)
  BY <1>3, <1>4, AppendProperties DEF redisAsyncCommand
<1>17. \A i \in 1..Len(cmds') : cmds'[i].op \in {"get", "monitor"} => cmds'[i].topic = NoTopic
  <2>1. \A i \in 1..Len(cmds') : cmds'[i] = c \/ (i \in 1..Len(cmds) /\ cmds'[i] = cmds[i])
    <3>1. /\ Len(cmds') = Len(cmds) + 1 /\ cmds'[Len(cmds) + 1] = c
          /\ \A i \in 1..Len(cmds) : cmds'[i] = cmds[i]
      BY <1>1, <1>3, <1>5, AppendProperties
    <3>2. \A i \in 1..Len(cmds') : i \in 1..Len(cmds) \/ i = Len(cmds) + 1
      BY <1>4, <3>1
    <3> QED BY <3>1, <3>2
  <2> QED BY <1>2, <1>5, <2>1 DEF Shape, Asks
<1>18. Shape'
  BY <1>1, <1>2, <1>7, <1>8, <1>10, <1>15, <1>16, <1>17 DEF Shape
<1>19. Genuine'
  <2>1. server.topics \subseteq L
    BY <1>2, <1>12 DEF Live, Genuine
  <2>2. cmds' # << >>
    BY <1>1, <1>3, <1>5, AppendProperties
  <2> QED BY <1>1, <1>2, <1>6, <1>8, <1>13, <2>1, <2>2 DEF Live, Genuine
<1> QED BY <1>1, <1>2, <1>5, <1>6, <1>8, <1>9, <1>10, <1>11, <1>14, <1>18, <1>19

\* What is in a concatenation is in one of the two.
LEMMA InConcat ==
    ASSUME NEW S, NEW s \in Seq(S), NEW t \in Seq(S), NEW u, u = s \o t, NEW i \in 1..Len(u)
    PROVE  u[i] \in ToSet(s \o t) /\ u[i] \in ToSet(t \o s)
<1>1. /\ Len(s) \in Nat /\ Len(t) \in Nat /\ u \in Seq(S) /\ Len(u) = Len(s) + Len(t)
      /\ u[i] = IF i <= Len(s) THEN s[i] ELSE t[i - Len(s)]
  BY ConcatProperties
<1>2. PICK w \in Seq(S) : w = t \o s
  BY ConcatProperties
<1>3. /\ Len(w) = Len(t) + Len(s)
      /\ \A j \in 1..Len(w) : w[j] = IF j <= Len(t) THEN t[j] ELSE s[j - Len(t)]
  BY <1>2, ConcatProperties
<1>4. \E j \in 1..Len(w) : w[j] = u[i]
  <2>1. CASE i <= Len(s)
    <3>1. Len(t) + i \in 1..Len(w) /\ ~(Len(t) + i <= Len(t)) /\ (Len(t) + i) - Len(t) = i
      BY <1>1, <1>3, <2>1
    <3> QED BY <1>1, <1>3, <2>1, <3>1
  <2>2. CASE ~(i <= Len(s))
    <3>1. i - Len(s) \in 1..Len(w) /\ i - Len(s) <= Len(t)
      BY <1>1, <1>3, <2>2
    <3> QED BY <1>1, <1>3, <2>2, <3>1
  <2> QED BY <2>1, <2>2
<1>5. DOMAIN u = 1..Len(u) /\ DOMAIN w = 1..Len(w)
  BY <1>1
<1> QED BY <1>2, <1>4, <1>5 DEF ToSet

\* A command without an ordinary callback leaves the lists as they are.
LEMMA OwedAfter ==
    ASSUME Sound, Queue, NEW op, NEW topic, Asks(op, topic), redisAsyncCommand(op, topic), op # "monitor"
    PROVE  /\ Owed(replies', invalid', cmds', runs')
           /\ replies' \in Seq(Nat) /\ invalid' \in Seq(Nat)
           /\ op = "get" /\ ~On => Appended(replies, replies', Len(cmds) + 1) /\ invalid' = invalid
           /\ op = "get" /\ On => Appended(invalid, invalid', Len(cmds) + 1) /\ replies' = replies
           /\ Len(cmds') = Len(cmds) + 1 /\ Len(cmds) \in Nat
           /\ \A i \in 1..Len(cmds') : cmds'[i].op # "monitor"
<1>1. /\ Shape /\ mem = "live" /\ Command(op, topic) \in Commands
      /\ cmds' = Append(cmds, Command(op, topic)) /\ runs' = Append(runs, 0)
  BY CommandFacts DEF Sound, redisAsyncCommand
<1>2. /\ cmds \in Seq(Commands) /\ runs \in Seq(Nat) /\ Len(runs) = Len(cmds)
      /\ replies \in Seq(Nat) /\ invalid \in Seq(Nat)
  BY <1>1 DEF Shape
<1>3. PICK c \in Commands : c = Command(op, topic)
  BY <1>1
<1>4. c.op = op
  BY <1>3 DEF Command
<1>5. /\ Enlisted(c, Len(cmds) + 1, On, replies, invalid, replies', invalid')
      /\ op = "get" /\ ~On => invalid' = invalid
      /\ op = "get" /\ On => replies' = replies
  BY <1>4 DEF redisAsyncCommand, On, Enlisted
<1>6. Owed(replies, invalid, cmds, runs) /\ c.op # "monitor"
  BY <1>4 DEF Queue
<1>7. /\ Owed(replies', invalid', Append(cmds, c), Append(runs, 0))
      /\ replies' \in Seq(Nat) /\ invalid' \in Seq(Nat)
  BY <1>2, <1>5, <1>6, CommandOwed
<1>11. /\ op = "get" /\ ~On => Appended(replies, replies', Len(cmds) + 1)
       /\ op = "get" /\ On => Appended(invalid, invalid', Len(cmds) + 1)
  <2>1. Len(cmds) + 1 \in Nat
    BY <1>2
  <2>2. /\ op = "get" /\ ~On => replies' = Append(replies, Len(cmds) + 1)
        /\ op = "get" /\ On => invalid' = Append(invalid, Len(cmds) + 1)
    BY DEF redisAsyncCommand, On
  <2>3. /\ Appended(replies, Append(replies, Len(cmds) + 1), Len(cmds) + 1)
        /\ Appended(invalid, Append(invalid, Len(cmds) + 1), Len(cmds) + 1)
    BY ONLY <1>2, <2>1, AppendProperties DEF Appended
  <2> QED BY <2>2, <2>3
<1>8. /\ Len(cmds') = Len(cmds) + 1 /\ Len(cmds) \in Nat /\ cmds'[Len(cmds) + 1] = c
      /\ \A i \in 1..Len(cmds) : cmds'[i] = cmds[i]
  BY <1>1, <1>2, <1>3, AppendProperties
<1>9. \A i \in 1..Len(cmds') : i \in 1..Len(cmds) \/ i = Len(cmds) + 1
  BY <1>8
<1>10. \A i \in 1..Len(cmds') : cmds'[i].op # "monitor"
  BY <1>4, <1>8, <1>9 DEF Queue
<1> QED BY <1>1, <1>3, <1>5, <1>7, <1>8, <1>10, <1>11

\* A subscribe in a queue without an unsubscribe.
LEMMA SubscribeQueue ==
    ASSUME Sound, Queue, NEW topic, Asks("subscribe", topic), redisAsyncCommand("subscribe", topic),
           "hasty" \notin seen'
    PROVE  Queue' /\ (Paired(Stream, replies, invalid) => Paired(Stream', replies', invalid'))
<1> DEFINE x == Item("subscribe", topic, Len(cmds) + 1)
<1>1. /\ Live /\ Shape /\ cmds' = Append(cmds, Command("subscribe", topic))
      /\ Stream \in Seq(Items) /\ Stream' \in Seq(Items) /\ Counts \in Seq(Nat) /\ Counts' = Counts
      /\ x \in Items /\ Appended(Stream, Stream', x)
      /\ Callable(sub') = Callable(sub) \cup {topic} /\ Left(cmds') = Left(cmds)
  BY CommandFacts DEF Sound, redisAsyncCommand
<1>2. x.kind = "subscribe" /\ x.topic = topic
  BY DEF Item
<1>3. /\ replies' = replies /\ invalid' = invalid /\ runs' = Append(runs, 0)
      /\ UNCHANGED <<server, cb>> /\ On' /\ ~Unsubscribing
  BY DEF redisAsyncCommand, On, Oddities, peer
<1>4. \A i \in 1..Len(Stream) : Stream[i].kind # "unsubscribe"
  <2>1. /\ wire \in Seq(Nat) /\ obuf \in Seq(Nat) /\ inbox \in Seq(Replies) /\ rbuf \in Seq(Replies)
        /\ cmds \in Seq(Commands) /\ Issued(cmds, Unanswered)
        /\ Arrived \in Seq(Replies) /\ Unanswered \in Seq(Nat)
    BY <1>1, StreamTypes DEF Shape, Live, Genuine
  <2>2. /\ Len(Stream) = Len(Arrived) + Len(Unanswered)
        /\ \A i \in 1..Len(Arrived) : Stream[i] = Item(Arrived[i].kind, Arrived[i].topic, Arrived[i].id)
        /\ \A i \in 1..Len(Unanswered) : Stream[Len(Arrived) + i] =
             Item(cmds[Unanswered[i]].op, cmds[Unanswered[i]].topic, Unanswered[i])
    BY <2>1, StreamFacts, ZenonT(90) DEF Stream
  <2>3. \A i \in 1..Len(Arrived) : Arrived[i].kind # "unsubscribe"
    BY <1>3, <2>1, InConcat DEF Unsubscribing, Arrived
  <2>4. \A i \in 1..Len(Unanswered) : cmds[Unanswered[i]].op # "unsubscribe"
    BY <1>3, <2>1, InConcat DEF Unsubscribing, Unanswered
  <2>8. \A k, t, d : Item(k, t, d).kind = k
    BY DEF Item
  <2>5. \A i \in 1..Len(Arrived) : Stream[i].kind # "unsubscribe"
    BY <2>2, <2>3, <2>8
  <2>6. \A i \in 1..Len(Unanswered) : Stream[Len(Arrived) + i].kind # "unsubscribe"
    BY <2>2, <2>4, <2>8
  <2>7. ASSUME NEW i \in 1..Len(Stream)
        PROVE  i \in 1..Len(Arrived) \/ (i - Len(Arrived) \in 1..Len(Unanswered) /\ Len(Arrived) + (i - Len(Arrived)) = i)
    <3>1. Len(Arrived) \in Nat /\ Len(Unanswered) \in Nat
      BY <2>1
    <3> QED BY <2>2, <3>1
  <2> QED BY <2>5, <2>6, <2>7
<1> HIDE DEF x
<1>5. Orderly(Stream', Counts, Callable(sub) \cup {topic}, server.topics, Left(cmds), TRUE)
  <2>1. Orderly(Stream, Counts, Callable(sub), server.topics, Left(cmds), On)
    BY DEF Queue
  <2>2. Orderly(Stream', Counts, Callable(sub) \cup {x.topic}, server.topics, Left(cmds), TRUE)
    BY <1>1, <1>2, <1>4, <2>1, SubscribeOrderly
  <2> QED BY <1>2, <2>2
<1>6. /\ Matched(Stream', Counts, server.topics, replies, invalid)
      /\ Paired(Stream, replies, invalid) => Paired(Stream', replies, invalid)
  <2>1. x.kind \in Arrays /\ replies \in Seq(Nat) /\ invalid \in Seq(Nat)
    BY <1>1, <1>2 DEF Arrays, Shape
  <2> QED BY <1>1, <2>1, TopicMatched DEF Queue
<1>7. Owed(replies', invalid', cmds', runs') /\ Len(cmds') = Len(cmds) + 1 /\ Len(cmds) \in Nat
      /\ \A i \in 1..Len(cmds') : cmds'[i].op # "monitor"
  <2>1. "subscribe" # "monitor"
    OBVIOUS
  <2> QED BY <2>1, OwedAfter
<1>8. On' = TRUE
  BY <1>3 DEF On
<1>9. cb' \in 0..Len(cmds')
  BY <1>3, <1>7 DEF Queue
<1>10. /\ Orderly(Stream', Counts', Callable(sub'), server'.topics, Left(cmds'), On')
       /\ Matched(Stream', Counts', server'.topics, replies', invalid')
  BY <1>1, <1>3, <1>5, <1>6, <1>8
<1>11. Queue'
  BY <1>3, <1>7, <1>9, <1>10 DEF Queue
<1> QED BY <1>3, <1>6, <1>11

\* An unsubscribe from a topic with a callback, for the first time.
LEMMA UnsubscribeQueue ==
    ASSUME Sound, Queue, NEW topic, Asks("unsubscribe", topic), redisAsyncCommand("unsubscribe", topic),
           "stray" \notin seen'
    PROVE  Queue' /\ (Paired(Stream, replies, invalid) => Paired(Stream', replies', invalid'))
<1> DEFINE x == Item("unsubscribe", topic, Len(cmds) + 1)
<1>1. /\ Live /\ Shape /\ cmds' = Append(cmds, Command("unsubscribe", topic))
      /\ Stream \in Seq(Items) /\ Stream' \in Seq(Items) /\ Counts \in Seq(Nat) /\ Counts' = Counts
      /\ x \in Items /\ Appended(Stream, Stream', x)
      /\ Callable(sub') = Callable(sub) /\ Left(cmds') = Left(cmds) \cup {topic}
  BY CommandFacts DEF Sound, redisAsyncCommand
<1>2. x.kind = "unsubscribe" /\ x.topic = topic /\ topic \in AllTopics
  BY DEF Item, Asks
<1>3. /\ replies' = replies /\ invalid' = invalid /\ runs' = Append(runs, 0)
      /\ UNCHANGED <<server, cb>> /\ (On' <=> On) /\ On
      /\ dictHas(sub[topic[1]], topic[2]) /\ ~Contains(cmds, Command("unsubscribe", topic))
  BY DEF redisAsyncCommand, On, Oddities, peer, Refuses
<1>4. topic \in Callable(sub) /\ topic \notin Left(cmds)
  <2>1. topic \in Callable(sub)
    BY <1>2, <1>3 DEF Callable
  <2>2. ASSUME NEW i \in 1..Len(cmds), cmds[i].op = "unsubscribe", cmds[i].topic = topic
        PROVE  FALSE
    <3>1. cmds[i] \in Commands
      BY <1>1 DEF Shape
    <3>2. cmds[i] = Command("unsubscribe", topic)
      BY <2>2, <3>1 DEF Command, Commands
    <3> QED BY <1>3, <3>2 DEF Contains
  <2> QED BY <2>1, <2>2 DEF Left
<1> HIDE DEF x
<1>5. Orderly(Stream', Counts, Callable(sub), server.topics, Left(cmds) \cup {topic}, On)
  <2>1. Orderly(Stream, Counts, Callable(sub), server.topics, Left(cmds), On)
    BY DEF Queue
  <2>2. x.topic \in Callable(sub) /\ x.topic \notin Left(cmds)
    BY <1>2, <1>4
  <2>3. Orderly(Stream', Counts, Callable(sub), server.topics, Left(cmds) \cup {x.topic}, On)
    BY <1>1, <1>2, <1>3, <2>1, <2>2, UnsubscribeOrderly
  <2> QED BY <1>2, <2>3
<1>6. /\ Matched(Stream', Counts, server.topics, replies, invalid)
      /\ Paired(Stream, replies, invalid) => Paired(Stream', replies, invalid)
  <2>1. x.kind \in Arrays /\ replies \in Seq(Nat) /\ invalid \in Seq(Nat)
    BY <1>1, <1>2 DEF Arrays, Shape
  <2> QED BY <1>1, <2>1, TopicMatched DEF Queue
<1>7. Owed(replies', invalid', cmds', runs') /\ Len(cmds') = Len(cmds) + 1 /\ Len(cmds) \in Nat
      /\ \A i \in 1..Len(cmds') : cmds'[i].op # "monitor"
  <2>1. "unsubscribe" # "monitor"
    OBVIOUS
  <2> QED BY <2>1, OwedAfter
<1>8. Orderly(Stream', Counts, Callable(sub), server.topics, Left(cmds) \cup {topic}, On')
  BY <1>3, <1>5, OrderlyOn
<1>9. cb' \in 0..Len(cmds')
  BY <1>3, <1>7 DEF Queue
<1>10. /\ Orderly(Stream', Counts', Callable(sub'), server'.topics, Left(cmds'), On')
       /\ Matched(Stream', Counts', server'.topics, replies', invalid')
  BY <1>1, <1>3, <1>6, <1>8
<1>11. Queue'
  BY <1>3, <1>7, <1>9, <1>10 DEF Queue
<1> QED BY <1>3, <1>6, <1>11

\* An ordinary command, on a subscribed context or not.
LEMMA GetQueue ==
    ASSUME Sound, Queue, NEW topic, Asks("get", topic), redisAsyncCommand("get", topic)
    PROVE  /\ Queue'
           /\ "mixed" \notin seen' =>
                (Paired(Stream, replies, invalid) => Paired(Stream', replies', invalid'))
<1> DEFINE x == Item("get", topic, Len(cmds) + 1)
<1>1. /\ Live /\ Shape /\ cmds' = Append(cmds, Command("get", topic))
      /\ Stream \in Seq(Items) /\ Stream' \in Seq(Items) /\ Counts \in Seq(Nat) /\ Counts' = Counts
      /\ x \in Items /\ Appended(Stream, Stream', x) /\ Len(cmds) + 1 \notin Gets(Stream)
      /\ Callable(sub') = Callable(sub) /\ Left(cmds') = Left(cmds)
  BY CommandFacts DEF Sound, redisAsyncCommand
<1>2. x.kind = "get" /\ x.id = Len(cmds) + 1 /\ x.kind \notin Arrays
  BY DEF Item, Arrays
<1>3. /\ UNCHANGED <<server, cb>> /\ (On' <=> On)
      /\ On => "mixed" \in seen'
  BY DEF redisAsyncCommand, On, Oddities, peer
<1> HIDE DEF x
<1>4. /\ Owed(replies', invalid', cmds', runs')
      /\ replies' \in Seq(Nat) /\ invalid' \in Seq(Nat)
      /\ ~On => Appended(replies, replies', x.id) /\ invalid' = invalid
      /\ On => Appended(invalid, invalid', x.id) /\ replies' = replies
      /\ Len(cmds') = Len(cmds) + 1 /\ Len(cmds) \in Nat
      /\ \A i \in 1..Len(cmds') : cmds'[i].op # "monitor"
  <2>1. "get" # "monitor"
    OBVIOUS
  <2> QED BY <1>2, <2>1, OwedAfter
<1>5. Orderly(Stream, Counts, Callable(sub), server.topics, Left(cmds), On)
  BY DEF Queue
<1>6. Orderly(Stream', Counts, Callable(sub), server.topics, Left(cmds), On')
  <2>1. Orderly(Stream', Counts, Callable(sub), server.topics, Left(cmds), On)
    BY <1>1, <1>2, <1>5, OtherOrderly
  <2> QED BY <1>3, <2>1, OrderlyOn
<1>7. /\ Matched(Stream, Counts, server.topics, replies, invalid)
      /\ replies \in Seq(Nat) /\ invalid \in Seq(Nat)
      /\ x.id \notin Gets(Stream)
  BY <1>1, <1>2 DEF Queue, Shape
<1>8. /\ Matched(Stream', Counts, server.topics, replies', invalid')
      /\ ~On => (Paired(Stream, replies, invalid) => Paired(Stream', replies', invalid'))
  <2>1. CASE On
    BY <1>1, <1>2, <1>4, <1>7, <2>1, MixedMatched
  <2>2. CASE ~On
    <3>1. server.topics = {} /\ NoArrays(Stream, 0)
      BY <1>5, <2>2 DEF Orderly
    <3>2. Matched(Stream, Counts, {}, replies, invalid)
      BY <1>7, <3>1
    <3>3. Appended(replies, replies', x.id) /\ invalid' = invalid
      BY <1>4, <2>2
    <3>4. /\ Matched(Stream', Counts, {}, replies', invalid)
          /\ Paired(Stream, replies, invalid) => Paired(Stream', replies', invalid)
      BY <1>1, <1>2, <1>4, <1>7, <3>1, <3>2, <3>3, GetMatched
    <3> QED BY <3>1, <3>3, <3>4
  <2> QED BY <2>1, <2>2
<1>9. cb' \in 0..Len(cmds')
  BY <1>3, <1>4 DEF Queue
<1>10. /\ Orderly(Stream', Counts', Callable(sub'), server'.topics, Left(cmds'), On')
       /\ Matched(Stream', Counts', server'.topics, replies', invalid')
  BY <1>1, <1>3, <1>6, <1>8
<1>11. Queue'
  BY <1>3, <1>4, <1>9, <1>10 DEF Queue
<1> QED BY <1>3, <1>8, <1>11

\* A context that was never used has nothing under way.
LEMMA FreshContext ==
    ASSUME Shape, Live, Queue, cmds = << >>
    PROVE  /\ Stream = << >> /\ Arrived = << >> /\ server.topics = {} /\ ~On
           /\ replies = << >> /\ invalid = << >> /\ cb = 0
<1>1. /\ Issued(cmds, Unanswered) /\ Arrived \in Seq(Replies) /\ Unanswered \in Seq(Nat)
      /\ cmds \in Seq(Commands) /\ replies \in Seq(Nat) /\ invalid \in Seq(Nat)
  BY StreamTypes DEF Shape, Live, Genuine
<1>2. /\ Stream \in Seq(Items) /\ Len(Stream) = Len(Arrived) + Len(Unanswered)
  BY <1>1, StreamFacts DEF Stream
<1>3. ~On /\ Len(cmds) = 0 /\ cb = 0
  BY DEF Live, Genuine, Queue
<1>4. server.topics = {} /\ NoArrays(Stream, 0)
  BY <1>3 DEF Queue, Orderly
<1>5. ASSUME NEW i \in 1..Len(Stream)
      PROVE  FALSE
  <2>1. Stream[i].kind \notin Arrays /\ Stream[i].kind # "monitor"
    <3>1. i > 0
      OBVIOUS
    <3> QED BY <1>4, <1>5, <3>1 DEF NoArrays, Queue, Matched, NoMonitors
  <2>2. Tagged(Stream, cmds)
    BY DEF Live, Genuine, Traced
  <2>3. Stream[i].kind = "message" \/ Stream[i].kind = "monitor" \/ Stream[i].id \in 1..Len(cmds)
    BY <1>5, <2>2 DEF Tagged
  <2> QED BY <1>3, <2>1, <2>3 DEF Arrays
<1>6. Len(Stream) = 0
  <2>1. Len(Stream) \in Nat
    BY <1>2
  <2>2. Len(Stream) # 0 => 1 \in 1..Len(Stream)
    BY <2>1
  <2> QED BY <1>5, <2>2
<1>7. Len(Arrived) = 0
  <2>1. Len(Arrived) \in Nat /\ Len(Unanswered) \in Nat
    BY <1>1
  <2> QED BY <1>2, <1>6, <2>1
<1>8. \A x : ~Contains(replies, x) /\ ~Contains(invalid, x)
  BY <1>3 DEF Queue, Owed
<1>9. replies = << >> /\ invalid = << >>
  <2>1. \A s \in Seq(Nat) : (\A x : ~Contains(s, x)) => s = << >>
    <3> SUFFICES ASSUME NEW s \in Seq(Nat), s # << >> PROVE Contains(s, s[1])
      OBVIOUS
    <3>1. 1 \in 1..Len(s)
      OBVIOUS
    <3> QED BY <3>1 DEF Contains
  <2> QED BY <1>1, <1>8, <2>1
<1> QED BY <1>1, <1>2, <1>3, <1>4, <1>6, <1>7, <1>9, EmptySeq

\* MONITOR as the first command of a context.
LEMMA MonitorAlone ==
    ASSUME Sound, Queue, NEW topic, Asks("monitor", topic), redisAsyncCommand("monitor", topic),
           cmds = << >>
    PROVE  Alone' /\ AlonePaired'
<1> DEFINE x == Item("monitor", topic, Len(cmds) + 1)
<1>1. /\ Live /\ Shape /\ cmds' = Append(cmds, Command("monitor", topic))
      /\ Command("monitor", topic) \in Commands
      /\ Stream \in Seq(Items) /\ Appended(Stream, Stream', x) /\ Arrived' = Arrived
  BY CommandFacts DEF Sound, redisAsyncCommand
<1>2. x.kind = "monitor" /\ Command("monitor", topic).op = "monitor"
  BY DEF Item, Command
<1>3. /\ Stream = << >> /\ Arrived = << >> /\ server.topics = {} /\ ~On
      /\ replies = << >> /\ invalid = << >> /\ cb = 0
  BY <1>1, FreshContext
<1>4. /\ replies' = Append(replies, Len(cmds) + 1) /\ invalid' = invalid
      /\ UNCHANGED <<server, cb, phase>> /\ (On' <=> On)
      /\ phase = "idle" \/ cb # 0
  BY DEF redisAsyncCommand, On, peer, Outside, InCallback
<1>5. replies' = <<1>> /\ phase' = "idle"
  BY <1>3, <1>4
<1>6. AlonePaired'
  BY <1>5 DEF AlonePaired
<1> HIDE DEF x
<1>7. Len(cmds') = 1 /\ cmds'[1].op = "monitor"
  <2>1. Len(cmds) = 0 /\ cmds \in Seq(Commands)
    BY <1>1 DEF Shape
  <2>2. Len(cmds') = Len(cmds) + 1 /\ cmds'[Len(cmds) + 1] = Command("monitor", topic)
    BY <1>1, <2>1, AppendProperties
  <2> QED BY <1>2, <2>1, <2>2
<1>8. \A i \in 1..Len(Stream') : Stream'[i].kind = "monitor"
  <2>1. Len(Stream) = 0
    BY <1>3
  <2>2. Len(Stream') = 1 /\ Stream'[1] = x
    BY <1>1, <2>1 DEF Appended
  <2>3. \A i \in 1..Len(Stream') : i = 1
    BY <2>2
  <2> QED BY <1>2, <2>2, <2>3
<1>9. \A i \in 1..Len(Arrived') : Arrived'[i].type = "string"
  BY <1>1, <1>3
<1>10. server'.topics = {} /\ ~On' /\ invalid' = << >>
  BY <1>3, <1>4
<1>11. Alone'
  BY <1>7, <1>8, <1>9, <1>10 DEF Alone
<1> QED BY <1>6, <1>11

\* __redisAsyncCommand.
LEMMA CommandSound ==
    ASSUME Sound, NEW op, NEW topic, Asks(op, topic), redisAsyncCommand(op, topic)
    PROVE  Sound'
<1>1. Shape' /\ Genuine' /\ Live
  BY CommandFacts
<1>2. mem' = "live" /\ seen' = seen \cup Oddities(op, topic)
  BY DEF redisAsyncCommand
<1>3. ASSUME Calm'
      PROVE  /\ Calm /\ ~Monitoring
             /\ "stray" \notin seen' /\ "hasty" \notin seen'
             /\ op = "monitor" => cmds = << >>
  BY <1>2, <1>3 DEF Calm, Oddities, Monitoring
<1>4. "mixed" \notin seen' => "mixed" \notin seen
  BY <1>2
<1>5. Monitoring' <=> Monitoring \/ op = "monitor"
  BY DEF redisAsyncCommand, Monitoring, Asks
<1>6. ASSUME Calm', ~Monitoring'
      PROVE  Queue' /\ ("mixed" \notin seen' => Paired(Stream', replies', invalid'))
  <2>1. Queue /\ ("mixed" \notin seen => Paired(Stream, replies, invalid))
    BY <1>1, <1>3, <1>6 DEF Live
  <2>2. op # "monitor"
    BY <1>5, <1>6
  <2>3. CASE op = "get"
    <3>1. Asks("get", topic) /\ redisAsyncCommand("get", topic)
      BY <2>3
    <3> QED BY <1>4, <2>1, <3>1, GetQueue
  <2>4. CASE op = "subscribe"
    <3>1. Asks("subscribe", topic) /\ redisAsyncCommand("subscribe", topic)
      BY <2>4
    <3> QED BY <1>3, <1>4, <1>6, <2>1, <3>1, SubscribeQueue
  <2>5. CASE op = "unsubscribe"
    <3>1. Asks("unsubscribe", topic) /\ redisAsyncCommand("unsubscribe", topic)
      BY <2>5
    <3> QED BY <1>3, <1>4, <1>6, <2>1, <3>1, UnsubscribeQueue
  <2> QED BY <2>2, <2>3, <2>4, <2>5 DEF Asks
<1>7. ASSUME Calm', Monitoring'
      PROVE  Alone' /\ AlonePaired'
  <2>1. Queue /\ op = "monitor" /\ cmds = << >>
    BY <1>1, <1>3, <1>5, <1>7 DEF Live
  <2>2. Asks("monitor", topic) /\ redisAsyncCommand("monitor", topic)
    BY <2>1
  <2> QED BY <2>1, <2>2, MonitorAlone
<1>8. Live'
  BY <1>1, <1>6, <1>7 DEF Live
<1> QED BY <1>1, <1>2, <1>8 DEF Sound

\* The callback of a reply is a number, and what is called is one more.
LEMMA FoundFacts ==
    ASSUME Shape, NEW r \in Replies
    PROVE  Found(r) \in Nat
<1>1. /\ replies \in Seq(Nat) /\ invalid \in Seq(Nat) /\ cb \in Nat /\ SubOK(sub, cmds)
      /\ cmds \in Seq(Commands) /\ r.topic \in AllTopics
  BY DEF Shape, Replies
<1>2. CASE Regular(r)
  <2>1. replies # << >>
    BY <1>2 DEF Regular
  <2>2. Head(replies) \in Nat
    BY <1>1, <2>1
  <2>3. Found(r) = Head(replies)
    BY <1>2 DEF Found
  <2> QED BY <2>2, <2>3
<1>3. CASE ~Regular(r) /\ ~On
  <2>1. Found(r) = cb
    BY <1>3 DEF Found, On
  <2> QED BY <1>1, <2>1
<1>4. CASE ~Regular(r) /\ On /\ r.type = "array"
  <2>1. Found(r) = IF dictHas(Callbacks(r), r.topic[2]) THEN dictFind(Callbacks(r), r.topic[2]) ELSE cb
    BY <1>4 DEF Found, On
  <2>2. CASE dictHas(Callbacks(r), r.topic[2])
    <3>1. r.topic \in Callable(sub)
      BY <1>1, <2>2 DEF Callable, Callbacks
    <3>2. dictFind(sub[r.topic[1]], r.topic[2]) \in 1..Len(cmds)
      BY <1>1, <3>1, FindCallback
    <3> QED BY <2>1, <2>2, <3>2 DEF Callbacks
  <2> QED BY <1>1, <2>1, <2>2
<1>5. CASE ~Regular(r) /\ On /\ r.type # "array"
  <2>1. Found(r) = IF invalid # << >> THEN Head(invalid) ELSE cb
    BY <1>5 DEF Found, On
  <2>2. invalid # << >> => Head(invalid) \in Nat
    BY <1>1
  <2> QED BY <1>1, <2>1, <2>2
<1> QED BY <1>2, <1>3, <1>4, <1>5

\* One reply less, and perhaps one topic with a callback less.
LEMMA ReplyFacts ==
    ASSUME Sound, Inv, processReply, NEW r, r = Head(rbuf)
    PROVE  /\ Shape /\ Live /\ Shape' /\ Genuine' /\ mem = "live" /\ mem' = "live" /\ r \in Replies
           /\ Arrived # << >> /\ Arrived[1] = r /\ Arrived' = Tail(Arrived) /\ Arrived \in Seq(Replies)
           /\ Stream \in Seq(Items) /\ Stream' \in Seq(Items) /\ Stream # << >>
           /\ Counts \in Seq(Nat) /\ Counts' \in Seq(Nat)
           /\ Stream[1].kind = r.kind /\ Stream[1].topic = r.topic /\ Stream[1].id = r.id
           /\ Counts[1] = r.n
           /\ Shifted(Stream, Stream') /\ Shifted(Counts, Counts')
           /\ Callable(sub') = IF Unsubscribes(r) THEN Callable(sub) \ {r.topic} ELSE Callable(sub)
           /\ r.type = "array" <=> r.kind \in Arrays
<1>1. /\ phase = "process" /\ rbuf # << >> /\ mem = "live" /\ mem' = "live"
      /\ UNCHANGED <<obuf, wire, inbox, server, cmds>>
      /\ rbuf' = Tail(rbuf) /\ cb' = Found(r) /\ runs' = Called(runs, <<Found(r)>>)
      /\ sub' = IF Unsubscribes(r)
                  THEN [sub EXCEPT ![r.topic[1]] = dictDelete(@, r.topic[2])] ELSE sub
  BY DEF processReply, peer, Inv
<1>2. phase' # "idle"
  BY DEF processReply
<1>3. Shape /\ Live
  BY <1>1 DEF Sound
<1>4. /\ r \in Replies /\ Tail(rbuf) \in Seq(Replies)
      /\ Arrived # << >> /\ Arrived[1] = r /\ Tail(rbuf) \o inbox = Tail(Arrived)
      /\ Stream # << >> /\ Stream[1] = Item(r.kind, r.topic, r.id)
      /\ r.type = "array" <=> r.kind \in Arrays
  BY <1>1, HeadItem
<1>5. Arrived' = Tail(Arrived) /\ Unanswered' = Unanswered
  BY <1>1, <1>4 DEF Arrived, Unanswered
<1>6. /\ Arrived \in Seq(Replies) /\ Unanswered \in Seq(Nat) /\ cmds \in Seq(Commands)
      /\ Issued(cmds, Unanswered) /\ runs \in Seq(Nat) /\ Len(runs) = Len(cmds)
      /\ replies \in Seq(Nat) /\ invalid \in Seq(Nat) /\ SubOK(sub, cmds)
  BY <1>3, StreamTypes DEF Shape, Live, Genuine
<1>7. /\ Arrived' \in Seq(Replies)
      /\ Shifted(Stream, Stream') /\ Shifted(Counts, Counts') /\ Counts[1] = r.n
  BY <1>1, <1>4, <1>5, <1>6, HandleStream DEF Stream, Counts
<1>8. /\ Stream \in Seq(Items) /\ Stream' \in Seq(Items) /\ Counts \in Seq(Nat) /\ Counts' \in Seq(Nat)
  <2>1. Stream \in Seq(Items) /\ Counts \in Seq(Nat)
    BY <1>6, StreamFacts DEF Stream, Counts
  <2>2. Stream' \in Seq(Items) /\ Counts' \in Seq(Nat)
    BY <1>1, <1>5, <1>6, <1>7, StreamFacts DEF Stream, Counts
  <2> QED BY <2>1, <2>2
<1>9. Stream[1].kind = r.kind /\ Stream[1].topic = r.topic /\ Stream[1].id = r.id
  BY <1>4 DEF Item
<1>10. /\ SubOK(sub', cmds)
       /\ Callable(sub') = IF Unsubscribes(r) THEN Callable(sub) \ {r.topic} ELSE Callable(sub)
  <2>1. CASE Unsubscribes(r)
    <3>1. Removed(sub, r.topic, sub') /\ r.topic \in AllTopics
      BY <1>1, <1>4, <2>1 DEF Removed, Replies
    <3>2. SubOK(sub', cmds) /\ Callable(sub') = Callable(sub) \ {r.topic}
      BY <1>6, <3>1, UnsubscribeSub
    <3> QED BY <2>1, <3>2
  <2>2. CASE ~Unsubscribes(r)
    BY <1>1, <1>6, <2>2
  <2> QED BY <2>1, <2>2
<1>11. Callable(sub) \cup Left(cmds) \subseteq Callable(sub') \cup Left(cmds)
  <2>1. CASE Unsubscribes(r)
    <3>1. Stream[1].kind = "unsubscribe" /\ 1 \in 1..Len(Stream)
      BY <1>4, <1>8, <1>9, <2>1 DEF Unsubscribes
    <3>2. Stream[1].id \in 1..Len(cmds) /\ cmds[Stream[1].id] = Command("unsubscribe", r.topic)
      BY <1>3, <1>9, <3>1 DEF Live, Genuine, Traced, Tagged
    <3>3. r.topic \in Left(cmds)
      BY <3>2, <1>6, LeftHas
    <3> QED BY <1>10, <3>3
  <2>2. CASE ~Unsubscribes(r)
    BY <1>10, <2>2
  <2> QED BY <2>1, <2>2
<1>12. Found(r) \in Nat
  BY <1>3, <1>4, FoundFacts
<1>13. runs' \in Seq(Nat) /\ Len(runs') = Len(cmds)
  <2>1. PICK f \in Nat : f = Found(r)
    BY <1>12
  <2>2. <<f>> \in Seq(Nat)
    OBVIOUS
  <2>3. PICK e \in Seq(Nat) : e = <<Found(r)>>
    BY <2>1, <2>2
  <2> QED BY <1>1, <1>6, <2>3, CalledFacts
<1>14. replies' \in Seq(Nat) /\ invalid' \in Seq(Nat)
  <2>1. \A s \in Seq(Nat) : s # << >> => Tail(s) \in Seq(Nat)
    OBVIOUS
  <2>2. /\ replies' = replies \/ (replies # << >> /\ replies' = Tail(replies))
        /\ invalid' = invalid \/ (invalid # << >> /\ invalid' = Tail(invalid))
    BY DEF processReply, Regular
  <2> QED BY <1>6, <2>1, <2>2
<1>15. Shape'
  BY <1>1, <1>3, <1>4, <1>10, <1>12, <1>13, <1>14 DEF Shape
<1>16. \A i \in 1..Len(Arrived') : Arrived'[i].type = "array" <=> Arrived'[i].kind \in Arrays
  <2>1. \A i \in 1..Len(Arrived') : i + 1 \in 1..Len(Arrived) /\ Arrived'[i] = Arrived[i + 1]
    <3>1. Len(Arrived') = Len(Arrived) - 1 /\ Len(Arrived) \in Nat
          /\ \A i \in 1..Len(Arrived') : Arrived'[i] = Arrived[i + 1]
      BY <1>4, <1>5, <1>6, HeadTailProperties
    <3> QED BY <3>1
  <2> QED BY <1>3, <2>1 DEF Live, Genuine
<1>17. Genuine'
  <2>1. Traced(Stream', cmds, Callable(sub') \cup Left(cmds))
    BY <1>3, <1>7, <1>8, <1>11, HandleTraced DEF Live, Genuine
  <2>2. cmds = << >> => ~On' /\ ~Monitoring'
    <3>1. (On' => On) /\ (Monitoring' => Monitoring)
      BY DEF processReply, On, Monitoring
    <3> QED BY <1>3, <3>1 DEF Live, Genuine
  <2> QED BY <1>1, <1>2, <1>3, <1>5, <1>6, <1>11, <1>16, <2>1, <2>2 DEF Live, Genuine
<1> QED BY <1>1, <1>3, <1>4, <1>5, <1>6, <1>7, <1>8, <1>9, <1>10, <1>15, <1>17

\* On a context without MONITOR the reply at the front finds a callback, its own
\* one unless ordinary commands were sent while it was subscribed.
LEMMA ReplyQueue ==
    ASSUME Sound, Inv, processReply, Queue, ~Monitoring, NEW r, r = Head(rbuf)
    PROVE  /\ Queue' /\ Found(r) \in 1..Len(cmds)
           /\ Paired(Stream, replies, invalid) =>
                Paired(Stream', replies', invalid') /\ Meant(r, Found(r))
<1> DEFINE S == Stream
           id == Found(r)
<1>1. /\ Shape /\ Live /\ r \in Replies
      /\ S \in Seq(Items) /\ Stream' \in Seq(Items) /\ S # << >>
      /\ Counts \in Seq(Nat) /\ Counts' \in Seq(Nat)
      /\ S[1].kind = r.kind /\ S[1].topic = r.topic /\ S[1].id = r.id
      /\ Counts[1] = r.n
      /\ Shifted(S, Stream') /\ Shifted(Counts, Counts')
      /\ Callable(sub') = IF Unsubscribes(r) THEN Callable(sub) \ {r.topic} ELSE Callable(sub)
      /\ r.type = "array" <=> r.kind \in Arrays
  BY ReplyFacts
<1>2. /\ UNCHANGED <<cmds, server>> /\ cb' = id /\ runs' = Called(runs, <<id>>)
      /\ replies' = IF Regular(r) THEN Tail(replies) ELSE replies
      /\ invalid' = IF ~Regular(r) /\ On /\ r.type # "array" /\ invalid # << >>
                      THEN Tail(invalid) ELSE invalid
      /\ ~Spontaneous(r) /\ ~Unexpected(r)
      /\ On' <=> On /\ ~(Unsubscribes(r) /\ r.n = 0)
  BY DEF processReply, peer, On
<1>3. /\ replies \in Seq(Nat) /\ invalid \in Seq(Nat) /\ cmds \in Seq(Commands)
      /\ runs \in Seq(Nat) /\ Len(runs) = Len(cmds) /\ SubOK(sub, cmds)
      /\ r.type \in {"array", "string", "error"} /\ r.kind \in Kinds /\ r.topic \in AllTopics
  BY <1>1 DEF Shape, Replies
<1>4. /\ Orderly(S, Counts, Callable(sub), server.topics, Left(cmds), On)
      /\ Matched(S, Counts, server.topics, replies, invalid)
      /\ Owed(replies, invalid, cmds, runs)
  BY DEF Queue
<1>5. 1 \in 1..Len(S) /\ Len(S) \in Nat
  BY <1>1
<1>6. r.kind # "monitor" /\ (replies # << >> => r.kind = "get")
  <2>1. r.kind # "monitor"
    BY <1>1, <1>4, <1>5 DEF Matched, NoMonitors
  <2>2. replies # << >> => 1 \in 1..Len(replies)
    BY <1>3
  <2> QED BY <1>1, <1>4, <2>1, <2>2 DEF Matched
<1>7. r.kind \in Arrays => On /\ r.topic \in Callable(sub) /\ dictHas(Callbacks(r), r.topic[2])
  <2> SUFFICES ASSUME r.kind \in Arrays
               PROVE  On /\ r.topic \in Callable(sub) /\ dictHas(Callbacks(r), r.topic[2])
    OBVIOUS
  <2>1. On
    BY <1>1, <1>4, <1>5 DEF Orderly, NoArrays
  <2>2. r.topic \in Callable(sub)
    BY <1>1, <1>4, <1>5 DEF Orderly, Known
  <2> QED BY <2>1, <2>2 DEF Callable, Callbacks
<1>8. Unsubscribes(r) <=> r.kind = "unsubscribe"
  BY <1>6, <1>7 DEF Unsubscribes, Regular, Arrays, On
<1>9. ASSUME r.kind \in Arrays
      PROVE  /\ replies = << >> /\ replies' = replies /\ invalid' = invalid
             /\ Spent(id, cmds, replies, invalid, replies', invalid')
             /\ id \in 1..Len(cmds) /\ Meant(r, id)
  <2>1. replies = << >> /\ ~Regular(r) /\ r.type = "array"
    BY <1>1, <1>6, <1>9 DEF Arrays, Regular
  <2>2. id = dictFind(sub[r.topic[1]], r.topic[2])
    BY <1>7, <1>9, <2>1 DEF Found, On, Callbacks
  <2>3. id \in 1..Len(cmds) /\ cmds[id] = Command("subscribe", r.topic)
    BY <1>3, <1>7, <1>9, <2>2, FindCallback
  <2>4. replies' = replies /\ invalid' = invalid
    BY <1>2, <2>1
  <2>5. cmds[id].op # "get"
    BY <2>3 DEF Command
  <2>6. Spent(id, cmds, replies, invalid, replies', invalid') /\ id # 0 /\ id \in Nat
    BY <1>3, <2>3, <2>4, <2>5 DEF Spent
  <2>7. Meant(r, id)
    BY <2>1, <2>3, <2>6 DEF Meant
  <2> QED BY <2>1, <2>3, <2>4, <2>6, <2>7
<1>10. ASSUME r.kind = "get", replies # << >>
       PROVE  /\ replies' = Tail(replies) /\ invalid' = invalid
              /\ Spent(id, cmds, replies, invalid, replies', invalid')
              /\ id \in 1..Len(cmds) /\ (Paired(S, replies, invalid) => Meant(r, id))
  <2>1. Regular(r) /\ replies' = Tail(replies) /\ invalid' = invalid
    BY <1>2, <1>10 DEF Regular
  <2>2. id = Head(replies)
    BY <2>1 DEF Found
  <2>3. Spent(id, cmds, replies, invalid, replies', invalid')
    BY <1>10, <2>1, <2>2 DEF Spent
  <2>4. 1 \in 1..Len(replies) /\ id = replies[1]
    BY <1>3, <1>10, <2>2
  <2>5. id \in 1..Len(cmds)
    BY <1>4, <2>4 DEF Owed, Contains
  <2>6. Paired(S, replies, invalid) => id = r.id
    BY <1>1, <2>4 DEF Paired
  <2> QED BY <2>1, <2>3, <2>5, <2>6 DEF Meant
<1>11. ASSUME r.kind = "get", replies = << >>
       PROVE  /\ replies' = replies /\ invalid # << >> /\ invalid' = Tail(invalid)
              /\ Spent(id, cmds, replies, invalid, replies', invalid')
              /\ id \in 1..Len(cmds) /\ (Paired(S, replies, invalid) => Meant(r, id))
  <2>1. ~Regular(r) /\ r.type # "array" /\ On
    BY <1>1, <1>2, <1>11 DEF Regular, Spontaneous, Unexpected, On, Monitoring, Arrays
  <2>2. invalid # << >>
    BY <1>1, <1>3, <1>4, <1>11, CallbackThere
  <2>3. id = Head(invalid) /\ replies' = replies /\ invalid' = Tail(invalid)
    BY <1>2, <2>1, <2>2 DEF Found, On
  <2>4. Spent(id, cmds, replies, invalid, replies', invalid')
    BY <2>2, <2>3 DEF Spent
  <2>5. 1 \in 1..Len(invalid) /\ id = invalid[1]
    BY <1>3, <2>2, <2>3
  <2>6. id \in 1..Len(cmds)
    BY <1>4, <2>5 DEF Owed, Contains
  <2> QED BY <2>2, <2>3, <2>4, <2>6 DEF Paired
<1>12. r.kind \in Arrays \/ r.kind = "get"
  BY <1>3, <1>6 DEF Kinds
<1>13. /\ Spent(id, cmds, replies, invalid, replies', invalid') /\ id \in 1..Len(cmds) /\ id \in Nat
       /\ Paired(S, replies, invalid) => Meant(r, id)
  BY <1>3, <1>9, <1>10, <1>11, <1>12
<1>14. /\ Owed(replies', invalid', cmds, runs')
       /\ replies' \in Seq(Nat) /\ invalid' \in Seq(Nat)
       /\ replies # << >> /\ replies' = Tail(replies) => Shifted(replies, replies')
       /\ invalid # << >> /\ invalid' = Tail(invalid) => Shifted(invalid, invalid')
  <2>1. /\ Owed(replies', invalid', cmds, Called(runs, <<id>>))
        /\ replies' \in Seq(Nat) /\ invalid' \in Seq(Nat)
        /\ replies # << >> /\ replies' = Tail(replies) => Shifted(replies, replies')
        /\ invalid # << >> /\ invalid' = Tail(invalid) => Shifted(invalid, invalid')
    BY ONLY <1>3, <1>4, <1>13, CallOwed
  <2> QED BY <1>2, <2>1
<1>15. Orderly(Stream', Counts', Callable(sub'), server.topics, Left(cmds), On')
  <2>1. S[1].kind = "unsubscribe" =>
          Callable(sub') = Callable(sub) \ {S[1].topic} /\ (On' <=> (On /\ Counts[1] # 0))
    BY <1>1, <1>2, <1>8
  <2>2. S[1].kind # "unsubscribe" => Callable(sub') = Callable(sub) /\ (On' <=> On)
    BY <1>1, <1>2, <1>8
  <2> QED BY <1>1, <1>4, <2>1, <2>2, HandleOrderly
<1>16. /\ Matched(Stream', Counts', server.topics, replies', invalid')
       /\ Paired(S, replies, invalid) => Paired(Stream', replies', invalid')
  <2>1. IdsDiffer(S) /\ Tagged(S, cmds)
    BY <1>1 DEF Live, Genuine, Traced
  <2>2. S[1].kind = "get" => S[1].id # 0
    BY <1>5, <2>1 DEF Tagged
  <2>3. replies # << >> => Shifted(replies, replies') /\ invalid' = invalid
    BY <1>6, <1>10, <1>14
  <2>4. replies = << >> /\ S[1].kind = "get" => replies' = replies /\ Shifted(invalid, invalid')
    BY <1>1, <1>11, <1>14
  <2>5. replies = << >> /\ S[1].kind # "get" => replies' = replies /\ invalid' = invalid
    BY <1>1, <1>9, <1>12
  <2>6. Taken(S[1], replies, invalid, replies', invalid')
    BY <2>2, <2>3, <2>4, <2>5 DEF Taken
  <2> QED BY ONLY <1>1, <1>3, <1>4, <1>14, <2>1, <2>6, HandleMatched
<1>17. Queue'
  BY <1>2, <1>13, <1>14, <1>15, <1>16 DEF Queue
<1> QED BY <1>13, <1>16, <1>17

\* On a context for MONITOR alone every reply finds the one callback.
LEMMA ReplyAlone ==
    ASSUME Sound, Inv, processReply, Alone, NEW r, r = Head(rbuf)
    PROVE  Alone' /\ (AlonePaired => AlonePaired' /\ Found(r) = 1 /\ Meant(r, 1))
<1>1. /\ Shape /\ r \in Replies
      /\ Stream \in Seq(Items) /\ Stream' \in Seq(Items) /\ Stream # << >>
      /\ Stream[1].kind = r.kind /\ Shifted(Stream, Stream')
      /\ Arrived' = Tail(Arrived) /\ Arrived \in Seq(Replies) /\ Arrived # << >>
  BY ReplyFacts
<1>2. /\ UNCHANGED <<cmds, server>> /\ cb' = Found(r) /\ phase = "process"
      /\ replies' = IF Regular(r) THEN Tail(replies) ELSE replies
      /\ (On' => On) /\ phase' # "idle"
      /\ ~On => invalid' = invalid
  BY DEF processReply, peer, On
<1>3. \A i \in 1..Len(Stream') : Stream'[i].kind = "monitor"
  <2>1. /\ Len(Stream') \in Nat /\ Len(Stream) = Len(Stream') + 1
        /\ \A i \in 1..Len(Stream') : Stream'[i] = Stream[i + 1]
    BY <1>1 DEF Shifted
  <2>2. \A i \in 1..Len(Stream') : i + 1 \in 1..Len(Stream)
    BY <2>1
  <2> QED BY <2>1, <2>2 DEF Alone
<1>4. \A i \in 1..Len(Arrived') : Arrived'[i].type = "string"
  <2>1. Len(Arrived') = Len(Arrived) - 1 /\ Len(Arrived) \in Nat
        /\ \A i \in 1..Len(Arrived') : Arrived'[i] = Arrived[i + 1]
    BY <1>1, HeadTailProperties
  <2>2. \A i \in 1..Len(Arrived') : i + 1 \in 1..Len(Arrived)
    BY <2>1
  <2> QED BY <2>1, <2>2 DEF Alone
<1>5. Alone'
  BY <1>2, <1>3, <1>4 DEF Alone
<1>6. ASSUME AlonePaired
      PROVE  AlonePaired' /\ Found(r) = 1 /\ Meant(r, 1)
  <2>1. ASSUME cb = 0, replies = << 1 >>
        PROVE  Found(r) = 1 /\ replies' = << >>
    <3>1. Regular(r) /\ Head(replies) = 1 /\ Tail(replies) = << >>
      BY <2>1 DEF Regular
    <3> QED BY <1>2, <3>1 DEF Found
  <2>2. ASSUME cb = 1, replies = << >>
        PROVE  Found(r) = 1 /\ replies' = << >>
    <3>1. ~Regular(r) /\ ~On
      BY <2>2 DEF Regular, Alone
    <3> QED BY <1>2, <2>2, <3>1 DEF Found, On
  <2>3. r.kind = "monitor"
    <3>1. 1 \in 1..Len(Stream)
      BY <1>1
    <3> QED BY <1>1, <3>1 DEF Alone
  <2>4. Meant(r, 1)
    BY <2>3 DEF Meant, Alone
  <2>5. Found(r) = 1 /\ replies' = << >>
    BY <1>2, <1>6, <2>1, <2>2 DEF AlonePaired
  <2> QED BY <1>2, <2>4, <2>5 DEF AlonePaired
<1> QED BY <1>5, <1>6

\* A reply is handled; without oddities it reaches its callback.
LEMMA ReplySound ==
    ASSUME Sound, Inv, processReply
    PROVE  /\ Sound'
           /\ seen' \subseteq seen \cup {"dropped", "wrong"} /\ seen \subseteq seen'
           /\ Calm /\ "mixed" \notin seen /\ "partial" \notin seen => seen' = seen
<1>1. PICK r : r = Head(rbuf)
  OBVIOUS
<1>2. /\ Shape' /\ Genuine' /\ mem' = "live" /\ Live /\ mem = "live"
  BY <1>1, ReplyFacts
<1>3. seen' = seen \cup (IF Found(r) = 0 THEN {"dropped"}
                         ELSE IF Meant(r, Found(r)) THEN {} ELSE {"wrong"})
  BY <1>1 DEF processReply
<1>4. (Calm' <=> Calm) /\ ("mixed" \in seen' <=> "mixed" \in seen) /\ ("partial" \in seen' <=> "partial" \in seen)
  BY <1>3 DEF Calm
<1>5. Monitoring' <=> Monitoring
  BY DEF processReply, Monitoring
<1>6. ASSUME Calm, ~Monitoring
      PROVE  /\ Queue' /\ ("mixed" \notin seen => Paired(Stream', replies', invalid'))
             /\ "mixed" \notin seen => seen' = seen
  <2>1. Queue /\ ("mixed" \notin seen => Paired(Stream, replies, invalid))
    BY <1>2, <1>6 DEF Live
  <2>2. /\ Queue' /\ Found(r) \in 1..Len(cmds)
        /\ Paired(Stream, replies, invalid) =>
             Paired(Stream', replies', invalid') /\ Meant(r, Found(r))
    BY <1>1, <1>6, <2>1, ReplyQueue
  <2>3. Found(r) # 0
    BY <2>2
  <2> QED BY <1>3, <2>1, <2>2, <2>3
<1>7. ASSUME Calm, Monitoring
      PROVE  /\ Alone' /\ ("partial" \notin seen => AlonePaired')
             /\ "partial" \notin seen => seen' = seen
  <2>1. Alone /\ ("partial" \notin seen => AlonePaired)
    BY <1>2, <1>7 DEF Live
  <2>2. Alone' /\ (AlonePaired => AlonePaired' /\ Found(r) = 1 /\ Meant(r, 1))
    BY <1>1, <2>1, ReplyAlone
  <2> QED BY <1>3, <2>1, <2>2
<1>8. Live'
  BY <1>2, <1>4, <1>5, <1>6, <1>7 DEF Live
<1> QED BY <1>2, <1>3, <1>6, <1>7, <1>8 DEF Sound

\* One of the four commands of Next.
LEMMA NextAsks ==
    /\ \A op \in Ops \cap {"get", "monitor"} : Asks(op, NoTopic)
    /\ \A op \in Ops \cap {"subscribe", "unsubscribe"}, t \in Topics : Asks(op, t)
BY TopicAssumption DEF Asks, NoTopic, AllTopics

\* Before the first command.
LEMMA InitSound == Init => Full
<1> SUFFICES ASSUME Init PROVE Full
  OBVIOUS
<1>1. Inv
  BY InitInv
<1>2. /\ mem = "live" /\ flags = {} /\ replies = << >> /\ invalid = << >>
      /\ obuf = << >> /\ rbuf = << >> /\ phase = "idle" /\ cb = 0 /\ wire = << >> /\ inbox = << >>
      /\ server = [topics |-> {}, monitor |-> FALSE, pushed |-> 0]
      /\ cmds = << >> /\ runs = << >> /\ seen = {}
  BY DEF Init
<1>3. SubOK(sub, cmds) /\ Callable(sub) = {}
  BY CreateSub DEF Init
<1>4. Shape
  <2>1. server \in Servers /\ IsFiniteSet(server.topics)
    BY <1>2, FS_EmptySet DEF Servers
  <2> QED BY <1>2, <1>3, <2>1 DEF Shape
<1>5. Len(Arrived) = 0 /\ Len(Unanswered) = 0
  BY <1>2 DEF Arrived, Unanswered
<1>6. Len(Stream) = 0 /\ Len(Counts) = 0
  BY <1>5 DEF Stream, Counts, StreamOf, CountsOf
<1>7. (\A i \in 1..Len(Stream) : FALSE) /\ (\A i \in 1..Len(Counts) : FALSE)
      /\ (\A i \in 1..Len(cmds) : FALSE) /\ (\A i \in 1..Len(Arrived) : FALSE)
      /\ (\A i \in 1..Len(Unanswered) : FALSE)
  BY <1>2, <1>5, <1>6
<1>8. Genuine
  BY <1>2, <1>7 DEF Genuine, Issued, Traced, Tagged, IdsDiffer, On, Monitoring
<1>9. Orderly(Stream, Counts, Callable(sub), server.topics, Left(cmds), On)
  BY <1>2, <1>3, <1>6, <1>7 DEF Orderly, Late, Known, NoArrays, Answered, Waiting, Held
<1>10. Matched(Stream, Counts, server.topics, replies, invalid)
  <2>1. Gets(Stream) = {}
    BY <1>7 DEF Gets
  <2>2. Len(replies) = 0 /\ Len(invalid) = 0 /\ server.topics = {}
    BY <1>2
  <2> QED BY <1>2, <1>6, <1>7, <2>1, <2>2, FS_EmptySet DEF Matched, NoMonitors
<1>11. Paired(Stream, replies, invalid)
  BY <1>2, <1>7 DEF Paired
<1>12. Owed(replies, invalid, cmds, runs)
  <2>1. \A x : ~Contains(replies, x) /\ ~Contains(invalid, x)
    BY <1>2 DEF Contains
  <2> QED BY <1>2, <1>7, <2>1 DEF Owed, NoTwice
<1>13. Queue
  BY <1>2, <1>7, <1>9, <1>10, <1>12 DEF Queue
<1>14. Live
  BY <1>2, <1>8, <1>11, <1>13 DEF Live, Monitoring
<1> QED BY <1>1, <1>2, <1>4, <1>14 DEF Full, ReplyReachesItsCallback, AssertionsHold

\* What a step adds to the events of the past is none of those that the
\* properties speak of.
Harmless ==
    /\ seen \subseteq seen'
    /\ \A e \in {"wrong", "dropped", "assert"} : e \in seen' => e \in seen

\* Every step keeps the lists, the dictionaries and the queue in order; only the
\* handling of a reply may lose one, only processAbort fails an assertion.
LEMMA NextSound ==
    ASSUME Sound, Inv, [Next]_vars
    PROVE  /\ Sound'
           /\ \/ Harmless
              \/ processReply
              \/ seen' = seen \cup {"assert"} /\ (Calm => "mixed" \in seen)
<1>1. CASE UNCHANGED vars
  <2>1. UNCHANGED <<context, cmds, inbox, wire, server>> /\ seen' = seen
    BY <1>1 DEF vars, peer
  <2> QED BY <2>1, StillSound DEF Harmless
<1>2. ASSUME NEW op, NEW topic, Asks(op, topic), redisAsyncCommand(op, topic)
      PROVE  Sound' /\ Harmless
  <2>1. Sound'
    BY <1>2, CommandSound
  <2>2. Harmless
    BY <1>2 DEF redisAsyncCommand, Oddities, Harmless
  <2> QED BY <2>1, <2>2
<1>3. CASE redisAsyncDisconnect
  <2>1. seen' = seen
    BY <1>3 DEF redisAsyncDisconnect, asyncDisconnect, Idle
  <2> QED BY <1>3, <2>1, DisconnectSound DEF Harmless
<1>4. CASE redisAsyncFree
  <2>1. mem = "live" /\ asyncFree /\ UNCHANGED <<cmds, inbox, wire, server>> /\ seen' = seen
    BY <1>4 DEF redisAsyncFree, peer
  <2> QED BY <2>1, FreeSound DEF Harmless
<1>5. CASE dispatch
  <2>1. UNCHANGED <<context, cmds, inbox, wire, server>> /\ seen' = seen
    BY <1>5 DEF dispatch, peer
  <2> QED BY <2>1, StillSound DEF Harmless
<1>6. CASE dispatchRest
  <2>1. UNCHANGED <<context, cmds, inbox, wire, server>> /\ Harmless
    BY <1>6 DEF dispatchRest, peer, Harmless
  <2> QED BY <2>1, StillSound DEF Harmless
<1>19. CASE pollError
  <2>1. UNCHANGED <<context, cmds, inbox, wire, server>> /\ Harmless
    BY <1>19 DEF pollError, peer, Harmless
  <2> QED BY <2>1, StillSound DEF Harmless
<1>7. CASE redisAsyncHandleRead
  <2>1. Harmless
    BY <1>7 DEF redisAsyncHandleRead, Failed, asyncDisconnect, Harmless
  <2> QED BY <1>7, <2>1, ReadSound
<1>8. CASE redisAsyncHandleWrite
  <2>1. Harmless
    BY <1>8 DEF redisAsyncHandleWrite, Failed, asyncDisconnect, Harmless
  <2> QED BY <1>8, <2>1, WriteSound
<1>9. CASE processEnd
  <2>1. seen' = seen
    BY <1>9 DEF processEnd, asyncDisconnect
  <2> QED BY <1>9, <2>1, EndSound DEF Harmless
<1>10. CASE processError
  <2>1. /\ mem = "live" /\ asyncFree /\ UNCHANGED <<cmds, inbox, wire, server>>
        /\ seen' = seen
    BY <1>10 DEF processError, Failed, asyncDisconnect, peer, Inv
  <2> QED BY <2>1, FreeSound DEF Harmless
<1>11. CASE processAbort
  <2>1. seen' = seen \cup {"assert"}
    BY <1>11 DEF processAbort
  <2> QED BY <1>11, <2>1, AbortSound
<1>12. CASE processReply
  BY <1>12, ReplySound
<1>13. CASE processFree
  <2>1. mem = "live" /\ asyncFree /\ UNCHANGED <<cmds, inbox, wire, server>> /\ seen' = seen
    BY <1>13 DEF processFree, peer, Inv
  <2> QED BY <2>1, FreeSound DEF Harmless
<1>14. CASE connected \/ broken
  <2>1. UNCHANGED <<context, cmds, inbox, wire, server>> /\ seen' = seen
    BY <1>14 DEF connected, broken
  <2> QED BY <2>1, StillSound DEF Harmless
<1>15. CASE execute
  <2>1. seen' = seen
    BY <1>15 DEF execute
  <2> QED BY <1>15, <2>1, ExecuteSound DEF Harmless
<1>16. CASE push
  <2>1. seen' = seen
    BY <1>16 DEF push
  <2> QED BY <1>16, <2>1, PushSound DEF Harmless
<1>17. CASE \E op \in Ops \cap {"get", "monitor"} : redisAsyncCommand(op, NoTopic)
  BY <1>2, <1>17, NextAsks
<1>18. CASE \E op \in Ops \cap {"subscribe", "unsubscribe"}, t \in Topics : redisAsyncCommand(op, t)
  BY <1>2, <1>18, NextAsks
<1> QED BY <1>1, <1>3, <1>4, <1>5, <1>6, <1>7, <1>8, <1>9, <1>10, <1>11, <1>12, <1>13, <1>14,
           <1>15, <1>16, <1>17, <1>18, <1>19 DEF Next, Handling

\* The inductive invariant of the commands and their callbacks.
LEMMA NextFull == Full /\ [Next]_vars => Full'
<1> SUFFICES ASSUME Full, [Next]_vars PROVE Full'
  OBVIOUS
<1>1. Sound /\ Inv /\ ReplyReachesItsCallback /\ AssertionsHold
  BY DEF Full, Sound
<1>2. Inv'
  BY <1>1, NextInv
<1>3. /\ Sound'
      /\ \/ Harmless
         \/ processReply
         \/ seen' = seen \cup {"assert"} /\ (Calm => "mixed" \in seen)
  BY <1>1, NextSound
<1>4. ReplyReachesItsCallback' /\ AssertionsHold'
  <2>1. CASE Harmless
    BY <1>1, <2>1 DEF Harmless, ReplyReachesItsCallback, AssertionsHold
  <2>2. CASE processReply
    <3>1. /\ seen' \subseteq seen \cup {"dropped", "wrong"} /\ seen \subseteq seen'
          /\ Calm /\ "mixed" \notin seen /\ "partial" \notin seen => seen' = seen
      BY <1>1, <2>2, ReplySound
    <3>2. AssertionsHold'
      BY <1>1, <3>1 DEF AssertionsHold
    <3>3. CASE Calm /\ "mixed" \notin seen /\ "partial" \notin seen
      BY <1>1, <3>1, <3>2, <3>3 DEF ReplyReachesItsCallback
    <3>4. CASE ~(Calm /\ "mixed" \notin seen /\ "partial" \notin seen)
      BY <3>1, <3>2, <3>4 DEF ReplyReachesItsCallback, Calm
    <3> QED BY <3>3, <3>4
  <2>3. CASE seen' = seen \cup {"assert"} /\ (Calm => "mixed" \in seen)
    BY <1>1, <2>3 DEF Calm, ReplyReachesItsCallback, AssertionsHold
  <2> QED BY <1>3, <2>1, <2>2, <2>3
<1> QED BY <1>2, <1>3, <1>4 DEF Full, Sound

\* Whatever the application asks for and the server and the network do, the
\* queue between the two is in order and callbacks and replies match.
THEOREM AsyncFullInductive == Spec => []Full
<1>1. Init => Full
  BY InitSound
<1>2. Full /\ [Next]_vars => Full'
  BY NextFull
<1> QED BY <1>1, <1>2, PTL DEF Spec

\* redisProcessCallbacks hands each reply to a callback it is meant for and
\* drops none, unless the application does one of the things listed.
THEOREM AsyncRepliesReach == Spec => []ReplyReachesItsCallback
<1>1. Full => ReplyReachesItsCallback
  BY DEF Full
<1> QED BY <1>1, AsyncFullInductive, PTL

\* The assertions of __redisAsyncDisconnect and redisProcessCallbacks hold
\* unless the application unsubscribes from a topic without a callback or twice,
\* subscribes before an unsubscribe was answered, sends ordinary commands while
\* subscribed, or shares the context with MONITOR.
THEOREM AsyncAssertionsHold == Spec => []AssertionsHold
<1>1. Full => AssertionsHold
  BY DEF Full
<1> QED BY <1>1, AsyncFullInductive, PTL

\* Both dictionaries of callbacks are well-formed, and __redisGetSubscribeCallback
\* finds one for every topic the server sends messages of.
THEOREM AsyncSubscriptionsFound == Spec => []SubscriptionsFound
<1>1. Full => SubscriptionsFound
  <2> SUFFICES ASSUME Full PROVE SubscriptionsFound
    OBVIOUS
  <2>1. \A p \in BOOLEAN : dictConsistent(sub[p])
    <3>1. \A p \in BOOLEAN : Good(sub[p])
      BY DEF Full, Shape, SubOK
    <3> QED BY <3>1, GoodIsConsistent
  <2>2. ASSUME mem = "live", NEW t \in server.topics
        PROVE  \/ dictHas(sub[t[1]], t[2])
               \/ \E i \in DOMAIN cmds : cmds[i] = Command("unsubscribe", t)
    <3>1. t \in Callable(sub) \/ t \in Left(cmds)
      BY <2>2 DEF Full, Live, Genuine
    <3>2. CASE t \in Callable(sub)
      BY <3>2 DEF Callable
    <3>3. CASE t \in Left(cmds)
      <4>1. PICK i \in 1..Len(cmds) : cmds[i].op = "unsubscribe" /\ cmds[i].topic = t
        BY <3>3 DEF Left
      <4>2. cmds[i] \in Commands /\ i \in DOMAIN cmds
        BY DEF Full, Shape
      <4>3. cmds[i] = Command("unsubscribe", t)
        BY <4>1, <4>2 DEF Commands, Command
      <4> QED BY <4>2, <4>3
    <3> QED BY <3>1, <3>2, <3>3
  <2> QED BY <2>1, <2>2 DEF SubscriptionsFound
<1> QED BY <1>1, AsyncFullInductive, PTL

\* The callback of an accepted command is called once, also by
\* __redisAsyncFree, and is on one of the lists until then.
THEOREM AsyncCalledOnce == Spec => []CalledOnce
<1>1. Full => CalledOnce
  <2> SUFFICES ASSUME Full, Calm, NEW id \in 1..Len(cmds), cmds[id].op = "get"
               PROVE  /\ runs[id] <= 1
                      /\ mem = "freed" => runs[id] = 1
                      /\ mem = "live" => (runs[id] = 0 <=> Contains(replies \o invalid, id))
    <3>1. DOMAIN cmds = 1..Len(cmds)
      BY DEF Full, Shape
    <3> QED BY <3>1 DEF CalledOnce, Calm
  <2>1. CASE mem # "live"
    BY <2>1 DEF Full, Over
  <2>2. CASE mem = "live"
    <3>1. Queue
      <4>1. Live
        BY <2>2 DEF Full
      <4>2. ~Monitoring
        <5>1. Monitoring => Len(cmds) = 1 /\ cmds[1].op = "monitor"
          BY <4>1 DEF Live, Alone
        <5>2. id = 1 => cmds[id].op # "monitor"
          OBVIOUS
        <5> QED BY <5>1, <5>2
      <4> QED BY <4>1, <4>2 DEF Live
    <3>2. runs[id] = IF Contains(replies, id) \/ Contains(invalid, id) THEN 0 ELSE 1
      BY <3>1 DEF Queue, Owed
    <3>3. Contains(replies \o invalid, id) <=> Contains(replies, id) \/ Contains(invalid, id)
      BY ConcatContains DEF Full, Shape
    <3> QED BY <2>2, <3>2, <3>3
  <2> QED BY <2>1, <2>2
<1> QED BY <1>1, AsyncFullInductive, PTL
===========================================================================
