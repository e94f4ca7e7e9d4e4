-------------------------- MODULE BlockQueueProofs --------------------------
(***************************************************************************)
(* The ring buffer of block_queue.h is a bounded FIFO queue for every      *)
(* capacity, every set of items and every set of consumers.                *)
(***************************************************************************)
EXTENDS BlockQueue, SequenceTheorems, TLAPS

------------------------------------------------------------------------------
(* Positions in a ring of n slots, up to two turns ahead *)

\* The remainder, by cases.
LEMMA ModCases ==
    ASSUME NEW n \in Nat \ {0}, NEW x \in 0..(2 * n)
    PROVE  x % n = IF x < n THEN x ELSE IF x < 2 * n THEN x - n ELSE 0
<1>1. CASE x < n
  BY <1>1
<1>2. CASE x >= n /\ x < 2 * n
  BY <1>2
<1>3. CASE x = n + n
  BY <1>3
<1> QED BY <1>1, <1>2, <1>3

\* It is a slot.
LEMMA ModRange ==
    ASSUME NEW n \in Nat \ {0}, NEW x \in 0..(2 * n)
    PROVE  x % n \in 0..(n - 1)
  BY ModCases

\* Reducing before going on makes no difference.
LEMMA ModStep ==
    ASSUME NEW n \in Nat \ {0}, NEW x \in 0..(2 * n), NEW s \in 0..n,
           x + s \in 0..(2 * n)
    PROVE  ((x % n) + s) % n = (x + s) % n
<1> DEFINE r == x % n
           y == x + s
           z == r + s
<1>1. /\ r = IF x < n THEN x ELSE IF x < 2 * n THEN x - n ELSE 0
      /\ y \in 0..(2 * n)
  BY ModCases
<1>2. r \in 0..(n - 1) /\ z \in 0..(2 * n)
  BY <1>1
<1>3. \/ r = x /\ z = y
      \/ x >= n /\ x < 2 * n /\ z = y - n
      \/ x = 2 * n /\ z = 0 /\ y = 2 * n
  BY <1>1
<1> HIDE DEF r, y, z
<1>4. /\ y % n = IF y < n THEN y ELSE IF y < 2 * n THEN y - n ELSE 0
      /\ z % n = IF z < n THEN z ELSE IF z < 2 * n THEN z - n ELSE 0
  BY <1>1, <1>2, ModCases
<1>5. z % n = y % n
  BY <1>1, <1>2, <1>3, <1>4
<1> QED BY <1>5 DEF r, y, z

\* Positions less than a turn apart are different slots.
LEMMA ModDistinct ==
    ASSUME NEW n \in Nat \ {0}, NEW x \in 0..(2 * n), NEW y \in 0..(2 * n),
           x < y, y - x < n
    PROVE  x % n # y % n
  BY ModCases

------------------------------------------------------------------------------
(* The invariant *)

\* What the indexes, the size and the sleepers have to do with each other.
QueueInv == TypeOK /\ RingConsistent /\ NoSleeperWithItems

\* push keeps the invariant.
LEMMA PushInv ==
    ASSUME QueueInv, NEW x \in Items, push(x)
    PROVE  QueueInv'
<1>1. CASE Full /\ UNCHANGED ringVars
  BY <1>1 DEF QueueInv, TypeOK, RingConsistent, NoSleeperWithItems, push,
     Broadcast, Advance, ringVars, Slots
<1>2. CASE ~Full
  <2> DEFINE e == m_front + m_size + 1
  <2>1. /\ e \in 0..(2 * m_max_size) /\ e + 1 \in 0..(2 * m_max_size)
        /\ m_size + 1 <= m_max_size /\ m_max_size \in Nat \ {0}
        /\ 1 \in 0..m_max_size
    BY <1>2, QueueConstants DEF QueueInv, TypeOK, Full
  <2>2. /\ m_back' = e % m_max_size
        /\ m_size' = m_size + 1 /\ m_front' = m_front
        /\ m_array' = [m_array EXCEPT ![Advance(m_back)] = x]
    BY <1>2 DEF QueueInv, RingConsistent, push, Advance
  <2>3. m_front' + m_size' + 1 = e + 1
    BY <2>2 DEF QueueInv, TypeOK
  <2> HIDE DEF e
  <2>4. m_back' \in 0..(m_max_size - 1)
    BY <2>1, <2>2, ModRange
  <2>5. RingConsistent'
    <3>1. ((e % m_max_size) + 1) % m_max_size = (e + 1) % m_max_size
      BY <2>1, ModStep
    <3> QED BY <2>2, <2>3, <3>1 DEF RingConsistent, Advance
  <2>6. TypeOK'
    <3>1. m_array' \in [Slots -> Items]
      BY <2>2 DEF QueueInv, TypeOK
    <3>2. m_size' \in 0..m_max_size /\ m_front' \in -1..(m_max_size - 1)
      BY <2>1, <2>2 DEF QueueInv, TypeOK
    <3>3. /\ pc' \in [Consumers -> {"idle", "waiting", "woken"}]
          /\ got' \in [Consumers -> Items \cup {NULL}]
      BY DEF QueueInv, TypeOK, push, Broadcast
    <3> QED BY <2>1, <2>4, <3>1, <3>2, <3>3 DEF TypeOK, Slots
  <2>7. NoSleeperWithItems'
    BY DEF NoSleeperWithItems, push, Broadcast
  <2> QED BY <2>5, <2>6, <2>7 DEF QueueInv
<1> QED BY <1>1, <1>2 DEF push

\* The common end of the two pops keeps the invariant.
LEMMA TakeInv ==
    ASSUME QueueInv, NEW c \in Consumers, Take(c)
    PROVE  QueueInv'
<1>1. /\ m_front + 1 \in 0..(2 * m_max_size) /\ m_size \in 0..m_max_size
      /\ m_front + 1 + m_size \in 0..(2 * m_max_size)
      /\ m_max_size \in Nat \ {0}
  BY QueueConstants DEF QueueInv, TypeOK
<1>2. /\ m_front' = (m_front + 1) % m_max_size /\ m_size' = m_size - 1
      /\ m_back' = m_back /\ m_array' = m_array
  BY DEF Take, Advance
<1>3. m_front' \in 0..(m_max_size - 1) /\ m_front' \in Slots
  BY <1>1, <1>2, ModRange DEF Slots
<1>4. RingConsistent'
  <2>1. (m_front' + m_size) % m_max_size = (m_front + 1 + m_size) % m_max_size
    BY <1>1, <1>2, ModStep
  <2>2. /\ m_front' + m_size' + 1 = m_front' + m_size
        /\ m_front + m_size + 1 = m_front + 1 + m_size
    BY <1>1, <1>2, <1>3 DEF QueueInv, TypeOK
  <2> QED BY <1>2, <2>1, <2>2 DEF QueueInv, RingConsistent, Advance
<1>5. TypeOK'
  BY <1>1, <1>2, <1>3 DEF QueueInv, TypeOK, Take, Taken, Advance
<1>6. NoSleeperWithItems'
  BY DEF QueueInv, TypeOK, NoSleeperWithItems, Take
<1> QED BY <1>4, <1>5, <1>6 DEF QueueInv

\* So does every step.
LEMMA StepInv == QueueInv /\ [Next]_vars => QueueInv'
<1> SUFFICES ASSUME QueueInv, [Next]_vars PROVE QueueInv'
  OBVIOUS
<1>1. ASSUME NEW x \in Items, push(x) PROVE QueueInv'
  BY <1>1, PushInv
<1>2. ASSUME NEW c \in Consumers, Take(c) PROVE QueueInv'
  BY <1>2, TakeInv
<1>3. ASSUME NEW c \in Consumers, Sleep(c) \/ Fail(c) \/ Spurious(c)
      PROVE  QueueInv'
  BY <1>3 DEF QueueInv, TypeOK, RingConsistent, NoSleeperWithItems, Sleep,
     Fail, Spurious, Advance, ringVars
<1>4. CASE clear
  BY <1>4, QueueConstants DEF QueueInv, TypeOK, RingConsistent,
     NoSleeperWithItems, clear, ClearedBack, Advance
<1>5. CASE UNCHANGED vars
  BY <1>5 DEF QueueInv, TypeOK, RingConsistent, NoSleeperWithItems, Advance,
     vars, ringVars
<1> QED BY <1>1, <1>2, <1>3, <1>4, <1>5 DEF Next, pop, Recheck, Timeout

\* m_back stays m_size steps ahead of m_front, indexes and size stay in range,
\* and no consumer sleeps in pthread_cond_wait while there is an item.
THEOREM QueueInvariant ==
    Spec => [](TypeOK /\ RingConsistent /\ NoSleeperWithItems)
<1>1. Init => QueueInv
  BY QueueConstants DEF Init, QueueInv, TypeOK, RingConsistent,
     NoSleeperWithItems, Advance, Slots
<1>2. QueueInv => TypeOK /\ RingConsistent /\ NoSleeperWithItems
  BY DEF QueueInv
<1> QED BY <1>1, <1>2, StepInv, PTL DEF Spec

\* No lost wakeup: a consumer that sleeps in pop's pthread_cond_wait with nothing
\* to wake it faces an empty queue, whatever push, pop, clear, timeouts and
\* spurious wakeups came before.
THEOREM QueueNoLostWakeup == Spec => []NoSleeperWithItems
  BY QueueInvariant, PTL

------------------------------------------------------------------------------
(* The refinement *)

\* push adds its item at the end of the queue, or leaves a full queue alone.
LEMMA PushFifo ==
    ASSUME QueueInv, NEW x \in Items, push(x)
    PROVE  \/ Len(Contents) < m_max_size /\ Contents' = Append(Contents, x)
           \/ Contents' = Contents
<1>1. CASE UNCHANGED ringVars
  BY <1>1 DEF Contents, ringVars
<1>2. CASE ~Full /\ push(x)
  <2> DEFINE e == m_front + m_size + 1
  <2>1. /\ m_size \in Nat /\ m_size < m_max_size /\ m_front \in Int
        /\ m_max_size \in Nat \ {0} /\ e \in 0..(2 * m_max_size)
        /\ m_array \in [Slots -> Items]
    BY <1>2, QueueConstants DEF QueueInv, TypeOK, Full
  <2>2. CASE /\ m_size' = m_size + 1 /\ m_front' = m_front
             /\ m_array' = [m_array EXCEPT ![e % m_max_size] = x]
    <3>1. ASSUME NEW k \in 1..m_size
          PROVE  /\ (m_front + k) % m_max_size # e % m_max_size
                 /\ (m_front + k) % m_max_size \in Slots
      <4>1. /\ m_front + k \in 0..(2 * m_max_size)
            /\ m_front + k < e /\ e - (m_front + k) < m_max_size
        BY <2>1, <3>1 DEF QueueInv, TypeOK
      <4> HIDE DEF e
      <4> QED BY <2>1, <4>1, ModDistinct, ModRange DEF Slots
    <3>2. e % m_max_size \in Slots
      <4> HIDE DEF e
      <4> QED BY <2>1, ModRange DEF Slots
    <3>3. Contents' = [k \in 1..(m_size + 1) |->
                          IF k = m_size + 1 THEN x ELSE Contents[k]]
      <4>1. ASSUME NEW k \in 1..(m_size + 1)
            PROVE  m_array'[(m_front' + k) % m_max_size] =
                      IF k = m_size + 1 THEN x ELSE Contents[k]
        <5>1. CASE k = m_size + 1
          <6>1. m_front' + k = e BY <2>1, <2>2, <5>1
          <6> QED BY <2>1, <2>2, <3>2, <5>1, <6>1
        <5>2. CASE k \in 1..m_size
          <6>1. m_array'[(m_front + k) % m_max_size]
                    = m_array[(m_front + k) % m_max_size]
            BY <2>1, <2>2, <3>1, <5>2
          <6> QED BY <2>1, <2>2, <5>2, <6>1 DEF Contents
        <5> QED BY <2>1, <5>1, <5>2
      <4> QED BY <2>2, <4>1 DEF Contents
    <3>4. /\ Len(Contents) = m_size
          /\ Append(Contents, x) = [k \in 1..(m_size + 1) |->
                          IF k = m_size + 1 THEN x ELSE Contents[k]]
      BY <2>1 DEF Contents
    <3> QED BY <2>1, <3>3, <3>4
  <2> QED BY <1>2, <2>2 DEF QueueInv, RingConsistent, push, Advance, Full
<1> QED BY <1>1, <1>2 DEF push

\* A pop that succeeds returns the oldest item and removes it.
LEMMA TakeFifo ==
    ASSUME QueueInv, NEW c \in Consumers, Take(c)
    PROVE  /\ Contents # <<>> /\ Taken = Head(Contents)
           /\ Contents' = Tail(Contents)
<1>1. /\ m_size \in Nat \ {0} /\ m_size <= m_max_size
      /\ m_front \in -1..(m_max_size - 1) /\ m_max_size \in Nat \ {0}
  BY QueueConstants DEF QueueInv, TypeOK, Take
<1>2. /\ m_front' = (m_front + 1) % m_max_size /\ m_size' = m_size - 1
      /\ m_array' = m_array
  BY DEF Take, Advance
<1>3. /\ Len(Contents) = m_size /\ Contents # <<>>
      /\ Head(Contents) = Contents[1]
      /\ Tail(Contents) = [k \in 1..(m_size - 1) |-> Contents[k + 1]]
  <2>1. ASSUME NEW k \in 1..m_size
        PROVE  m_array[(m_front + k) % m_max_size] \in Items
    <3>1. m_front + k \in 0..(2 * m_max_size)
      BY <1>1, <2>1
    <3>2. (m_front + k) % m_max_size \in Slots
      BY <1>1, <3>1, ModRange DEF Slots
    <3> QED BY <3>2 DEF QueueInv, TypeOK
  <2>2. Contents \in [1..m_size -> Items]
    BY <2>1 DEF Contents
  <2>3. Contents \in Seq(Items) /\ Len(Contents) = m_size
    BY <1>1, <2>2
  <2>4. Contents # <<>>
    BY <1>1, <2>3
  <2>5. /\ Head(Contents) = Contents[1]
        /\ Tail(Contents) \in Seq(Items) /\ Len(Tail(Contents)) = m_size - 1
        /\ \A k \in 1..(m_size - 1) : Tail(Contents)[k] = Contents[k + 1]
    BY <1>1, <2>3, <2>4, HeadTailProperties
  <2>6. Tail(Contents) = [k \in 1..(m_size - 1) |-> Contents[k + 1]]
    <3>1. Tail(Contents) \in [1..(m_size - 1) -> Items]
      BY <2>5, LenProperties
    <3> QED BY <2>5, <3>1
  <2> QED BY <2>3, <2>4, <2>5, <2>6
<1>4. Contents[1] = Taken
  BY <1>1 DEF Contents, Taken, Advance
<1>5. Contents' = [k \in 1..(m_size - 1) |-> Contents[k + 1]]
  <2>1. ASSUME NEW k \in 1..(m_size - 1)
        PROVE  (m_front' + k) % m_max_size = (m_front + (k + 1)) % m_max_size
    <3> DEFINE x == m_front + 1
    <3>1. /\ x \in 0..(2 * m_max_size) /\ k \in 0..m_max_size
          /\ x + k \in 0..(2 * m_max_size) /\ m_front + (k + 1) = x + k
      BY <1>1, <2>1
    <3> HIDE DEF x
    <3>2. ((x % m_max_size) + k) % m_max_size = (x + k) % m_max_size
      BY <1>1, <3>1, ModStep
    <3> QED BY <1>2, <3>1, <3>2 DEF x
  <2>2. ASSUME NEW k \in 1..(m_size - 1)
        PROVE  Contents[k + 1] = m_array[(m_front + (k + 1)) % m_max_size]
    BY <1>1, <2>2 DEF Contents
  <2> QED BY <1>2, <2>1, <2>2 DEF Contents
<1> QED BY <1>3, <1>4, <1>5

\* Every step of the ring buffer and its consumers is a step of the FIFO queue
\* or changes nothing that it can see.
LEMMA StepFifo ==
    QueueInv /\ [Next]_vars => [Fifo!Next]_<<Contents, got>>
<1> SUFFICES ASSUME QueueInv, [Next]_vars
             PROVE  [Fifo!Next]_<<Contents, got>>
  OBVIOUS
<1>1. ASSUME NEW x \in Items, push(x) PROVE [Fifo!Next]_<<Contents, got>>
  <2>1. got' = got
    BY <1>1 DEF push
  <2> QED BY <1>1, <2>1, PushFifo DEF Fifo!Next, Fifo!Enter
<1>2. ASSUME NEW c \in Consumers, Take(c) PROVE [Fifo!Next]_<<Contents, got>>
  <2>1. got' = [got EXCEPT ![c] = Taken]
    BY <1>2 DEF Take
  <2> QED BY <1>2, <2>1, TakeFifo DEF Fifo!Next, Fifo!Leave
<1>3. ASSUME NEW c \in Consumers, Fail(c) PROVE [Fifo!Next]_<<Contents, got>>
  BY <1>3 DEF Fail, ringVars, Contents, Fifo!Next, Fifo!GiveUp
<1>4. ASSUME NEW c \in Consumers, Sleep(c) \/ Spurious(c)
      PROVE  [Fifo!Next]_<<Contents, got>>
  BY <1>4 DEF Sleep, Spurious, ringVars, Contents
<1>5. CASE clear
  BY <1>5 DEF clear, Contents, Fifo!Next, Fifo!Discard
<1>6. CASE UNCHANGED vars
  BY <1>6 DEF vars, ringVars, Contents
<1> QED BY <1>1, <1>2, <1>3, <1>4, <1>5, <1>6 DEF Next, pop, Recheck, Timeout

\* block_queue implements a bounded FIFO queue: push appends or fails, each
\* pop returns the oldest item to one consumer or fails, clear empties.
THEOREM QueueImplementsFifo == Spec => RefinesFifo
<1>1. Init => QueueInv /\ Fifo!Init
  <2>1. ASSUME Init PROVE QueueInv
    BY <2>1, QueueConstants DEF Init, QueueInv, TypeOK, RingConsistent,
       NoSleeperWithItems, Advance, Slots
  <2>2. ASSUME Init PROVE Fifo!Init
    BY <2>2 DEF Init, Fifo!Init, Contents
  <2> QED BY <2>1, <2>2
<1> QED BY <1>1, StepInv, StepFifo, PTL DEF Spec, RefinesFifo, Fifo!Spec
==============================================================================
