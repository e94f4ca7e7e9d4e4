----------------------------- MODULE BlockQueue -----------------------------
(***************************************************************************)
(* block_queue.h: a ring buffer under one mutex, with one condition        *)
(* variable on which consumers wait while it is empty.  Producers never    *)
(* wait.  An action is a stretch of code under the mutex.                  *)
(***************************************************************************)
EXTENDS Integers, Sequences

CONSTANTS
    Consumers,  \* threads that pop
    Timed,      \* those that call pop with a timeout
    Items,      \* what is pushed
    NULL,       \* no item: the pop returned false
    m_max_size

ASSUME QueueConstants ==
    /\ Timed \subseteq Consumers
    /\ NULL \notin Items
    /\ m_max_size \in Nat \ {0}

VARIABLES
    m_array, m_size, m_front, m_back,
    pc,     \* per consumer: "idle", "waiting" or "woken"
    got     \* per consumer: the item of its last pop

ringVars == <<m_array, m_size, m_front, m_back>>
vars == <<ringVars, pc, got>>

Slots == 0..(m_max_size - 1)

Init ==
    /\ m_array \in [Slots -> Items]     \* new T[max_size], not initialised
    /\ m_size = 0 /\ m_front = -1 /\ m_back = -1
    /\ pc = [c \in Consumers |-> "idle"]
    /\ got = [c \in Consumers |-> NULL]

------------------------------------------------------------------------------
(* Small pieces of the code, preceded by faulty variants *)

\* The next position in the ring; m_front and m_back start at -1.
Advance(i) == (i + 1) % m_max_size

\* if (m_size >= m_max_size).
Full == m_size >= m_max_size

\* pthread_cond_broadcast.
FaultyBroadcast == \E w \in {c \in Consumers : pc[c] = "waiting"} \cup {NULL} :
    pc' = [c \in Consumers |-> IF c = w THEN "woken" ELSE pc[c]]
Broadcast ==
    pc' = [c \in Consumers |-> IF pc[c] = "waiting" THEN "woken" ELSE pc[c]]

\* Where pop reads: after it has advanced m_front.
FaultyTaken == m_array[IF m_front < 0 THEN 0 ELSE m_front]
Taken == m_array[Advance(m_front)]

\* What clear makes of m_back.
FaultyClearedBack == m_back
ClearedBack == -1

------------------------------------------------------------------------------
\* push returns false on a full queue, after a broadcast all the same.
push(x) ==
    /\ \/ /\ Full
          /\ UNCHANGED ringVars
       \/ /\ ~Full
          /\ m_back' = Advance(m_back)
          /\ m_array' = [m_array EXCEPT ![Advance(m_back)] = x]
          /\ m_size' = m_size + 1
          /\ UNCHANGED m_front
    /\ Broadcast
    /\ UNCHANGED got

\* The end of both pops.
Take(c) ==
    /\ m_size > 0
    /\ m_front' = Advance(m_front)
    /\ got' = [got EXCEPT ![c] = Taken]
    /\ m_size' = m_size - 1
    /\ pc' = [pc EXCEPT ![c] = "idle"]
    /\ UNCHANGED <<m_array, m_back>>

Sleep(c) ==
    /\ m_size = 0
    /\ pc' = [pc EXCEPT ![c] = "waiting"]
    /\ UNCHANGED <<ringVars, got>>

Fail(c) ==
    /\ got' = [got EXCEPT ![c] = NULL]
    /\ pc' = [pc EXCEPT ![c] = "idle"]
    /\ UNCHANGED ringVars

pop(c) == pc[c] = "idle" /\ (Take(c) \/ Sleep(c))

\* A consumer that was woken finds an item, or not: it waits again, or
\* returns false if it has a timeout.
Recheck(c) ==
    /\ pc[c] = "woken"
    /\ \/ Take(c)
       \/ c \notin Timed /\ Sleep(c)
       \/ c \in Timed /\ m_size = 0 /\ Fail(c)

\* pthread_cond_wait may return without a broadcast.
Spurious(c) ==
    /\ pc[c] = "waiting"
    /\ pc' = [pc EXCEPT ![c] = "woken"]
    /\ UNCHANGED <<ringVars, got>>

\* pthread_cond_timedwait times out, or did before a broadcast got to it: the
\* pop fails without another look at the queue.
Timeout(c) ==
    /\ pc[c] \in {"waiting", "woken"} /\ c \in Timed
    /\ Fail(c)

clear ==
    /\ m_size' = 0 /\ m_front' = -1 /\ m_back' = ClearedBack
    /\ UNCHANGED <<m_array, pc, got>>

Next ==
    \/ \E x \in Items : push(x)
    \/ \E c \in Consumers : pop(c) \/ Recheck(c) \/ Spurious(c) \/ Timeout(c)
    \/ clear

Spec == Init /\ [][Next]_vars

------------------------------------------------------------------------------
(* Properties *)

\* The indexes stay in the ring (or at -1 before the first use) and the size
\* within the capacity.
TypeOK ==
    /\ m_array \in [Slots -> Items]
    /\ m_size \in 0..m_max_size
    /\ m_front \in -1..(m_max_size - 1) /\ m_back \in -1..(m_max_size - 1)
    /\ pc \in [Consumers -> {"idle", "waiting", "woken"}]
    /\ got \in [Consumers -> Items \cup {NULL}]

\* m_back is m_size steps ahead of m_front, all around the ring and also when
\* clear put both back to -1: pop never reads a slot that push did not fill.
RingConsistent == Advance(m_back) = Advance(m_front + m_size)

\* No consumer sleeps while there is an item for it: every push wakes all of
\* them, and none goes to sleep on a queue that has an item.
NoSleeperWithItems ==
    m_size > 0 => \A c \in Consumers : pc[c] # "waiting"

\* The queue as a sequence, oldest item first.
Contents == [k \in 1..m_size |-> m_array[(m_front + k) % m_max_size]]

Fifo == INSTANCE FifoQueue WITH Capacity <- m_max_size, q <- Contents

\* push, both pops and clear are the operations of a bounded FIFO queue: each
\* item goes to one consumer, in the order in which the items were pushed.
RefinesFifo == Fifo!Spec
==============================================================================
