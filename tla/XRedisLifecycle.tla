--------------------------- MODULE XRedisLifecycle ---------------------------
(***************************************************************************)
(* The life of the multiplexed client (src/hiredis.c): application threads *)
(* that connect and free one connection each, the event-loop thread        *)
(* (startAeLoop), the reconnect thread (reconnectDis) and xStopClient, with *)
(* the mutexes they take and the condition variable xc->cond they share.   *)
(*                                                                         *)
(* An xRedisContext is named after the application thread that owns it;    *)
(* its asynchronous contexts are numbered in the order they are created.   *)
(* A step is a critical section, or the part of it up to the next lock.    *)
(* Freed memory that is touched, and a NULL list that is used, is recorded *)
(* in ub; what happens after that is not followed.                         *)
(***************************************************************************)
EXTENDS Naturals

CONSTANTS
    Apps,       \* application threads, and the xRedisContext of each
    MaxAc,      \* bound on the contexts created for one xRedisContext
    NULL

ASSUME AcAssumption == MaxAc \in Nat \ {0}
ASSUME AppAssumption == Apps \cap {"ael", "rcn", "client", "reconn"} = {}

VARIABLES
    pc,             \* where each thread is
    owner,          \* the thread that holds each mutex, or NULL
    aeloop,         \* client.aeloop: its memory and its stop flag
    xc,             \* the xRedisContext of each application thread
    ac,             \* the asynchronous contexts of each xRedisContext
    reconn_list,    \* client.reconn_list as a set, NULL once released
    free_ac_list,   \* client.free_ac_list as a set
    cur,            \* the context the event loop is working on, <<x, i>>
    todo,           \* what reconnectDis has still to visit in this round
    visited,        \* the xRedisContext it reconnects
    woken,          \* threads that were signalled and have not run since
    unheard,        \* history: owners whose wakeup from __redisAsyncFree went elsewhere
    causes,         \* events of the past that the properties refer to
    ub              \* undefined behaviour met so far

vars == <<pc, owner, aeloop, xc, ac, reconn_list, free_ac_list, cur, todo,
          visited, woken, unheard, causes, ub>>
round == <<todo, visited>>

Ael == "ael"    \* the thread of startAeLoop
Rcn == "rcn"    \* the thread of reconnectDis
Threads == Apps \cup {Ael, Rcn}

\* NULL is no thread and no list.
ASSUME NullAssumption ==
    NULL \notin Threads /\ \A list \in SUBSET Apps : NULL # list

\* xc->mutex is named after its xRedisContext.
Locks == Apps \cup {"client", "reconn"}

RAW == MaxAc + 1    \* xc->ctx is a redisContext that is not yet asynchronous

Init ==
    /\ pc = [t \in Threads |-> IF t \in Apps THEN "idle" ELSE "off"]
    /\ owner = [l \in Locks |-> NULL]
    /\ aeloop = [mem |-> "none", stop |-> FALSE]
    /\ xc = [x \in Apps |-> [mem |-> "none", status |-> "zero", ctx |-> 0, last |-> 0]]
    /\ ac = [x \in Apps |-> [i \in 1..MaxAc |-> [st |-> "none", freed |-> FALSE]]]
    /\ reconn_list = {} /\ free_ac_list = {}
    /\ cur = NULL /\ todo = {} /\ visited = NULL /\ woken = {} /\ unheard = {}
    /\ causes = {} /\ ub = {}

-----------------------------------------------------------------------------
(* Locks, the condition variable, memory *)

Goto(t, label) == pc' = [pc EXCEPT ![t] = label]

Free(l) == owner[l] = NULL
Lock(l, t) == Free(l) /\ owner' = [owner EXCEPT ![l] = t]
Unlock(l) == owner' = [owner EXCEPT ![l] = NULL]

\* The xRedisContext a thread waits for.
WaitsOn(t) == IF t = Rcn THEN visited ELSE t

Asleep(x) ==
    {t \in Threads : /\ pc[t] \in {"wait", "freeWait"} /\ t \notin woken
                     /\ WaitsOn(t) = x}

\* pthread_cond_signal: one of the sleepers is woken, if there is one.
Signal(x) ==
    \/ Asleep(x) = {} /\ UNCHANGED woken
    \/ \E t \in Asleep(x) : woken' = woken \cup {t}

Alive(x) == xc[x].mem = "live"
AcLive(x, i) == ac[x][i].st # "dead"
LoopLive == aeloop.mem = "live"

\* xc->ctx points to something that is not, or no longer, a redisAsyncContext.
CtxGone(x) ==
    xc[x].ctx = RAW \/ (xc[x].ctx # 0 /\ ~AcLive(x, xc[x].ctx))

Undefined(what) ==
    /\ ub' = ub \cup {what}
    /\ UNCHANGED <<pc, owner, aeloop, xc, ac, reconn_list, free_ac_list, cur,
                   round, woken, unheard, causes>>

AcSet(x, i, st) == ac' = [ac EXCEPT ![x][i].st = st]

-----------------------------------------------------------------------------
(* Connecting: __xRedisConnectNonBlockTimeOut and its variants *)

\* __initMpClient: the first call creates the loop, its lists and both threads.
\* Then xRedisContextInit, redisContextInit and redisAsyncInitialize make what
\* only this thread knows, and attachAsync locks xc->mutex.
connectBegin(a) ==
    /\ pc[a] = "idle" /\ Free("client") /\ Lock(a, a)
    /\ IF aeloop.mem = "none"
         THEN /\ aeloop' = [mem |-> "live", stop |-> FALSE]
              /\ pc' = [pc EXCEPT ![a] = "register", ![Ael] = "start", ![Rcn] = "check"]
         ELSE Goto(a, "register") /\ UNCHANGED aeloop
    /\ xc' = [xc EXCEPT ![a] = [mem |-> "live", status |-> "zero", ctx |-> 1, last |-> 1]]
    /\ AcSet(a, 1, "new")
    /\ UNCHANGED <<reconn_list, free_ac_list, cur, round, woken, unheard, causes, ub>>

\* A pthread_create fails: clearClient deletes the loop, releases the lists and
\* then locks client.mutex, which its caller holds. When it is the second one,
\* startAeLoop already runs on the deleted loop.
connectFails(a) ==
    /\ pc[a] = "idle" /\ aeloop.mem = "none" /\ Lock("client", a)
    /\ aeloop' = [mem |-> "freed", stop |-> TRUE]
    /\ reconn_list' = NULL
    /\ \E second \in BOOLEAN :
         pc' = [pc EXCEPT ![a] = "clear2", ![Ael] = IF second THEN "start" ELSE "off"]
    /\ causes' = causes \cup {"threads"}
    /\ UNCHANGED <<xc, ac, free_ac_list, cur, round, woken, unheard, ub>>

\* __initAttachContext under client.mutex, then pthread_cond_timedwait, which
\* gives xc->mutex back. The thread is an application's or the reconnect thread.
register(t) ==
    /\ pc[t] = "register" /\ Free("client")
    /\ LET x == WaitsOn(t) IN
         IF ~LoopLive
           THEN Undefined("loop")
           ELSE /\ AcSet(x, xc[x].last, "connecting")
                /\ Unlock(x) /\ Goto(t, "wait")
                /\ UNCHANGED <<aeloop, xc, reconn_list, free_ac_list, cur, round,
                               woken, unheard, causes, ub>>

\* The status decides whether the attempt succeeded, whoever ended the wait.
Attached(x) == xc[x].status = "connected"

\* attachAsync after the wait, woken or timed out, and its caller: without a
\* connection the xRedisContext is freed, its context stays in the loop.
attachEnd(a) ==
    /\ pc[a] = "wait" /\ Free(a)
    /\ IF ~AcLive(a, 1)
         THEN Undefined("ac")
         ELSE /\ woken' = woken \ {a}
              /\ IF Attached(a)
                   THEN Goto(a, "up") /\ UNCHANGED <<xc, causes>>
                   ELSE /\ Goto(a, "done")
                        /\ xc' = [xc EXCEPT ![a].mem = "freed"]
                        /\ causes' = causes \cup {"attach"}
              /\ UNCHANGED <<owner, aeloop, ac, reconn_list, free_ac_list, cur, round, unheard, ub>>

-----------------------------------------------------------------------------
(* xRedisFree and xStopClient *)

\* Connected, and the reconnect thread is through with it.
Settled(a) ==
    xc[a].status = "connected" /\ (reconn_list # NULL => a \notin reconn_list)

\* Under client.mutex the context is marked and handed to the event loop.
free1(a) ==
    /\ pc[a] = "up" /\ Free("client")
    /\ LET i == xc[a].ctx IN
         IF CtxGone(a)
           THEN /\ ub' = ub \cup {"ctx"}
                /\ causes' = causes \cup {"down"}
                /\ UNCHANGED <<pc, free_ac_list, ac>>
           ELSE /\ IF i = 0
                     THEN UNCHANGED <<free_ac_list, ac>>
                     ELSE /\ ac' = [ac EXCEPT ![a][i].freed = TRUE]
                          /\ free_ac_list' = free_ac_list \cup {<<a, i>>}
                /\ Goto(a, IF i = 0 THEN "freeNow" ELSE "free2")
                /\ causes' = causes
                     \cup (IF Settled(a) THEN {} ELSE {"down"})
                     \cup (IF cur = <<a, i>> THEN {"loss"} ELSE {})
                /\ UNCHANGED ub
    /\ UNCHANGED <<owner, aeloop, xc, reconn_list, cur, round, woken, unheard>>

\* The end of xRedisFree.
freeXredisContext(a) ==
    /\ xc' = [xc EXCEPT ![a].mem = "freed"]
    /\ Goto(a, "done")

\* Without a context there is nothing to wait for. Faulty: the wait for the
\* event loop is left out.
FaultyNeedWait(a) == freeXredisContext(a)
NeedWait(a) ==
    IF pc[a] = "freeNow"
      THEN freeXredisContext(a)
      ELSE Goto(a, "freeLock") /\ UNCHANGED xc

\* Under reconn_mutex the connection leaves reconn_list.
free2(a) ==
    /\ pc[a] \in {"free2", "freeNow"} /\ Free("reconn")
    /\ IF reconn_list = NULL
         THEN Undefined("lists")
         ELSE /\ reconn_list' = reconn_list \ {a}
              /\ NeedWait(a)
              /\ UNCHANGED <<owner, aeloop, ac, free_ac_list, cur, round, woken, unheard, causes, ub>>

\* pthread_mutex_lock and pthread_cond_wait, which gives xc->mutex back. There
\* is no test whether the event loop has already signalled.
freeSleep(a) ==
    /\ pc[a] = "freeLock" /\ Free(a)
    /\ Goto(a, "freeWait")
    /\ UNCHANGED <<owner, aeloop, xc, ac, reconn_list, free_ac_list, cur, round, woken, unheard,
                   causes, ub>>

freeWake(a) ==
    /\ pc[a] = "freeWait" /\ a \in woken /\ Free(a)
    /\ woken' = woken \ {a}
    /\ freeXredisContext(a)
    /\ UNCHANGED <<owner, aeloop, ac, reconn_list, free_ac_list, cur, round, unheard, causes, ub>>

xStopClient ==
    /\ Free("client") /\ LoopLive /\ ~aeloop.stop
    /\ aeloop' = [aeloop EXCEPT !.stop = TRUE]
    /\ causes' = causes \cup {"stop"}
    /\ UNCHANGED <<pc, owner, xc, ac, reconn_list, free_ac_list, cur, round, woken, unheard, ub>>

-----------------------------------------------------------------------------
(* The event-loop thread: startAeLoop, beforeSleepDeal, socket events *)

LoopAt(label) == pc[Ael] = label

\* aeMain clears the stop flag and starts its first iteration.
mainStart ==
    /\ LoopAt("start")
    /\ IF LoopLive
         THEN /\ aeloop' = [aeloop EXCEPT !.stop = FALSE]
              /\ Goto(Ael, "deal")
              /\ UNCHANGED <<owner, xc, ac, reconn_list, free_ac_list, cur, round, woken, unheard,
                             causes, ub>>
         ELSE Undefined("loop")

\* freeAsyncContextDeal holds client.mutex until the list is empty.
dealLock ==
    /\ LoopAt("deal") /\ Free("client")
    /\ IF free_ac_list = {}
         THEN Goto(Ael, "poll") /\ UNCHANGED owner
         ELSE Goto(Ael, "dealNext") /\ Lock("client", Ael)
    /\ UNCHANGED <<aeloop, xc, ac, reconn_list, free_ac_list, cur, round, woken, unheard, causes, ub>>

dealNext ==
    /\ LoopAt("dealNext")
    /\ \E f \in free_ac_list :
         IF ~AcLive(f[1], f[2])
           THEN Undefined("ac")
           ELSE /\ cur' = f
                /\ free_ac_list' = free_ac_list \ {f}
                /\ Goto(Ael, "dealFree")
                /\ UNCHANGED <<owner, aeloop, xc, ac, reconn_list, round, woken, unheard,
                               causes, ub>>

\* Faulty: the mutex is kept when the list is empty.
FaultyDealUnlock == UNCHANGED owner
DealUnlock == Unlock("client")

dealEnd ==
    /\ LoopAt("dealNext") /\ free_ac_list = {}
    /\ DealUnlock /\ Goto(Ael, "poll")
    /\ UNCHANGED <<aeloop, xc, ac, reconn_list, free_ac_list, cur, round, woken, unheard, causes, ub>>

\* The end of __redisAsyncFree: a context marked by xRedisFree signals its
\* owner under xc->mutex before it is freed. The owner may not wait yet, and the
\* reconnect thread may wait on the same xc->cond. Faulty: there is no signal.
FaultySignalOwner(x) == UNCHANGED <<woken, unheard>>
SignalOwner(x) ==
    /\ Free(x) /\ Signal(x)
    /\ unheard' = IF x \in woken' THEN unheard ELSE unheard \cup {x}

FreedContext(x, i) == ac[x][i].freed

asyncFree ==
    /\ pc[Ael] \in {"dealFree", "acFree"}
    /\ LET x == cur[1]
           i == cur[2] IN
         IF FreedContext(x, i) /\ ~Alive(x)
           THEN Undefined("xc")
           ELSE /\ IF FreedContext(x, i)
                     THEN SignalOwner(x) ELSE UNCHANGED <<woken, unheard>>
                /\ AcSet(x, i, "dead")
                /\ cur' = NULL
                /\ Goto(Ael, IF LoopAt("dealFree") THEN "dealNext" ELSE "poll")
                /\ UNCHANGED <<owner, aeloop, xc, reconn_list, free_ac_list, round, causes, ub>>

\* The iteration ends; aeMain looks at the stop flag.
pollEnd ==
    /\ LoopAt("poll")
    /\ Goto(Ael, IF aeloop.stop THEN "clear" ELSE "deal")
    /\ UNCHANGED <<owner, aeloop, xc, ac, reconn_list, free_ac_list, cur, round, woken, unheard,
                   causes, ub>>

\* The socket of a connecting context is ready: __redisAsyncHandleConnect.
connectEvent ==
    /\ LoopAt("poll")
    /\ \E x \in Apps, ok \in BOOLEAN : \E i \in 1..MaxAc :
         /\ ac[x][i].st = "connecting"
         /\ cur' = <<x, i>>
         /\ Goto(Ael, IF ok THEN "connOK" ELSE "connErr")
         /\ causes' = IF ok THEN causes ELSE causes \cup {"attach"}
    /\ UNCHANGED <<owner, aeloop, xc, ac, reconn_list, free_ac_list, round, woken, unheard, ub>>

\* connectedCallback: the status is raised and one waiter is woken; after an
\* error the context is freed outside the lock.
connectedCallback ==
    /\ pc[Ael] \in {"connOK", "connErr"}
    /\ LET x == cur[1]
           i == cur[2]
           ok == LoopAt("connOK") IN
         IF ~Alive(x)
           THEN Undefined("xc")
           ELSE /\ Free(x) /\ Signal(x)
                /\ xc' = IF ok THEN [xc EXCEPT ![x].status = "connected"] ELSE xc
                /\ AcSet(x, i, IF ok THEN "connected" ELSE "connecting")
                /\ cur' = IF ok THEN NULL ELSE cur
                /\ Goto(Ael, IF ok THEN "poll" ELSE "acFree")
                /\ UNCHANGED <<owner, aeloop, reconn_list, free_ac_list, round, unheard,
                               causes, ub>>

\* A thread still waits for the result of its attempt.
Attaching(x) == \E t \in Apps \cup {Rcn} : pc[t] = "wait" /\ WaitsOn(t) = x

\* A connected context breaks: __redisAsyncDisconnect with an error.
lossEvent ==
    /\ LoopAt("poll")
    /\ \E x \in Apps : \E i \in 1..MaxAc :
         /\ ac[x][i].st = "connected"
         /\ cur' = <<x, i>>
         /\ causes' = causes \cup (IF ac[x][i].freed \/ Attaching(x) THEN {"loss"} ELSE {})
    /\ Goto(Ael, "disc1")
    /\ UNCHANGED <<owner, aeloop, xc, ac, reconn_list, free_ac_list, round, woken, unheard, ub>>

\* disconnectedCallback takes its three mutexes one after the other.
discStatus ==
    /\ LoopAt("disc1")
    /\ LET x == cur[1] IN
         IF ~Alive(x)
           THEN Undefined("xc")
           ELSE /\ Free(x)
                /\ xc' = [xc EXCEPT ![x].status = "disconnecting"]
                /\ Goto(Ael, "disc2")
                /\ UNCHANGED <<owner, aeloop, ac, reconn_list, free_ac_list, cur, round,
                               woken, unheard, causes, ub>>

discCheck ==
    /\ LoopAt("disc2") /\ Free("client")
    /\ Goto(Ael, IF FreedContext(cur[1], cur[2]) THEN "acFree" ELSE "disc3")
    /\ UNCHANGED <<owner, aeloop, xc, ac, reconn_list, free_ac_list, cur, round, woken, unheard,
                   causes, ub>>

discSchedule ==
    /\ LoopAt("disc3") /\ Free("reconn")
    /\ reconn_list' = reconn_list \cup {cur[1]}
    /\ Goto(Ael, "acFree")
    /\ UNCHANGED <<owner, aeloop, xc, ac, free_ac_list, cur, round, woken, unheard, causes, ub>>

\* After aeMain: startAeLoop locks client.mutex, clearClient deletes the loop.
clearLoop ==
    /\ LoopAt("clear") /\ Lock("client", Ael)
    /\ aeloop' = [aeloop EXCEPT !.mem = "freed"]
    /\ Goto(Ael, "clear1")
    /\ UNCHANGED <<xc, ac, reconn_list, free_ac_list, cur, round, woken, unheard, causes, ub>>

\* clearClient frees the connections that wait for the reconnect thread and
\* then locks client.mutex, which startAeLoop holds: it stays at "clear2".
clearReconnList ==
    /\ LoopAt("clear1") /\ Free("reconn")
    /\ IF \E x \in reconn_list : ~Alive(x) \/ CtxGone(x)
         THEN Undefined("ac")
         ELSE /\ ac' = [x \in Apps |-> [i \in 1..MaxAc |->
                          IF x \in reconn_list /\ i = xc[x].ctx
                            THEN [ac[x][i] EXCEPT !.st = "dead"] ELSE ac[x][i]]]
              /\ xc' = [x \in Apps |-> IF x \in reconn_list
                          THEN [xc[x] EXCEPT !.mem = "freed", !.ctx = 0] ELSE xc[x]]
              /\ reconn_list' = NULL
              /\ Goto(Ael, "clear2")
              /\ UNCHANGED <<owner, aeloop, free_ac_list, cur, round, woken, unheard, causes, ub>>

-----------------------------------------------------------------------------
(* The reconnect thread: reconnectDis *)

RcnAt(label) == pc[Rcn] = label

reconnectCheck ==
    /\ RcnAt("check")
    /\ IF LoopLive
         THEN /\ Goto(Rcn, IF aeloop.stop THEN "end" ELSE "lock")
              /\ UNCHANGED <<owner, aeloop, xc, ac, reconn_list, free_ac_list, cur, round,
                             woken, unheard, causes, ub>>
         ELSE Undefined("loop")

reconnectRound ==
    /\ RcnAt("lock")
    /\ IF reconn_list = NULL
         THEN Free("reconn") /\ Undefined("lists")
         ELSE /\ Lock("reconn", Rcn)
              /\ todo' = reconn_list
              /\ Goto(Rcn, "visit")
              /\ UNCHANGED <<aeloop, xc, ac, reconn_list, free_ac_list, cur, visited,
                             woken, unheard, causes, ub>>

reconnectRoundEnd ==
    /\ RcnAt("visit") /\ todo = {}
    /\ Unlock("reconn") /\ Goto(Rcn, "check")
    /\ UNCHANGED <<aeloop, xc, ac, reconn_list, free_ac_list, cur, round, woken, unheard, causes, ub>>

\* A connection whose remain_wait_reconn is not yet 0 is passed over.
reconnectSkip ==
    /\ RcnAt("visit")
    /\ \E x \in todo :
         IF Alive(x)
           THEN /\ todo' = todo \ {x}
                /\ UNCHANGED <<pc, owner, aeloop, xc, ac, reconn_list, free_ac_list, cur,
                               visited, woken, unheard, causes, ub>>
           ELSE Undefined("xc")

\* __xRedisReconnectConnectNonBlock: xc->ctx is first a plain redisContext.
reconnectBegin ==
    /\ RcnAt("visit")
    /\ \E x \in todo :
         /\ Alive(x) /\ xc[x].last < MaxAc
         /\ Lock(x, Rcn)
         /\ xc' = [xc EXCEPT ![x].ctx = RAW]
         /\ todo' = todo \ {x} /\ visited' = x
    /\ Goto(Rcn, "raw")
    /\ UNCHANGED <<aeloop, ac, reconn_list, free_ac_list, cur, woken, unheard, causes, ub>>

reconnectInitialize ==
    /\ RcnAt("raw")
    /\ LET x == visited
           i == xc[x].last + 1 IN
         /\ xc' = [xc EXCEPT ![x] = [@ EXCEPT !.ctx = i, !.last = i]]
         /\ AcSet(x, i, "new")
    /\ Goto(Rcn, "register")
    /\ UNCHANGED <<owner, aeloop, reconn_list, free_ac_list, cur, round, woken, unheard,
                   causes, ub>>

\* attachAsyncNoLock after its wait, and the verdict of reconnectDis.
reconnectEnd ==
    /\ RcnAt("wait")
    /\ LET x == visited IN
         /\ Free(x)
         /\ IF ~AcLive(x, xc[x].last)
              THEN Undefined("ac")
              ELSE /\ woken' = woken \ {Rcn}
                   /\ visited' = NULL
                   /\ Goto(Rcn, "visit")
                   /\ IF Attached(x)
                        THEN /\ reconn_list' = reconn_list \ {x}
                             /\ UNCHANGED <<xc, causes>>
                        ELSE /\ xc' = [xc EXCEPT ![x].ctx = 0]
                             /\ causes' = causes \cup {"attach"}
                             /\ UNCHANGED reconn_list
                   /\ UNCHANGED <<owner, aeloop, ac, free_ac_list, cur, todo, unheard, ub>>

-----------------------------------------------------------------------------
Connecting(a) == connectBegin(a) \/ attachEnd(a)
Freeing(a) == free2(a) \/ freeSleep(a) \/ freeWake(a)

LoopStep ==
    \/ mainStart \/ dealLock \/ dealNext \/ dealEnd \/ asyncFree \/ pollEnd
    \/ connectedCallback \/ discStatus \/ discCheck \/ discSchedule
    \/ clearLoop \/ clearReconnList

ReconnectStep ==
    \/ reconnectCheck \/ reconnectRound \/ reconnectRoundEnd \/ reconnectSkip
    \/ reconnectBegin \/ reconnectInitialize \/ reconnectEnd

Next ==
    /\ ub = {}
    /\ \/ \E a \in Apps : Connecting(a) \/ connectFails(a) \/ free1(a) \/ Freeing(a)
       \/ \E t \in Apps \cup {Rcn} : register(t)
       \/ xStopClient
       \/ LoopStep \/ connectEvent \/ lossEvent
       \/ ReconnectStep

Spec == Init /\ [][Next]_vars

\* Every thread gets on. Mutexes are held for a moment only, the loop polls for
\* a millisecond and the reconnect thread sleeps between its rounds, so that a
\* thread that waits for a mutex gets it; a round visits every node.
FairSpec ==
    /\ Spec
    /\ \A a \in Apps : SF_vars(ub = {} /\ Freeing(a)) /\ SF_vars(ub = {} /\ register(a))
    /\ SF_vars(ub = {} /\ LoopStep)
    /\ SF_vars(ub = {} /\ ReconnectStep) /\ SF_vars(ub = {} /\ register(Rcn))

-----------------------------------------------------------------------------
(* Properties *)

\* The mutex a thread is about to take; NULL when it needs none.
Wants(t) ==
    LET at == pc[t] IN
      IF t = Ael
        THEN CASE at \in {"deal", "clear", "clear2", "disc2"} -> "client"
               [] at \in {"clear1", "disc3"} -> "reconn"
               [] at \in {"dealFree", "connOK", "connErr", "disc1", "acFree"} -> cur[1]
               [] OTHER -> NULL
        ELSE CASE at \in {"register", "clear2"} -> "client"
               [] at \in {"free2", "freeNow", "lock"} -> "reconn"
               [] at \in {"freeLock", "wait"} -> WaitsOn(t)
               [] OTHER -> NULL

Cycle(S) == \A t \in S : Wants(t) # NULL /\ owner[Wants(t)] \in S
Deadlocked == \E S \in (SUBSET Threads) \ {{}} : Cycle(S)

\* Who holds which mutex follows from where the threads are.
Holds(l, t) ==
    LET at == pc[t] IN
      \/ l = "client" /\ at \in {"dealNext", "dealFree", "clear1", "clear2"}
      \/ l = "reconn" /\ t = Rcn /\ at \in {"visit", "raw", "register", "wait"}
      \/ l = t /\ at = "register"
      \/ t = Rcn /\ at \in {"raw", "register"} /\ l = visited

LocksHeld == \A l \in Locks, t \in Threads : owner[l] = t <=> Holds(l, t)

\* Threads block each other for ever only in three ways. clearClient locks the
\* client.mutex its caller holds, after a stop or when a thread could not be
\* created. Or the reconnect thread, with reconn_mutex and xc->mutex, is about
\* to attach and needs the client.mutex of the event loop, which waits for one
\* of the two: for reconn_mutex in clearClient after a stop, or for xc->mutex in
\* freeAsyncContextDeal when xRedisFree was called on a connection that is down,
\* or when an attempt given up earlier has connected late and broken since.
DeadlockOrigin ==
    \A S \in (SUBSET Threads) \ {{}} :
      Cycle(S) =>
        \/ \E t \in S : pc[t] = "clear2" /\ causes \cap {"stop", "threads"} # {}
        \/ /\ {Ael, Rcn} \subseteq S /\ RcnAt("register")
           /\ \/ LoopAt("clear1") /\ "stop" \in causes
              \/ LoopAt("dealFree") /\ causes \cap {"down", "attach"} # {}

\* Freed memory is used only after an event this client does not survive: a
\* connection freed while it is down or lost while it is being freed, an
\* attempt to connect that failed or timed out, a stop, a failed thread.
UndefinedOrigin ==
    /\ "ctx" \in ub => "down" \in causes
    /\ ub \cap {"xc", "ac"} # {} => causes \cap {"down", "loss", "attach", "stop"} # {}
    /\ ub \cap {"loop", "lists"} # {} => causes \cap {"stop", "threads"} # {}

\* xRedisFree returns, unless the client is past saving or the signal meant for
\* it was sent and did not reach it: the event loop was done with the context
\* before xRedisFree waited, which tests nothing before it waits, or the one
\* signal woke the reconnect thread.
FreeReturns ==
    \A a \in Apps :
      pc[a] \in {"free2", "freeNow"}
        ~> pc[a] = "done" \/ a \in unheard \/ Deadlocked \/ ub # {}
=============================================================================
