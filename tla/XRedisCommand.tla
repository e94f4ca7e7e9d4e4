---------------------------- MODULE XRedisCommand ----------------------------
(***************************************************************************)
(* One multiplexed connection (xRedisContext) as its callers see it.       *)
(*                                                                         *)
(* Threads inside __xRedisCommand put a cmdInfo on the cmd_list of the     *)
(* current redisAsyncContext and write a byte to a pipe.  The event-loop   *)
(* thread wakes in taskDeal, moves cmdInfos to the output buffer and the   *)
(* replies list, exchanges bytes with the server and hands every reply to  *)
(* replyCallback, which posts the caller's semaphore.  When the link fails *)
(* the loop runs the pending callbacks with NULL, empties cmd_list in      *)
(* disconnectedCallback and queues the connection for the reconnect        *)
(* thread.                                                                 *)
(*                                                                         *)
(* The cmdInfo is shared by caller and loop and freed by whoever drops the *)
(* last of its two references.  A step of the model is a stretch of code   *)
(* between two accesses that another thread can interleave with; a         *)
(* stretch under xc->mutex is one step for a caller.  A step on memory     *)
(* that was already freed records its kind in ub and ends the execution,   *)
(* because the program's behaviour is undefined from there.                *)
(*                                                                         *)
(* An attempt to reconnect that was given up stays in the event loop       *)
(* ("orphan") and may connect after all: "late" records that one did.  The *)
(* queues modelled are those of the context created last; the bound        *)
(* OneQueue keeps it from being replaced while it has something in them,   *)
(* which can happen after a late connect only.                             *)
(***************************************************************************)
EXTENDS Integers, FiniteSets, Sequences, SequencesExt

CONSTANTS
    Callers,    \* threads, each making one call; also names its cmdInfo
    Refused,    \* callers whose command __redisAsyncCommand rejects
    NULL,       \* the NULL pointer
    PipeCap,    \* bytes the notification pipe holds
    ReadMax,    \* bytes taskDeal reads from it at once (1024 in the code)
    MaxConn     \* bound: contexts created, the first one included

ASSUME ConstantsOK ==
    /\ NULL \notin Callers
    /\ Refused \subseteq Callers
    /\ PipeCap \in Nat \ {0}
    /\ ReadMax \in Nat \ {0}
    /\ MaxConn \in Nat \ {0}

ASSUME FiniteCallers == IsFiniteSet(Callers)

VARIABLES
    \* __xRedisCommand, per caller
    pc,         \* where the caller is
    myac,       \* its local variable ac, as the number of the context
    got,        \* its local variable reply
    \* cmdInfo, per caller
    ref,        \* ci->reference
    reply,      \* ci->reply
    sem,        \* ci->reply_sem
    life,       \* "none", "live" or "freed"
    \* the event-loop thread
    lpc,        \* where the loop is
    cur,        \* the cmdInfo in its hands
    curReply,   \* the reply in its hands
    budget,     \* get_num of taskDeal
    \* the current redisAsyncContext
    cmd_list, replies, obuf, rbuf,
    writing,    \* a write event is registered for the socket
    \* the socket and the server
    net, tx, rx,
    executed,   \* the commands in the order in which the server executed them
    \* xRedisContext and the reconnect thread
    status, ctx,
    link,       \* per context: "none", "connecting", "connected", ...
    gen,        \* the context created last
    pipe,       \* bytes in task_fd
    inReconn,   \* whether the connection is on client.reconn_list
    rpc,        \* the reconnect thread: "idle", or "waiting" in an attempt
    \* history
    expired,    \* callers whose sem_timedwait returned without a post
    fast,       \* callers that saw the reply before waiting for it
    late,       \* an attempt to reconnect connected after it was given up
    ub          \* why the execution is followed no further, or "none"

callVars == <<pc, myac, got>>
infoVars == <<ref, reply, sem, life>>
loopVars == <<lpc, cur, curReply, budget>>
listVars == <<cmd_list, replies>>
bufVars == <<obuf, rbuf, writing>>
netVars == <<net, tx, rx, executed>>
xcVars == <<status, ctx, link, gen, pipe, inReconn, rpc>>
histVars == <<expired, fast, late, ub>>
vars == <<callVars, infoVars, loopVars, listVars, bufVars, netVars, xcVars,
          histVars>>

CallerPCs == {"idle", "enqueue", "notify", "peek", "wait", "take", "drop",
              "search", "unlink", "status", "done"}
LoopPCs == {"poll", "taskLock", "taskPop", "taskSubmit", "process", "cbDec",
            "cbStore", "cbPost", "freeReplies", "discPop", "discDec",
            "reconnAdd", "freeAc"}
UbKinds == {"ci_store", "sem_post", "cmd", "ac_late", "list", "ci_free",
            "ac_attach", "ctx", "ci_use", "assert"}
Conns == 1..MaxConn

Defined == ub = "none"

\* xc->mutex is held across several steps only by the event loop.
MutexFree == lpc \notin {"taskPop", "taskSubmit", "discPop", "discDec"}

\* The context a caller or the loop points to is still allocated.
Allocated(g) == link[g] # "freed"

\* The cmdInfo of c is still allocated.
Alive(c) == life[c] = "live"

------------------------------------------------------------------------------
(* Small pieces of the code, each preceded by the faulty variants that the  *)
(* properties are tested against                                            *)

\* ci->reference as __xRedisCommand initialises it.
InitialRef == 1

\* Whether dropping one of n references drops the last.
FaultyLastRefEarly(n) == n - 1 <= 1
FaultyLastRefNever(n) == n - 1 < 0
LastRef(n) == n - 1 <= 0

\* The one-byte write to the non-blocking notification pipe.
FaultyPipeWritten == pipe
PipeWritten == IF pipe < PipeCap THEN pipe + 1 ELSE pipe

\* sem_timedwait returns because of sem_post, or for another reason.
FaultyPosted(c) == TRUE
Posted(c) == sem[c] > 0
FaultyTimesOut(c) == FALSE
TimesOut(c) == sem[c] = 0

\* if (--get_num <= 0) break.
FaultyRoundOver(n) == n - 1 <= 1
RoundOver(n) == n - 1 <= 0

\* __redisPushCallback.
FaultyPushCallback(list, c) == <<c>> \o list
PushCallback(list, c) == Append(list, c)

\* What redisBufferWrite leaves in obuf after k commands were written, and
\* whether the write event stays registered.
FaultyUnsent(k) == SubSeq(obuf, k, Len(obuf))
Unsent(k) == SubSeq(obuf, k + 1, Len(obuf))
MoreToWrite(k) == k < Len(obuf)

\* What replyCallback stores in ci->reply.
Stored == curReply

\* What disconnectedCallback makes of xc->status.
FaultyLostStatus == status
LostStatus == "DISCONNECTING"

\* attachAsyncNoLock after its wait.
FaultyAttemptOK == TRUE
AttemptOK == status = "CONNECTED"

------------------------------------------------------------------------------
\* The connection as xRedisConnect leaves it on success.
Init ==
    /\ pc = [c \in Callers |-> "idle"]
    /\ myac = [c \in Callers |-> 0]
    /\ got = [c \in Callers |-> NULL]
    /\ ref = [c \in Callers |-> 0]
    /\ reply = [c \in Callers |-> NULL]
    /\ sem = [c \in Callers |-> 0]
    /\ life = [c \in Callers |-> "none"]
    /\ lpc = "poll" /\ cur = NULL /\ curReply = NULL /\ budget = 0
    /\ cmd_list = <<>> /\ replies = <<>>
    /\ obuf = <<>> /\ rbuf = <<>> /\ writing = FALSE
    /\ net = "up" /\ tx = <<>> /\ rx = <<>> /\ executed = <<>>
    /\ status = "CONNECTED" /\ ctx = 1 /\ gen = 1
    /\ link = [g \in Conns |-> IF g = 1 THEN "connected" ELSE "none"]
    /\ pipe = 0 /\ inReconn = FALSE /\ rpc = "idle"
    /\ expired = {} /\ fast = {} /\ late = FALSE /\ ub = "none"

------------------------------------------------------------------------------
(* The caller: __xRedisCommand *)

\* The checks before the allocation, and the allocation.
Begin(c) ==
    /\ Defined /\ pc[c] = "idle"
    /\ \/ /\ status # "CONNECTED"
          /\ pc' = [pc EXCEPT ![c] = "done"]
          /\ UNCHANGED infoVars
       \/ /\ status = "CONNECTED"
          /\ pc' = [pc EXCEPT ![c] = "enqueue"]
          /\ life' = [life EXCEPT ![c] = "live"]
          /\ ref' = [ref EXCEPT ![c] = InitialRef]
          /\ UNCHANGED <<reply, sem>>
    /\ UNCHANGED <<myac, got, loopVars, listVars, bufVars, netVars, xcVars,
                   histVars>>

\* The critical section: the second check fails, or the cmdInfo is queued
\* with a second reference for the event loop.  xc->ctx may be a context that
\* was freed.
Enqueue(c) ==
    /\ Defined /\ pc[c] = "enqueue" /\ MutexFree
    /\ \/ /\ ctx = 0 \/ status # "CONNECTED"
          /\ life' = [life EXCEPT ![c] = "freed"]
          /\ pc' = [pc EXCEPT ![c] = "done"]
          /\ UNCHANGED <<myac, ref, cmd_list, ub>>
       \/ /\ ctx # 0 /\ status = "CONNECTED" /\ ~Allocated(ctx)
          /\ ub' = "ctx"
          /\ UNCHANGED <<pc, myac, ref, life, cmd_list>>
       \/ /\ ctx # 0 /\ status = "CONNECTED" /\ Allocated(ctx)
          /\ myac' = [myac EXCEPT ![c] = ctx]
          /\ ref' = [ref EXCEPT ![c] = @ + 1]
          /\ cmd_list' = Append(cmd_list, c)
          /\ pc' = [pc EXCEPT ![c] = "notify"]
          /\ UNCHANGED <<life, ub>>
    /\ UNCHANGED <<got, reply, sem, loopVars, replies, bufVars, netVars,
                   xcVars, expired, fast, late>>

\* write(xc->task_fd[1], client.pe, 1) on a non-blocking pipe.
Notify(c) ==
    /\ Defined /\ pc[c] = "notify"
    /\ pc' = [pc EXCEPT ![c] = "peek"]
    /\ pipe' = PipeWritten
    /\ UNCHANGED <<myac, got, infoVars, loopVars, listVars, bufVars, netVars,
                   status, ctx, link, gen, inReconn, rpc, histVars>>

\* if (ci->reply == NULL), read without synchronisation.
Peek(c) ==
    /\ Defined /\ pc[c] = "peek" /\ Alive(c)
    /\ \/ /\ reply[c] = NULL
          /\ pc' = [pc EXCEPT ![c] = "wait"]
          /\ UNCHANGED fast
       \/ /\ reply[c] # NULL
          /\ pc' = [pc EXCEPT ![c] = "take"]
          /\ fast' = fast \cup {c}
    /\ UNCHANGED <<myac, got, infoVars, loopVars, listVars, bufVars, netVars,
                   xcVars, expired, late, ub>>

\* sem_timedwait succeeds ...
Wait(c) ==
    /\ Defined /\ pc[c] = "wait" /\ Posted(c) /\ Alive(c)
    /\ sem' = [sem EXCEPT ![c] = @ - 1]
    /\ pc' = [pc EXCEPT ![c] = "take"]
    /\ UNCHANGED <<myac, got, ref, reply, life, loopVars, listVars, bufVars,
                   netVars, xcVars, histVars>>

\* ... or times out, or is interrupted; its result is not looked at.
Expire(c) ==
    /\ Defined /\ pc[c] = "wait" /\ TimesOut(c) /\ Alive(c)
    /\ pc' = [pc EXCEPT ![c] = "take"]
    /\ expired' = expired \cup {c}
    /\ UNCHANGED <<myac, got, infoVars, loopVars, listVars, bufVars, netVars,
                   xcVars, fast, late, ub>>

\* reply = ci->reply.
Take(c) ==
    /\ Defined /\ pc[c] = "take" /\ Alive(c)
    /\ got' = [got EXCEPT ![c] = reply[c]]
    /\ pc' = [pc EXCEPT ![c] = "drop"]
    /\ UNCHANGED <<myac, infoVars, loopVars, listVars, bufVars, netVars,
                   xcVars, histVars>>

\* Drops the caller's reference; the last one frees the cmdInfo.
Drop(c) ==
    /\ Defined /\ pc[c] = "drop" /\ Alive(c)
    /\ ref' = [ref EXCEPT ![c] = @ - 1]
    /\ \/ /\ LastRef(ref[c])
          /\ life' = [life EXCEPT ![c] = "freed"]
          /\ pc' = [pc EXCEPT ![c] = "done"]
       \/ /\ ~LastRef(ref[c])
          /\ pc' = [pc EXCEPT ![c] = "search"]
          /\ UNCHANGED life
    /\ UNCHANGED <<myac, got, reply, sem, loopVars, listVars, bufVars,
                   netVars, xcVars, histVars>>

\* Each of these steps accesses the cmdInfo, which __redisAsyncFree may have
\* freed outright.
UseFreed(c) ==
    /\ Defined /\ pc[c] \in {"peek", "wait", "take", "drop"} /\ ~Alive(c)
    /\ ub' = "ci_use"
    /\ UNCHANGED <<callVars, infoVars, loopVars, listVars, bufVars, netVars,
                   xcVars, expired, fast, late>>

\* The loop has not dropped its reference: look for the cmdInfo in the list
\* of the context read in Enqueue, without the mutex.
Search(c) ==
    /\ Defined /\ pc[c] = "search"
    /\ \/ /\ ~Allocated(myac[c])
          /\ ub' = "ac_late"
          /\ UNCHANGED pc
       \/ /\ Allocated(myac[c])
          /\ pc' = [pc EXCEPT ![c] = IF Contains(cmd_list, c)
                                     THEN "unlink" ELSE "status"]
          /\ UNCHANGED ub
    /\ UNCHANGED <<myac, got, infoVars, loopVars, listVars, bufVars, netVars,
                   xcVars, expired, fast, late>>

\* listDelNode of the node found, which may have been freed meanwhile.
Unlink(c) ==
    /\ Defined /\ pc[c] = "unlink"
    /\ \/ /\ ~Contains(cmd_list, c)
          /\ ub' = "list"
          /\ UNCHANGED <<pc, cmd_list>>
       \/ /\ \E i \in 1..Len(cmd_list) :
                cmd_list[i] = c /\ cmd_list' = RemoveAt(cmd_list, i)
          /\ pc' = [pc EXCEPT ![c] = "status"]
          /\ UNCHANGED ub
    /\ UNCHANGED <<myac, got, infoVars, loopVars, replies, bufVars, netVars,
                   xcVars, expired, fast, late>>

\* The unlocked accesses of Search and Unlink race with another thread that
\* changes the list at the same time.
ListRace(c) ==
    /\ Defined /\ pc[c] \in {"search", "unlink"}
    /\ myac[c] = ctx /\ status = "CONNECTED"
    /\ \/ lpc \in {"taskPop", "discPop"} /\ cmd_list # <<>>
       \/ MutexFree /\ \E d \in Callers \ {c} : pc[d] = "enqueue"
       \/ \E d \in Callers \ {c} : pc[d] = "unlink" /\ myac[d] = myac[c]
    /\ ub' = "list"
    /\ UNCHANGED <<callVars, infoVars, loopVars, listVars, bufVars, netVars,
                   xcVars, expired, fast, late>>

\* A connection that is down frees the cmdInfo here, unless it is gone.
\* Returning frees the command's text as well (xRedisvCommand).
CheckStatus(c) ==
    /\ Defined /\ pc[c] = "status"
    /\ \/ /\ status # "CONNECTED" /\ life[c] = "freed"
          /\ ub' = "ci_free"
          /\ UNCHANGED <<pc, life>>
       \/ /\ status # "CONNECTED" => life[c] = "live"
          /\ life' = [life EXCEPT ![c] = IF status # "CONNECTED"
                                         THEN "freed" ELSE @]
          /\ pc' = [pc EXCEPT ![c] = "done"]
          /\ UNCHANGED ub
    /\ UNCHANGED <<myac, got, ref, reply, sem, loopVars, listVars, bufVars,
                   netVars, xcVars, expired, fast, late>>

------------------------------------------------------------------------------
(* The event loop: taskDeal *)

\* The pipe is readable: read the notifications, before taking the mutex.
TaskRead ==
    /\ Defined /\ lpc = "poll" /\ pipe > 0
    /\ budget' = IF pipe < ReadMax THEN pipe ELSE ReadMax
    /\ pipe' = pipe - budget'
    /\ lpc' = "taskLock"
    /\ UNCHANGED <<callVars, infoVars, cur, curReply, listVars, bufVars,
                   netVars, status, ctx, link, gen, inReconn, rpc, histVars>>

\* xc->ctx is looked at only by its cmd_list: it may be NULL or freed.
TaskLock ==
    /\ Defined /\ lpc = "taskLock"
    /\ \/ /\ status # "CONNECTED"
          /\ lpc' = "poll"
          /\ budget' = 0
          /\ UNCHANGED ub
       \/ /\ status = "CONNECTED"
          /\ ctx # 0 => ~Allocated(ctx)
          /\ ub' = "ctx"
          /\ UNCHANGED <<lpc, budget>>
       \/ /\ status = "CONNECTED" /\ ctx # 0 /\ Allocated(ctx)
          /\ lpc' = "taskPop"
          /\ UNCHANGED <<budget, ub>>
    /\ UNCHANGED <<callVars, infoVars, cur, curReply, listVars, bufVars,
                   netVars, xcVars, expired, fast, late>>

\* while (listLength(ac->cmd_list) > 0): take the first cmdInfo.
TaskPop ==
    /\ Defined /\ lpc = "taskPop"
    /\ \/ /\ cmd_list = <<>>
          /\ lpc' = "poll"
          /\ budget' = 0
          /\ UNCHANGED <<cur, cmd_list>>
       \/ /\ cmd_list # <<>>
          /\ cur' = Head(cmd_list)
          /\ cmd_list' = Tail(cmd_list)
          /\ lpc' = "taskSubmit"
          /\ UNCHANGED budget
    /\ UNCHANGED <<callVars, infoVars, curReply, replies, bufVars, netVars,
                   xcVars, histVars>>

\* redisAsyncCommandHelper: a command it refuses is neither sent nor given a
\* callback, and its error is not looked at.  The caller owns the text of the
\* command and frees it when it returns.
TaskSubmit ==
    /\ Defined /\ lpc = "taskSubmit"
    /\ \/ /\ pc[cur] = "done"
          /\ ub' = "cmd"
          /\ UNCHANGED <<lpc, cur, budget, replies, obuf, writing>>
       \/ /\ pc[cur] # "done"
          /\ IF cur \in Refused
             THEN UNCHANGED <<replies, obuf, writing>>
             ELSE /\ replies' = PushCallback(replies, cur)
                  /\ obuf' = Append(obuf, cur)
                  /\ writing' = TRUE
          /\ budget' = budget - 1
          /\ lpc' = IF RoundOver(budget) THEN "poll" ELSE "taskPop"
          /\ cur' = NULL
          /\ UNCHANGED ub
    /\ UNCHANGED <<callVars, infoVars, curReply, cmd_list, rbuf, netVars,
                   xcVars, expired, fast, late>>

------------------------------------------------------------------------------
(* The event loop: socket events *)

\* The context created last is connected: the one the queues belong to.
Connected(g) == link[g] = "connected" /\ g = gen

\* __redisAsyncDisconnect: from here the loop is inside __redisAsyncFree.
Close(g) ==
    /\ link' = [link EXCEPT ![g] = "closing"]
    /\ lpc' = "freeReplies"

\* redisAsyncHandleWrite: the kernel takes some of the output; on a dead
\* socket it is lost, or the write fails.
HandleWrite(g) ==
    /\ Defined /\ lpc = "poll" /\ Connected(g) /\ writing
    /\ \/ \E k \in 1..Len(obuf) :
             /\ obuf' = Unsent(k)
             /\ writing' = MoreToWrite(k)
             /\ tx' = IF net = "up" THEN tx \o SubSeq(obuf, 1, k) ELSE tx
             /\ UNCHANGED <<lpc, link>>
       \/ /\ net = "down"
          /\ Close(g)
          /\ UNCHANGED <<obuf, writing, tx>>
    /\ UNCHANGED <<callVars, infoVars, cur, curReply, budget, listVars, rbuf,
                   net, rx, executed, status, ctx, gen, pipe, inReconn, rpc,
                   histVars>>

\* redisAsyncHandleRead: some replies are read, or the end of the stream.
HandleRead(g) ==
    /\ Defined /\ lpc = "poll" /\ Connected(g)
    /\ \/ \E k \in 1..Len(rx) :
             /\ rbuf' = rbuf \o SubSeq(rx, 1, k)
             /\ rx' = SubSeq(rx, k + 1, Len(rx))
             /\ lpc' = "process"
             /\ UNCHANGED link
       \/ /\ rx = <<>> /\ net = "down"
          /\ Close(g)
          /\ UNCHANGED <<rbuf, rx>>
    /\ UNCHANGED <<callVars, infoVars, cur, curReply, budget, listVars, obuf,
                   writing, net, tx, executed, status, ctx, gen, pipe,
                   inReconn, rpc, histVars>>

\* redisProcessCallbacks: one complete reply goes to the oldest callback.  A
\* reply nobody waits for trips the assertion on a plain context.
Process ==
    /\ Defined /\ lpc = "process"
    /\ \/ /\ rbuf = <<>>
          /\ lpc' = "poll"
          /\ curReply' = NULL
          /\ UNCHANGED <<cur, replies, rbuf, ub>>
       \/ /\ rbuf # <<>> /\ replies = <<>>
          /\ ub' = "assert"
          /\ UNCHANGED <<lpc, cur, curReply, replies, rbuf>>
       \/ /\ rbuf # <<>> /\ replies # <<>>
          /\ cur' = Head(replies)
          /\ replies' = Tail(replies)
          /\ curReply' = Head(rbuf)
          /\ rbuf' = Tail(rbuf)
          /\ lpc' = "cbDec"
          /\ UNCHANGED ub
    /\ UNCHANGED <<callVars, infoVars, budget, cmd_list, obuf, writing,
                   netVars, xcVars, expired, fast, late>>

\* Where redisProcessCallbacks or __redisAsyncFree goes on after a callback.
AfterCallback == IF curReply = NULL THEN "freeReplies" ELSE "process"

\* replyCallback: drop the loop's reference; the last one frees the cmdInfo.
CbDec ==
    /\ Defined /\ lpc = "cbDec"
    /\ \/ /\ ~Alive(cur)
          /\ ub' = "ci_use"
          /\ UNCHANGED <<ref, life, lpc, cur>>
       \/ /\ Alive(cur)
          /\ ref' = [ref EXCEPT ![cur] = @ - 1]
          /\ \/ /\ LastRef(ref[cur])
                /\ life' = [life EXCEPT ![cur] = "freed"]
                /\ lpc' = AfterCallback
                /\ cur' = NULL
             \/ /\ ~LastRef(ref[cur])
                /\ lpc' = "cbStore"
                /\ UNCHANGED <<life, cur>>
          /\ UNCHANGED ub
    /\ UNCHANGED <<callVars, reply, sem, curReply, budget, listVars, bufVars,
                   netVars, xcVars, expired, fast, late>>

\* ci->reply = reply.
CbStore ==
    /\ Defined /\ lpc = "cbStore"
    /\ \/ /\ life[cur] = "freed"
          /\ ub' = "ci_store"
          /\ UNCHANGED <<reply, lpc>>
       \/ /\ life[cur] = "live"
          /\ reply' = [reply EXCEPT ![cur] = Stored]
          /\ lpc' = "cbPost"
          /\ UNCHANGED ub
    /\ UNCHANGED <<callVars, ref, sem, life, cur, curReply, budget, listVars,
                   bufVars, netVars, xcVars, expired, fast, late>>

\* sem_post(&ci->reply_sem).
CbPost ==
    /\ Defined /\ lpc = "cbPost"
    /\ \/ /\ life[cur] = "freed"
          /\ ub' = "sem_post"
          /\ UNCHANGED <<sem, lpc, cur>>
       \/ /\ life[cur] = "live"
          /\ sem' = [sem EXCEPT ![cur] = @ + 1]
          /\ lpc' = AfterCallback
          /\ cur' = NULL
          /\ UNCHANGED ub
    /\ UNCHANGED <<callVars, ref, reply, life, curReply, budget, listVars,
                   bufVars, netVars, xcVars, expired, fast, late>>

------------------------------------------------------------------------------
(* The event loop: __redisAsyncFree after an error *)

\* Pending callbacks run with NULL; then the socket leaves the event loop and
\* disconnectedCallback takes the mutex, if the context was ever connected.
FreeReplies ==
    /\ Defined /\ lpc = "freeReplies"
    /\ curReply' = NULL
    /\ \/ /\ replies # <<>>
          /\ cur' = Head(replies)
          /\ replies' = Tail(replies)
          /\ lpc' = "cbDec"
          /\ UNCHANGED writing
       \/ /\ replies = <<>>
          /\ writing' = FALSE
          /\ lpc' = IF link[gen] = "failing" THEN "freeAc" ELSE "discPop"
          /\ UNCHANGED <<cur, replies>>
    /\ UNCHANGED <<callVars, infoVars, budget, cmd_list, obuf, rbuf, netVars,
                   xcVars, histVars>>

\* disconnectedCallback empties cmd_list, then marks the connection down and
\* releases the mutex.
DiscPop ==
    /\ Defined /\ lpc = "discPop"
    /\ \/ /\ cmd_list # <<>>
          /\ cur' = Head(cmd_list)
          /\ cmd_list' = Tail(cmd_list)
          /\ lpc' = "discDec"
          /\ UNCHANGED status
       \/ /\ cmd_list = <<>>
          /\ status' = LostStatus
          /\ lpc' = "reconnAdd"
          /\ UNCHANGED <<cur, cmd_list>>
    /\ UNCHANGED <<callVars, infoVars, curReply, budget, replies, bufVars,
                   netVars, ctx, link, gen, pipe, inReconn, rpc, histVars>>

\* Its caller is not woken: it finds out when its wait times out.
DiscDec ==
    /\ Defined /\ lpc = "discDec"
    /\ \/ /\ ~Alive(cur)
          /\ ub' = "ci_use"
          /\ UNCHANGED <<ref, life, lpc, cur>>
       \/ /\ Alive(cur)
          /\ ref' = [ref EXCEPT ![cur] = @ - 1]
          /\ life' = [life EXCEPT ![cur] = IF ref[cur] - 1 = 0 THEN "freed"
                                                               ELSE @]
          /\ lpc' = "discPop"
          /\ cur' = NULL
          /\ UNCHANGED ub
    /\ UNCHANGED <<callVars, reply, sem, curReply, budget, listVars, bufVars,
                   netVars, xcVars, expired, fast, late>>

\* client.reconn_mutex is held by the reconnect thread during an attempt.
ReconnAdd ==
    /\ Defined /\ lpc = "reconnAdd" /\ rpc = "idle"
    /\ inReconn' = TRUE
    /\ lpc' = "freeAc"
    /\ UNCHANGED <<callVars, infoVars, cur, curReply, budget, listVars,
                   bufVars, netVars, status, ctx, link, gen, pipe, rpc,
                   histVars>>

\* The rest of __redisAsyncFree: cmdInfos still listed are freed outright,
\* then the context with its buffers and its socket.  A context that lost its
\* place to a later one ("leaving") has nothing in them.
FreeAc ==
    /\ Defined /\ lpc = "freeAc"
    /\ \/ /\ \A g \in Conns : link[g] # "leaving"
          /\ life' = [c \in Callers |-> IF Contains(cmd_list, c) THEN "freed"
                                                                ELSE life[c]]
          /\ cmd_list' = <<>> /\ obuf' = <<>> /\ rbuf' = <<>>
          /\ tx' = <<>> /\ rx' = <<>>
       \/ /\ \E g \in Conns : link[g] = "leaving"
          /\ UNCHANGED <<life, cmd_list, obuf, rbuf, tx, rx>>
    /\ link' = [g \in Conns |->
                   IF link[g] \in {"closing", "failing", "leaving"}
                   THEN "freed" ELSE link[g]]
    /\ lpc' = "poll"
    /\ UNCHANGED <<callVars, ref, reply, sem, cur, curReply, budget, replies,
                   writing, net, executed, status, ctx, gen, pipe, inReconn,
                   rpc, histVars>>

------------------------------------------------------------------------------
(* The reconnect thread and the new connection *)

\* A bound: the queues are those of the context created last, so the next one
\* comes when that one is on its way out or has nothing in them.
OneQueue ==
    \/ lpc = "freeAc" /\ link[gen] = "closing"
    \/ /\ link[gen] \notin {"closing", "failing"}
       /\ cmd_list = <<>> /\ replies = <<>>
       /\ obuf = <<>> /\ rbuf = <<>> /\ tx = <<>> /\ rx = <<>>

\* reconnectDis calls __xRedisReconnectConnectNonBlock, which attaches a new
\* context and waits on xc->cond, holding reconn_mutex but not xc->mutex.
ReconnectAttach ==
    /\ Defined /\ rpc = "idle" /\ inReconn /\ MutexFree /\ gen < MaxConn
    /\ OneQueue
    /\ gen' = gen + 1
    /\ ctx' = gen + 1
    /\ link' = [link EXCEPT ![gen + 1] = "connecting"]
    /\ writing' = TRUE
    /\ rpc' = "waiting"
    /\ UNCHANGED <<callVars, infoVars, loopVars, listVars, obuf, rbuf,
                   netVars, status, pipe, inReconn, histVars>>

\* __redisAsyncHandleConnect succeeds: connectedCallback raises the status
\* and signals; the write event that brought us here stays for what is to send.
HandleConnect(g) ==
    /\ Defined /\ lpc = "poll" /\ link[g] = "connecting"
    /\ link' = [link EXCEPT ![g] = "connected"]
    /\ status' = "CONNECTED"
    /\ net' = "up"
    /\ writing' = (obuf # <<>>)
    /\ UNCHANGED <<callVars, infoVars, loopVars, listVars, obuf, rbuf, tx, rx,
                   executed, ctx, gen, pipe, inReconn, rpc, histVars>>

\* Context g fails to connect: connectedCallback signals and the context is
\* freed.  disconnectedCallback does not run, so what callers queued on it goes
\* the way of FreeReplies and FreeAc.
FailConnect(g) ==
    \/ /\ g = gen => status # "CONNECTED" /\ cmd_list = <<>> /\ replies = <<>>
       /\ link' = [link EXCEPT ![g] = "freed"]
       /\ writing' = (writing /\ g # gen)
       /\ UNCHANGED lpc
    \/ /\ g = gen
       /\ status = "CONNECTED" \/ cmd_list # <<>> \/ replies # <<>>
       /\ link' = [link EXCEPT ![g] = "failing"]
       /\ lpc' = "freeReplies"
       /\ UNCHANGED writing

\* ... or fails.
HandleConnectError(g) ==
    /\ Defined /\ lpc = "poll" /\ link[g] = "connecting"
    /\ FailConnect(g)
    /\ UNCHANGED <<callVars, infoVars, cur, curReply, budget, listVars, obuf,
                   rbuf, netVars, status, ctx, gen, pipe, inReconn, rpc,
                   histVars>>

\* The reconnect thread, signalled, decides by the status.
ReconnectWake ==
    /\ Defined /\ rpc = "waiting" /\ link[ctx] # "connecting" /\ MutexFree
    /\ rpc' = "idle"
    /\ \/ /\ AttemptOK
          /\ inReconn' = FALSE
          /\ UNCHANGED ctx
       \/ /\ ~AttemptOK
          /\ ctx' = 0
          /\ UNCHANGED inReconn
    /\ UNCHANGED <<callVars, infoVars, loopVars, listVars, bufVars, netVars,
                   status, link, gen, pipe, histVars>>

\* The wait ends first, by its timeout or by the signal of an older context.
\* The new context stays in the event loop, but nothing points to it; unless
\* an older one has raised the status: then the attempt counts as a success.
ReconnectTimeout ==
    /\ Defined /\ rpc = "waiting" /\ link[ctx] = "connecting" /\ MutexFree
    /\ rpc' = "idle"
    /\ \/ /\ AttemptOK
          /\ inReconn' = FALSE
          /\ UNCHANGED <<ctx, link>>
       \/ /\ ~AttemptOK
          /\ ctx' = 0
          /\ link' = [link EXCEPT ![ctx] = "orphan"]
          /\ UNCHANGED inReconn
    /\ UNCHANGED <<callVars, infoVars, loopVars, listVars, bufVars, netVars,
                   status, gen, pipe, histVars>>

\* A context given up fails to connect and is freed ...
OrphanError(g) ==
    /\ Defined /\ lpc = "poll" /\ link[g] = "orphan"
    /\ FailConnect(g)
    /\ UNCHANGED <<callVars, infoVars, cur, curReply, budget, listVars, obuf,
                   rbuf, netVars, status, ctx, gen, pipe, inReconn, rpc,
                   histVars>>

\* ... or connects after all: connectedCallback raises the status whatever
\* xc->ctx and reconn_list say of the connection.
OrphanConnect(g) ==
    /\ Defined /\ lpc = "poll" /\ link[g] = "orphan"
    /\ link' = [link EXCEPT ![g] = "connected"]
    /\ status' = "CONNECTED"
    /\ late' = TRUE
    /\ net' = IF g = gen THEN "up" ELSE net
    /\ writing' = IF g = gen THEN obuf # <<>> ELSE writing
    /\ UNCHANGED <<callVars, infoVars, loopVars, listVars, obuf, rbuf, tx, rx,
                   executed, ctx, gen, pipe, inReconn, rpc, expired, fast, ub>>

\* A context that connected late and was replaced is lost.  It has no command,
\* but its disconnectedCallback marks the connection down all the same.
OrphanLost(g) ==
    /\ Defined /\ lpc = "poll" /\ link[g] = "connected" /\ g # gen
    /\ link' = [link EXCEPT ![g] = "leaving"]
    /\ status' = LostStatus
    /\ lpc' = "reconnAdd"
    /\ UNCHANGED <<callVars, infoVars, cur, curReply, budget, listVars,
                   bufVars, netVars, ctx, gen, pipe, inReconn, rpc, histVars>>

\* It reads ac->xc to do so, after the event loop may have freed the context.
ReconnectStale ==
    /\ Defined /\ rpc = "waiting" /\ ~Allocated(ctx)
    /\ ub' = "ac_attach"
    /\ UNCHANGED <<callVars, infoVars, loopVars, listVars, bufVars, netVars,
                   xcVars, expired, fast, late>>

------------------------------------------------------------------------------
(* The server and the network *)

\* The server executes the next command and answers it.
Execute ==
    /\ Defined /\ net = "up" /\ tx # <<>>
    /\ executed' = Append(executed, Head(tx))
    /\ rx' = Append(rx, Head(tx))
    /\ tx' = Tail(tx)
    /\ UNCHANGED <<callVars, infoVars, loopVars, listVars, bufVars, net,
                   xcVars, histVars>>

\* The connection breaks: commands in flight and a suffix of the replies in
\* flight are lost.
ConnLost(g) ==
    /\ Defined /\ Connected(g) /\ net = "up"
    /\ net' = "down"
    /\ tx' = <<>>
    /\ \E k \in 0..Len(rx) : rx' = SubSeq(rx, 1, k)
    /\ UNCHANGED <<callVars, infoVars, loopVars, listVars, bufVars, executed,
                   xcVars, histVars>>

------------------------------------------------------------------------------
CallDone == \A c \in Callers : pc[c] = "done"

\* Every call has returned; the loop goes on waiting for events.
Idle == Defined /\ CallDone /\ UNCHANGED vars

\* Nothing can be said of an execution after undefined behaviour.
Undefined == ~Defined /\ UNCHANGED vars

Caller(c) ==
    \/ Begin(c) \/ Enqueue(c) \/ Notify(c) \/ Peek(c) \/ Wait(c) \/ Expire(c)
    \/ Take(c) \/ Drop(c) \/ UseFreed(c) \/ Search(c) \/ Unlink(c)
    \/ ListRace(c) \/ CheckStatus(c)

LoopTask == TaskRead \/ TaskLock \/ TaskPop \/ TaskSubmit

LoopSocket ==
    \/ \E g \in Conns : HandleWrite(g) \/ HandleRead(g)
    \/ Process \/ CbDec \/ CbStore \/ CbPost

LoopFree == FreeReplies \/ DiscPop \/ DiscDec \/ ReconnAdd \/ FreeAc

LoopConnect ==
    \E g \in Conns : \/ HandleConnect(g) \/ HandleConnectError(g)
                     \/ OrphanError(g) \/ OrphanConnect(g)
                     \/ OrphanLost(g)

Reconnect ==
    ReconnectAttach \/ ReconnectWake \/ ReconnectTimeout \/ ReconnectStale

Network == Execute \/ \E g \in Conns : ConnLost(g)

Next ==
    \/ \E c \in Callers : Caller(c)
    \/ LoopTask \/ LoopSocket \/ LoopFree \/ LoopConnect
    \/ Reconnect \/ Network \/ Idle \/ Undefined

Spec == Init /\ [][Next]_vars

------------------------------------------------------------------------------
(* Fairness *)

\* The threads run, and epoll reports every ready descriptor: a caller that
\* wants the mutex and an event that keeps occurring get their turn.
ThreadsRun ==
    /\ \A c \in Callers :
          /\ WF_vars(Notify(c) \/ Peek(c) \/ Wait(c) \/ Take(c) \/ Drop(c)
                     \/ UseFreed(c) \/ Search(c) \/ Unlink(c)
                     \/ CheckStatus(c))
          /\ SF_vars(Enqueue(c))
    /\ SF_vars(TaskRead)
    /\ WF_vars(TaskLock \/ TaskPop \/ TaskSubmit)
    /\ \A g \in Conns : SF_vars(HandleWrite(g)) /\ SF_vars(HandleRead(g))
    /\ WF_vars(Process \/ CbDec \/ CbStore \/ CbPost)
    /\ WF_vars(LoopFree)
    /\ WF_vars(ReconnectWake)

\* The clock runs: a wait that stays unanswered times out.
ClockRuns == \A c \in Callers : WF_vars(Expire(c))

\* The server answers what it received.
ServerRuns == WF_vars(Execute)

\* The clock may be slow and the server silent, unless a property says so.
FairSpec == Spec /\ ThreadsRun

------------------------------------------------------------------------------
(* Properties *)

\* The caller still has its reference to the cmdInfo.
Holds(c) == pc[c] \in {"notify", "peek", "wait", "take", "drop"}

\* The event loop still has to drop its reference.
InHand(c) == cur = c /\ lpc \in {"taskSubmit", "cbDec", "discDec"}
Owed(c) == Contains(cmd_list, c) \/ Contains(replies, c) \/ InHand(c)

TypeCall ==
    /\ pc \in [Callers -> CallerPCs]
    /\ myac \in [Callers -> 0..MaxConn]
    /\ got \in [Callers -> Callers \cup {NULL}]
TypeInfo ==
    /\ ref \in [Callers -> 0..2]
    /\ reply \in [Callers -> Callers \cup {NULL}]
    /\ sem \in [Callers -> 0..1]
    /\ life \in [Callers -> {"none", "live", "freed"}]
TypeLoop ==
    /\ lpc \in LoopPCs
    /\ cur \in Callers \cup {NULL} /\ curReply \in Callers \cup {NULL}
    /\ budget \in 0..ReadMax
TypeQueues ==
    /\ cmd_list \in Seq(Callers) /\ replies \in Seq(Callers)
    /\ obuf \in Seq(Callers) /\ rbuf \in Seq(Callers)
    /\ tx \in Seq(Callers) /\ rx \in Seq(Callers)
    /\ executed \in Seq(Callers)
TypeXc ==
    /\ status \in {"CONNECTED", "DISCONNECTING"}
    /\ ctx \in 0..MaxConn /\ gen \in Conns
    /\ link \in [Conns -> {"none", "connecting", "connected", "closing",
                           "failing", "leaving", "orphan", "freed"}]
    /\ pipe \in 0..PipeCap
    /\ net \in {"up", "down"} /\ rpc \in {"idle", "waiting"}
    /\ writing \in BOOLEAN /\ inReconn \in BOOLEAN
TypeHist ==
    /\ expired \subseteq Callers /\ fast \subseteq Callers /\ late \in BOOLEAN
    /\ ub \in UbKinds \cup {"none"}

\* Every variable keeps its type; the reference count of a cmdInfo stays
\* between 0 and 2, and its semaphore is posted at most once.
TypeOK ==
    /\ TypeCall /\ TypeInfo /\ TypeLoop /\ TypeQueues /\ TypeXc /\ TypeHist

\* A cmdInfo is never freed while its caller still holds its reference or the
\* event loop has it queued, pending or in hand: the reference count, the
\* free in the late path, the one in disconnectedCallback and the outright
\* free in __redisAsyncFree never take it away from the other thread.  The
\* exception: once a given-up attempt has connected, callers queue commands on
\* the next attempt while it connects, and if that fails they are freed.
InfoLiveWhileOwned ==
    \A c \in Callers : Holds(c) \/ Owed(c) => Alive(c) \/ late

\* Replies are matched to callbacks by order alone.  As long as the context
\* is not being torn down, the callbacks pending are exactly the commands
\* answered, in flight and unsent, oldest first; once the link is down the
\* replies that still arrive are those of the oldest callbacks.
PipelineAligned ==
    link[gen] = "connected" /\ Defined
        => IF net = "up" THEN replies = rbuf \o rx \o tx \o obuf
                         ELSE IsPrefix(rbuf \o rx, replies)

\* No caller is ever given, or returns, the reply to another caller's
\* command, across timeouts, losses and reconnections (replyCallback's
\* privdata against the order of the replies on the wire).
OwnReply ==
    \A c \in Callers : reply[c] \in {NULL, c} /\ got[c] \in {NULL, c}

\* Undefined behaviour needs a cause.  The assertion in redisProcessCallbacks
\* never fails; the store of a late reply and the use of the command's text
\* hit freed memory only for a caller whose wait timed out; the late path of
\* __xRedisCommand goes wrong only when some wait timed out; and sem_post
\* comes too late only for a caller that timed out or skipped its wait.  The
\* reconnect thread finds its context freed only while the connection is down,
\* never when the attempt has succeeded.  All the rest takes an attempt that
\* was given up and connects late: then callers and taskDeal follow an xc->ctx
\* that is NULL or freed, cmdInfos are freed under their users, and the status
\* says nothing of the attempt under way.
UndefinedBehaviourOrigin ==
    /\ ub # "assert"
    /\ ub \in {"ci_store", "cmd"} => cur \in expired
    /\ ub = "sem_post" => cur \in expired \cup fast
    /\ ub \in {"ac_late", "list", "ci_free"} => expired # {}
    /\ ub = "ac_attach" => status # "CONNECTED" \/ late
    /\ ub \in {"ctx", "ci_use"} => late

\* Commands of taskDeal's current round that its budget still covers.
Covered == IF lpc \in {"taskLock", "taskPop"} THEN budget
           ELSE IF lpc = "taskSubmit" THEN budget - 1 ELSE 0

\* No command is stuck on its way out: none is left on cmd_list without a
\* notification that will bring the event loop back to it, however taskDeal's
\* reads and its budget fall, if the pipe can hold a byte for every caller; and
\* none sits in obuf without a write event registered for it.  (After a late
\* connect the notification can be read while the status is down and the
\* command of a context that still connects stays.)
OutputCovered ==
    /\ Cardinality(Callers) <= PipeCap /\ ~late => Len(cmd_list) <=
          pipe + Covered + Cardinality({c \in Callers : pc[c] = "notify"})
    /\ obuf # <<>> /\ link[gen] = "connected" => writing

\* A connection that says CONNECTED has a context that is connected or being
\* closed: neither __xRedisCommand nor taskDeal follows a dangling xc->ctx.
\* The exception: an attempt given up before has connected, whose
\* connectedCallback raises the status of a connection without a usable
\* context.  One with no context at all then stays on reconn_list, so that the
\* next attempt gives it one.
CtxUsable ==
    status = "CONNECTED" =>
        \/ ctx # 0 /\ link[ctx] \in {"connected", "closing"}
        \/ late /\ (ctx = 0 => inReconn)

\* A call that was not timed out leaves no cmdInfo behind, even when the
\* connection is lost under it.
ReleasedUnlessExpired ==
    \A c \in Callers : pc[c] = "done" /\ life[c] = "live" => c \in expired

\* Between two rounds of the event loop and of the reconnect thread a
\* connection that is down is on reconn_list, whatever happened: a loss during
\* an attempt, or of a context that had lost its place, is not forgotten.  And
\* one that is up is not on it, to be replaced under its callers, unless it is
\* up because an attempt given up before has connected.
DownIffScheduled ==
    lpc = "poll" /\ rpc = "idle" =>
        /\ status # "CONNECTED" => inReconn
        /\ inReconn => status # "CONNECTED" \/ late

\* How far the call of c has come and what it returned, for the contract.
CallPhase(c) ==
    IF pc[c] = "idle" THEN "idle"
    ELSE IF pc[c] # "done" THEN "called"
    ELSE IF myac[c] = 0 THEN "rejected" ELSE "returned"
CallResult(c) == IF pc[c] = "done" THEN got[c] ELSE NULL

\* The contract of RequestReply, seen through the callers' positions and the
\* server's log.
Contract == INSTANCE RequestReply WITH
    phase <- [c \in Callers |-> CallPhase(c)],
    result <- [c \in Callers |-> CallResult(c)]

\* Every step of callers, event loop, reconnect thread and network is a step
\* of the contract or invisible to it: a command is executed at most once and
\* after its call began, never if the call was rejected because the
\* connection was down, and a reply returned is its own and was executed.
RefinesContract == Contract!Spec

\* While the clock runs a call that began returns, whatever the server does: no
\* caller is stuck on the mutex or in its wait.
EveryCallReturns ==
    ClockRuns => \A c \in Callers : pc[c] = "enqueue" ~> pc[c] = "done" \/ ~Defined

\* With a live server a command queued is answered unless the wait times out or
\* the connection breaks: no lost wakeup between the pipe, the write event
\* and the semaphore.
QueuedIsAnswered ==
    ServerRuns => \A c \in Callers \ Refused :
        Contains(cmd_list, c)
            ~> \/ pc[c] = "done" /\ got[c] = c
               \/ c \in expired \/ net = "down" \/ ~Defined

------------------------------------------------------------------------------
(* The inductive invariant behind InfoLiveWhileOwned, CtxUsable,            *)
(* ReleasedUnlessExpired and UndefinedBehaviourOrigin                       *)

NoDup(s) == \A i, j \in 1..Len(s) : s[i] = s[j] => i = j

\* The loop has dropped its reference and is about to touch the cmdInfo.
InCallback(c) == cur = c /\ lpc \in {"cbStore", "cbPost"}

\* Positions in which the loop acts for a connection that is up ...
Serving == {"taskPop", "taskSubmit", "process", "cbDec", "cbStore", "cbPost",
            "freeReplies", "discPop", "discDec"}
\* ... and in which it has begun to close it.
Closing ==
    \/ lpc \in {"freeReplies", "discPop", "discDec", "reconnAdd", "freeAc"}
    \/ lpc \in {"cbDec", "cbStore", "cbPost"} /\ curReply = NULL

LoopInv ==
    /\ lpc \in {"taskSubmit", "cbDec", "cbStore", "cbPost", "discDec"}
          => cur \in Callers
    /\ lpc \in {"taskLock", "taskPop", "taskSubmit"} => budget > 0

ConnInv ==
    /\ status = "CONNECTED"
          => ctx = gen /\ link[gen] \in {"connected", "closing"}
    /\ status # "CONNECTED" => cmd_list = <<>> /\ replies = <<>>
    /\ lpc \in {"discPop", "discDec"} => replies = <<>>
    /\ lpc \in Serving => status = "CONNECTED"
    /\ lpc \in {"reconnAdd", "freeAc"} => status # "CONNECTED"
    /\ inReconn /\ rpc = "idle" => status # "CONNECTED"
    /\ rpc = "waiting" => ctx = gen
    /\ \A g \in Conns :
          /\ link[g] = "connected"
                => g = gen /\ status = "CONNECTED" /\ ~Closing
          /\ link[g] = "connecting" => g = gen /\ rpc = "waiting"
          /\ link[g] \notin {"failing", "leaving"}

ListInv ==
    /\ NoDup(cmd_list) /\ NoDup(replies)
    /\ \A c \in Callers :
          /\ ~(Contains(cmd_list, c) /\ Contains(replies, c))
          /\ InHand(c) \/ InCallback(c)
                => ~Contains(cmd_list, c) /\ ~Contains(replies, c)

InfoInv(c) ==
    /\ pc[c] = "idle" => life[c] = "none"
    /\ pc[c] \in {"idle", "enqueue"}
          => /\ ~Owed(c) /\ ~InCallback(c)
             /\ sem[c] = 0 /\ reply[c] = NULL
    /\ pc[c] = "enqueue" => life[c] = "live" /\ ref[c] = 1
    /\ Holds(c) => /\ life[c] = "live"
                   /\ ref[c] \in IF Owed(c) THEN {2}
                                 ELSE IF c \in Refused THEN {1, 2} ELSE {1}
    /\ Owed(c) => /\ life[c] = "live" /\ ref[c] = IF Holds(c) THEN 2 ELSE 1
                  /\ sem[c] = 0 /\ reply[c] = NULL
    /\ c \in Refused => /\ ~Contains(replies, c) /\ ~InCallback(c)
                        /\ ~(cur = c /\ lpc = "cbDec")
                        /\ sem[c] = 0 /\ reply[c] = NULL
    /\ InCallback(c) => sem[c] = 0
    /\ InCallback(c) /\ lpc = "cbStore" => reply[c] = NULL

CauseInv(c) ==
    /\ c \in fast => reply[c] # NULL
    /\ InCallback(c) /\ c \notin expired \cup fast
          => pc[c] \in {"notify", "peek", "wait"}
    /\ pc[c] \in {"take", "drop"} /\ c \notin expired \cup fast
          => ~Owed(c) /\ ~InCallback(c) /\ c \notin Refused
    /\ pc[c] \in {"search", "unlink", "status"} => c \in expired
    /\ pc[c] = "done" /\ life[c] = "live" => c \in expired

\* What undefined behaviour shows about its cause, as far as this invariant
\* goes: all of UndefinedBehaviourOrigin but the assertion.
UbInv ==
    /\ ub \in {"ci_store", "cmd"} => cur \in expired
    /\ ub = "sem_post" => cur \in expired \cup fast
    /\ ub \in {"ac_late", "list", "ci_free"} => expired # {}
    /\ ub \notin {"ctx", "ci_use"}

\* Each cmdInfo has at most one place in the event loop and a count that
\* matches who owns it, except that a refused command keeps the reference
\* nobody drops any more; a connection that is down has no command left; and a
\* caller that neither timed out nor skipped its wait meets the callback at
\* its semaphore only.  It holds until a given-up attempt connects.
IndInv ==
    /\ TypeOK /\ LoopInv /\ ConnInv /\ ListInv /\ UbInv
    /\ \A c \in Callers : InfoInv(c) /\ CauseInv(c)
==============================================================================
