# A TLA+ development for multiplexing-hiredis

multiplexing-hiredis lets many threads share one Redis connection.  A thread
calls `xRedisCommand` and blocks; a single event-loop thread sends the commands
of all threads over one socket, matches the replies to them by order, and wakes
each thread with its own reply.  When the link breaks, a third thread
reconnects in the background.  The interesting code is small, concurrent and
hard to test: it hands a heap object (`cmdInfo`) back and forth between threads
with a reference count, a semaphore with a timeout, a list that is sometimes
locked, a pipe that may be full, and a context that is replaced under its users.

## The parts of the system

| part | state | operations | how it interacts |
|---|---|---|---|
| command path (`hiredis.c:1829-1947`) | a `cmdInfo` per call: `reference`, `reply`, `reply_sem` | `__xRedisCommand`, `xRedisvCommand`, `xRedisCommandArgv` | appends to `ac->cmd_list` under `xc->mutex`, writes a byte to the pipe, waits on the semaphore |
| event-loop work (`hiredis.c:149-220, 1331-1375`) | `cmd_list`, the batch counter `get_num` | `taskDeal`, `replyCallback`, `connectedCallback`, `disconnectedCallback` | takes `cmdInfo`s from callers, gives replies back, queues the connection for reconnection |
| reconnection (`hiredis.c:1263-1300, 1484-1502, 1684-1724`) | `client.reconn_list`, backoff counters | `reconnectDis`, `__xRedisReconnectConnectNonBlock`, `attachAsyncNoLock` | replaces `xc->ctx` under `xc->mutex`, waits on `xc->cond` for the event loop |
| lifecycle (`hiredis.c:1194-1261, 1377-1823, 1950-1985`) | `client`, `free_ac_list`, two threads, three kinds of mutex, `xc->cond` | `xRedisConnect*`, `xRedisFree`, `xStopClient`, `clearClient` | everything above runs under it |
| asynchronous context (`async.c`) | `replies`, `sub`, `obuf`, reader, flags | `redisAsyncCommand`, `redisAsyncDisconnect`, `redisAsyncFree`, `redisAsyncHandleRead/Write`, `redisProcessCallbacks` | called by an event library through an adapter, calls callbacks, which may call it again |
| adapters (`adapters/*.h`) | the interest in reading and writing | `addRead`, `delRead`, `addWrite`, `delWrite`, `cleanup`, the dispatch | between eight event libraries and the asynchronous context |
| dictionary (`dict.c`) | buckets, size, count | `dictReplace`, `dictFind`, `dictDelete`, growth | holds the callbacks of subscriptions |
| blocking API (`hiredis.c:744-1192`) | `obuf`, reader, `fd`, `err` | `redisConnect*`, `redisAppendCommand`, `redisBufferWrite/Read`, `redisGetReply`, `redisReconnect`, `redisFree` | uses the reader, the formatter and the sockets |
| sockets (`net.c`) | a descriptor on its way to a connection | `_redisContextConnectTcp`, `redisContextConnectUnix`, `redisContextWaitReady` | system calls that fail or do part of their work |
| reply reader (`read.c`) | buffer, position, stack of tasks | `redisReaderFeed`, `redisReaderGetReply` | fed by `redisBufferRead` |
| command formatting (`hiredis.c:365-738`) | none | `redisvFormatCommand`, `redisFormatCommandArgv` | fills `obuf` |
| event loop (`ae.c`, `ae_epoll.c`) | file and time events | `aeCreateFileEvent`, `aeProcessEvents`, ... | runs the handlers |
| strings (`sds.c`, `sds.h`) | one of five headers, room, bytes | appending, cutting, growing | every buffer is one |
| list (`list.c`) | head, tail, length, nodes, iterators | `listAddNodeTail`, `listDelNode`, `listJoin`, ... | holds `cmd_list`, `reconn_list`, `free_ac_list` |
| blocking queue (`block_queue.h`) | a ring, a mutex, a condition variable | `push`, `pop`, `clear` | shipped with the client, used by nothing |

What makes them correct:

* command path: a call returns its own reply or NULL, always returns, executes
  its command at most once; a `cmdInfo` is freed exactly once, and not while
  somebody uses it;
* event-loop work: no queued command is left without a wakeup; callbacks and
  replies stay aligned; a loss releases everything;
* reconnection: a connection that is down is scheduled, one that is up is not;
  a connection that says it is connected has a usable context;
* lifecycle: no deadlock, no lost wakeup in `xRedisFree`, no use of freed
  memory, or else a known reason for it;
* asynchronous context: every callback is called once and with the reply that
  is meant for it; assertions hold; no handler runs on a freed context, and
  whatever waits has its event armed, on every adapter;
* blocking API: commands and replies cross a connection that cuts them anywhere
  unchanged; a failure is reported; no descriptor is lost or closed twice;
* event loop: `epoll`, the slots and `maxfd` agree; a fired event goes to the
  handler registered now; no time event is lost or slept over;
* strings, dictionary, list, queue: the representation stays consistent and
  holds what a string, map, sequence or queue should.

What is hard: interleavings of callers, loop and reconnect thread on memory
that is freed by reference count; timeouts racing late answers; losses at every
point of the pipeline; attempts to reconnect that time out; three mutexes taken
in two orders; callbacks that free their context; partial reads and writes.
`PROJECT.json` lists each hazard at its line.

## Modules

| module | models |
|---|---|
| `RequestReply` | the contract of the command path, abstractly |
| `XRedisCommand` | one connection with its callers, its event loop, the reconnect thread, the server and the network |
| `XRedisCommandProofs` | theorems about `XRedisCommand`: its memory, and on top of that its queues |
| `XRedisLifecycle` | connecting, freeing and stopping: the threads, their mutexes and what they free |
| `XRedisLifecycleProofs` | theorems about `XRedisLifecycle` |
| `AsyncContext` | `async.c` with publish/subscribe and MONITOR, a server and a network; uses `Dict` and `EventAdapters` |
| `Dict` | `dict.c` as operators on a table |
| `EventAdapters` | the eight adapters as operators on what is armed |
| `AsyncContextProofs` | lemmas about `Dict`, and theorems about `AsyncContext` on any of the adapters: its events, and its callbacks |
| `BlockingClient` | the blocking API with `net.c`, a server and a network; uses `RedisReader` and `RedisFormat` |
| `BlockingClientProofs` | theorems about `BlockingClient`: its descriptor, its errors, the bytes it sends |
| `RedisReader` | `read.c` and the functions that build replies, as operators on a reader |
| `RedisFormat` | the formatting functions, and the reference they are checked against |
| `AeLoop` | `ae.c` on `ae_epoll.c`: descriptors, time events, sleep and clock |
| `AeLoopProofs` | theorems about `AeLoop` |
| `CInt` | the conversions between `int` and wider types, for `Sds` and `AeLoop` |
| `Sds`, `SdsProofs` | one string of `sds.c` through every sequence of calls, theorems |
| `ListContents`, `AdList` | what `list.c` promises, and `list.c` on the level of nodes and pointers |
| `AdListProofs` | theorems about `AdList` |
| `FifoQueue`, `BlockQueue`, `BlockQueueProofs` | what `block_queue.h` promises, the ring buffer, theorems |
| `MC...` | instances for TLC: values of the constants and symmetry |

`XRedisCommand` composes the command path with the parts of the asynchronous
context and the reconnection it meets, `AsyncContext` and `BlockingClient` the
parts named with them.  `AdList`, `BlockQueue`, `Sds` and `AeLoop` stand alone:
the others use sequences for lists and strings and let the loop pick any ready
event, which is what the runs of these modules justify.

### XRedisCommand

A caller makes one call, and its name also stands for its `cmdInfo`, its
command and the reply to it.  Every stretch of code between two points at which
another thread can interfere is one action.

* Caller: `Begin` (checks, allocation), `Enqueue` (the critical section),
  `Notify` (the byte written to the pipe, dropped when the pipe is full), `Peek`
  (`ci->reply` read without synchronisation), `Wait` and `Expire`
  (`sem_timedwait`, whose result the code ignores), `Take`, `Drop` (its
  reference), and the late path `Search`, `Unlink`, `CheckStatus`, with
  `ListRace` for its unlocked accesses; `UseFreed` is any of these steps on a
  `cmdInfo` that is gone.
* Event loop: `TaskRead`, `TaskLock`, `TaskPop`, `TaskSubmit` (`taskDeal`);
  `HandleWrite`, `HandleRead`, `Process` and the callback in three steps,
  `CbDec`, `CbStore`, `CbPost`; teardown `FreeReplies`, `DiscPop`, `DiscDec`,
  `ReconnAdd`, `FreeAc`; `HandleConnect`, `HandleConnectError`.  The loop's
  program counter `lpc` makes it one thread: it takes an event only at `poll`.
* Reconnect thread: `ReconnectAttach`, `ReconnectWake`, `ReconnectTimeout`
  (the wait on `xc->cond` ended first), `ReconnectStale`.
* Contexts given up by a timeout, which stay in the event loop: `OrphanError`,
  `OrphanConnect` (it raises `xc->status`, whatever `xc->ctx` is by then, and sets
  the history variable `late`), `OrphanLost`.
* Server and network (external): `Execute`, `ConnLost`.

`xc->mutex` is held across several actions only by the event loop, which is what
`MutexFree` says; a caller's critical section is one action.

The code contains races that end in undefined behaviour: a step on freed memory,
an unlocked list access during a change.  Such a step records its kind in `ub`
and the execution stops; the properties say which executions can get there.
Nine kinds are reachable in the model: a late store into a freed `cmdInfo`
(`ci_store`), a post of a freed semaphore (`sem_post`), a command text freed
while it is submitted (`cmd`), a freed context searched in the late path
(`ac_late`), a racing list access (`list`), a double free in the late path
(`ci_free`), a freed context read after a failed attempt to reconnect
(`ac_attach`), and, only after an attempt given up has connected (`late`), a
caller or `taskDeal` that follows a NULL or freed `xc->ctx` (`ctx`) and a
`cmdInfo` used although `__redisAsyncFree` freed it outright (`ci_use`).  The
assertion of `redisProcessCallbacks` (`assert`) is not reachable.

After `late` the status says nothing of the context: `CONNECTED` with a NULL
`xc->ctx` until the next attempt, or with one that is still connecting.  The model
follows these executions, and the properties say what is left in them:
`CtxUsable`, that a connection without a context is still scheduled;
`DownIffScheduled`, that a connection that is down is scheduled; `RefinesContract`,
that replies still go to their callers.  `OneQueue` is a bound: the queues are
those of the context created last, so an attempt starts only when the one before
it is empty or being freed; two contexts that both have commands are not
followed.

Data is abstracted: a command and a reply move as a whole, never in parts (the
reader's job); a write takes a non-empty prefix of the output; a read takes a
non-empty prefix of the replies in flight.  The socket is always registered for
reading, and its registration for writing is `writing`.

Not in this module: `xStopClient`, `xRedisFree` and the first connect
(`XRedisLifecycle`), pub/sub and monitor (`AsyncContext`), several connections
sharing the event loop, an allocation that fails, a second call by the same
thread.

### XRedisLifecycle

An `xRedisContext` is named after the application thread that connects and later
frees it; its asynchronous contexts, one for the connect and one for every
attempt to reconnect, are numbered.  A mutex is modelled by its owner, a
critical section by one action, or by several when it takes another mutex
inside.  `free1`, `free2`, `freeSleep` and `freeWake` are `xRedisFree`;
`dealLock`, `dealNext`, `dealEnd` are `freeAsyncContextDeal`, which holds
`client.mutex` while it frees; `disc...` is `disconnectedCallback` with its three
mutexes one after the other; `clearLoop` and `clearReconnList` are `startAeLoop`
and `clearClient` after the loop has ended, up to the second lock of
`client.mutex`, from which nobody returns; `reconnect...` is `reconnectDis`,
which keeps `reconn_mutex` during all the attempts of a round and `xc->mutex` up
to its wait.  The delay before an attempt is arbitrary (`reconnectSkip`).

Freed memory that is touched ends the execution in `ub`.  `causes` records the
events the client copes with badly: a connection freed while it is down
(`down`), lost while it is freed or attached (`loss`), an attempt to connect that
failed or timed out (`attach`), a stop (`stop`), a thread that could not be
created (`threads`).  `unheard` records the owners whose signal from
`__redisAsyncFree` was sent before they waited or woke another thread.  The properties say that nothing else leads to undefined
behaviour or to threads that block each other.  Commands, the pipe and
`cmd_list` are left to `XRedisCommand`; spurious wakeups of `xc->cond`, which
would let `xRedisFree` free too early, are not modelled.

### AsyncContext, Dict, EventAdapters

A callback is the number of the command it came with.  `redisAsyncCommand` is
called between dispatches or from a callback; what a callback may ask for,
`redisAsyncDisconnect` or `redisAsyncFree`, only sets a flag there and is part of
`processReply`.  The loop of `redisProcessCallbacks` takes one reply a step and
looks for its callback in the code's order (`Regular`, `Spontaneous`,
`Unexpected`, `Found`); as in the code, its local `cb` keeps the last callback
when none is found.  `seen` records what happened: a reply that went to a wrong
callback or to none, a failed assertion, a use of a freed context, and the uses
of the API that lead there (`Oddities`, a read that ended inside a reply).

`Dict` keeps buckets as chains in the code's order; a topic is its hash value,
and the two topics of the runs share a bucket at the first two sizes.
`EventAdapters` describes an adapter by five attributes that follow from its
code: when it calls its library, what its attach function arms, what is reported
once only, the order of the handlers, and whether something looks at the context
between two of them.  `pollError` is the error libuv reports in place of events:
it stops the handle, and the adapter returns without a word.

### BlockingClient, RedisReader, RedisFormat

The actions of the connect are the stretches of `_redisContextConnectTcp`
between two system calls, with each failure's own clean-up and its error set or
forgotten; a Unix socket takes the same way without addresses.  `fds` says who
has each descriptor, so that a descriptor closed by number may be somebody
else's.  Reads and writes take any part of what is there.  The reader is
`read.c` on real bytes, because where they are cut is the question: its buffer,
its position, its stack of tasks and the reply under construction, as a function
from paths to objects; the server's replies are such functions too, and `Encoded`
puts them on the wire in the order of their paths.  A format is a sequence of bytes and conversions; the
formatter runs as the code does and is compared with `ExpectedArgv`, which splits
the format at its blanks.  One reader error or failed allocation ends the use of
a connection, as `c->err` does.

### Sds

`mem` is the memory behind the header, of `room + 1` bytes, and `text` the
string a caller expects.  Header fields keep what fits into them (`Stored`).  The
limits of the five types are constants, so that a string of a few bytes passes
through all of them.  `sdscatfmt` is taken piece by piece: between two pieces the
string is not terminated.  `sdsrange`, `sdsupdatelen` and `sdscatfmt` keep lengths
in an int: `ToInt` and `ToSize`, in `CInt`, are the two conversions, `IntMax` is
`INT_MAX`, and `IntAssumption` relates it to the header types, whose third word is an unsigned
int.  `narrowed` records the function that has met a length beyond it.  From then
on the model only overwrites the string (`sdscpy`, `sdsclear`; after `sdsrange`,
which leaves the header in order) or gives it up for a new one: what other calls
do to a string that is not the expected one, or whose header lies, is not
followed.  Functions that make new strings from others (split,
join, quote) are left out.

### AdList

Nodes are a finite set; `alloc` is the set of allocated ones, so that a
failing `malloc` is simply the absence of a free node.  `iter` is the one
iterator in use; its field `todo`, the nodes it should still return, is there
for the property only.  `list.c` allows only the node returned last to be
deleted during an iteration, which is the guard `Free` and the first conjunct of
`listDelNode`.  The `dup`, `free` and `match` methods are not set, as in the
client.  `JoinEmpty` says whether `listJoin` is called with an empty second
list.

### BlockQueue

The ring is modelled with the code's own indexes, both -1 at first; `push`,
`pop`, the timed `pop` and `clear` hold the mutex throughout and are one action
each, except that a consumer that finds the queue empty sleeps on the condition
variable and takes the mutex again when it is woken (`Sleep`, `Recheck`).
Spurious wakeups and timeouts are actions.  A timed `pop` may time out at any
moment, which covers the deadline computed at `block_queue.h:172`.  The members
that only read are not actions.  `front()` is one of them: it reads the slot at
`m_front`, which is the one popped last, or the index -1 of a queue never popped.

### AeLoop

One action per stretch of `aeMain`, `aeProcessEvents`, `aeApiPoll` and
`processTimeEvents` between two calls of foreign code.  While the program counter
is in a handler (`rcb`, `wcb`, `tcb`, `fcb`, or `before` for `beforesleep`), any
function of the loop may be called any number of times: `aeCreateFileEvent`,
`aeDeleteFileEvent`, `aeCreateTimeEvent`, `aeDeleteTimeEvent`, `aeStop`, and
`aeResizeSetSize` between iterations.  The `Attach` actions are
`aeCreateFileEvent` in the connecting or the reconnecting thread, in the order of
its stores; one at a time, because `__initAttachContext` holds `client.mutex`.
Neither thread holds a lock against the other, so `maxfd` is looked at in one step
and stored in another by both: in the loop's thread `update` is the store still to
come, from `aeCreateFileEvent` (`store`) or from the search in
`aeDeleteFileEvent` (`scan`, slot by slot, then `store`).  `race` remembers that a
store overtook a higher one, and that the table was resized afterwards; a
descriptor beyond the table is then read out of bounds, which is also "wrong".
The loop goes "wrong" when the handler it is about to call is not the one that
was registered for the direction, and stops there.

`epoll` reports any subset of the watched descriptors in any order, with
`EPOLLERR` and `EPOLLHUP` as "writable" even if only reading is watched.  Time is
the clock in milliseconds, with seconds of `MsPerSec` of them; due times are
pairs, as in the code, and the carry is computed as the code does.  `delay` is the
time to the nearest event, a `long long` in the code, and `timeout` what is left of
the `int` that `epoll_wait` gets (`SleepTime`), where a negative one is `Forever`.
The clock may be set back or forward, not before its first second, during a sleep
as well; the sleep itself goes by another clock.  At its bound the clock stands
still while a sleep still runs out.

A time event keeps the number it was created with in `node`, because the code
overwrites `id` when it deletes it.  Finalizers may create events, like any
handler: `walk.early` holds those created while `prev` is NULL, and `leaked` those
of them that the walk then cut off.  `clientData`, a nested loop and `malloc`
failures are left out.

## Runs

| run | instance | shows |
|---|---|---|
| `CommandLoss` | 2 callers, 3 contexts, pipe and batch of 2 | ownership of the `cmdInfo`, own replies, causes of undefined behaviour, usable context, no leak without a timeout, scheduled exactly when down, each with what an attempt given up that connects makes of it; `XRedisCommand` implements `RequestReply` |
| `CommandPipeline` | 3 callers (one refused), 1 context, pipe of 3, batch of 2 | callbacks and replies stay aligned; nothing is stuck on its way out |
| `CommandLive` | 2 callers (one refused), 1 context, batch of 1, `FairSpec` | every call returns; a queued command is answered, or its wait timed out or the link broke |
| `Lifecycle` | 1 connection, 3 contexts, `FairSpec` | the ways to a deadlock, the ways to undefined behaviour, and that `xRedisFree` returns otherwise, unless the signal meant for it was sent and did not reach it |
| `Async` | 3 commands (ae, glib) or 2 (the other adapters) of 4 kinds, 2 channels, 1 message, 8 adapters | callbacks called once and with their replies, assertions, armed events, deferred disconnects, subscriptions found |
| `AsyncAbort` | the same with subscriptions only | the finding below |
| `Blocking` | 2 commands (`redisConnect`, then 1 after `redisReconnect`) or 1 (the other two), arrays up to 3 deep, 2 connects, 2 descriptors, 2 addresses, 2 retries; blocking TCP, blocking Unix, non-blocking with source address | replies in order, commands intact, failures reported, descriptors owned |
| `Sds` | strings up to 6 bytes, pieces up to 2, limits 2, 3, 4 and 9, `INT_MAX` 4 | header and bytes stay right up to a length no int holds |
| `List` | 2 lists, 4 nodes, 2 values | chains, length, leaks, iterator and lookups; `AdList` implements `ListContents` |
| `Queue` | 3 consumers (one timed), 2 items, 3 slots | indexes through wrap-around and `clear`; nobody sleeps beside an item; `BlockQueue` implements `FifoQueue` |
| `LoopFiles` | set sizes 1 and 2, 2 handlers, one attaching thread | `maxfd` and `epoll` agree with the slots, and a wrong handler is called only in the middle of a registration by another thread, but for what a store to `maxfd` that came too late leads to |
| `LoopTimers` | 3 time events, delays 0 and 1 ms, seconds of 2 ms, clock up to 4 and set once, `INT_MAX` 2, `FairSpec` | no event freed twice, met again in its walk, lost except by one known way, or slept over if the delay fits an int; a clock set back forces all events; pending events run; a stop ends the loop |

Why the bounds are enough.  Two callers give every pair of positions in the
command path, three a batch that ends in the middle of the queue and a middle
element in the pipeline.  Three contexts give a loss, an attempt that fails or
times out, and a second one that runs while the older context, still in the
event loop, connects too.  A pipe smaller than the number of callers is left to the guard of
`OutputCovered`: a pipe of 64 KiB holds a byte for each of far more threads than
can be waiting, and a full pipe implies that the loop is about to read it.

In `Lifecycle` one connection meets every pair of positions of its owner, the
event loop and the reconnect thread.  The invariants also hold with two
connections and two contexts each (`Apps = {a, b}`, `MaxAc = 2`, 3.2 million
states); more connections only add owners that wait.

Three commands are the shortest pipeline with SUBSCRIBE, UNSUBSCRIBE and one
more; two channels in a table that starts with one bucket make it grow and its
chains collide.  The third command is left to two adapters, ae as the one the
library is built around and glib as the one that calls both handlers in a row:
the command path does not depend on the adapter, and what an adapter does with
its events shows with two.  In `Blocking` two commands of one connection make a
pipeline, and the one after `redisReconnect` would meet the bytes of the first;
the answers hold line breaks inside a string, half of one inside a status,
arrays within arrays, an empty one, and one nested too deep; the buffer is cut
after five bytes, so that a cut falls inside them; the requests hold blanks
inside values, an empty value, a length of two digits and an invalid conversion.

In `LoopFiles` one descriptor can be deleted while another one is waiting in the
fired array, the set shrinks and grows around the one left, and the store to
`maxfd` that the deletion of one makes can come after that of the other's
registration; in `LoopTimers` the deleted event can be the first, the middle or
the last, a delay of one crosses a second, an event deleted behind one that a
finalizer created shows the loss, and a clock set back from 4 to 2 makes the delay
of an event due at 5 longer than an int.

Symmetry is used for interchangeable callers, nodes, items, descriptors,
characters and handlers, never in a run with a liveness property.  Deadlock is
checked wherever the system may not stop; it is off in `Lifecycle` (a client
that is done, deadlocked or undefined stops, and `DeadlockOrigin` is about just
that), and in `Async` and `Blocking`, where the application frees its context.

**Finding.** `redisProcessCallbacks` asserts `async.c:523` with the comment "No
more regular callbacks and no errors, the context *must* be subscribed or
monitoring."  With SUBSCRIBE, UNSUBSCRIBE, SUBSCRIBE of one channel in the
pipeline, the answer to the UNSUBSCRIBE deletes the callback that the second
SUBSCRIBE has registered, and clears `REDIS_SUBSCRIBED` because no subscription
is left; the answer to the second SUBSCRIBE then fails the assertion.

What else the models made visible, each as an exception that a property names:

* `clearClient` locks `client.mutex`, which `startAeLoop` and `__initMpClient`
  hold when they call it: after `xStopClient` the event-loop thread never ends.
  `freeAsyncContextDeal` and `attachAsyncNoLock` take `client.mutex` and
  `xc->mutex` in opposite orders (`DeadlockOrigin`).
* `xRedisFree` waits without a predicate; when the loop signals first, or the
  signal wakes the reconnect thread instead, it never returns (`unheard` in
  `FreeReturns`).  On a connection that is down it uses a
  context that is freed (`UndefinedOrigin`).  The connect frees an `xRedisContext`
  whose context is still in the event loop.
* In monitor mode a read that ends inside a reply pushes the empty callback, and
  the next line is dropped.  A reply without a callback of its own goes to the
  callback called last.  An error reply to a command sent while subscribed
  disconnects (`ReplyReachesItsCallback`, `CalledOnce`).
* `adapters/glib.h` calls the read handler on a context the write handler freed
  (`dispatchRest`; no property, as it would only repeat the adapter's code).
* `adapters/libuv.h` ignores an error of the socket, for which libuv has stopped
  the handle: the context is left with nothing armed and no callback called,
  until the next command (`EventsArmed`).
* Three paths of `net.c` fail without setting `c->err` (`FailureReported`), and
  after a failed `redisReconnect` `c->fd` keeps the number of a closed descriptor,
  which is closed again (`DescriptorsOwned`).
* `sdsrange`, `sdsupdatelen` and `sdscatfmt` keep lengths in an int: beyond
  `INT_MAX` bytes they lose the string, write before it or record a length that is
  not (`narrowed` in `HeaderOK` and `ContentOK`).
* `listJoin` (`list.c:355`) sets `l->tail = o->tail` also when `o` is empty, which
  breaks a non-empty `l`: `WellFormed` fails with `JoinEmpty = TRUE`.  The client
  never calls `listJoin`.
* `aeDeleteFileEvent` can store a `maxfd` computed before another thread registered
  a higher descriptor; a later `aeResizeSetSize` then clears a slot in use, or
  leaves its descriptor in `epoll` beyond the table (`race` in `MaxFdExact`,
  `EpollMatches`, `CallsRegistered`).
* `processTimeEvents` loses the time event that a finalizer creates while `prev` is
  NULL, if the next event it comes to is deleted too (`leaked` in
  `TimersAccounted`).  A delay beyond `INT_MAX` milliseconds becomes an endless
  sleep, or a shorter one (`NeverOversleeps`, `Overslept`).
* The comment of `aeResizeSetSize` (`ae.c:97-98`) refuses one descriptor more than
  the code does; the code is right.

## Fairness

`XRedisCommand`: `ThreadsRun` says that each thread that can continue does (weak
fairness of its steps); a caller that wants `xc->mutex` gets it eventually
although the loop takes it again and again, and an event of the socket or the
pipe that stays ready is handled although the loop is busy with others (strong
fairness: `epoll` reports all ready descriptors in one call, and
`aeProcessEvents` handles them all).  The clock and the server are hypotheses of
the properties: `EveryCallReturns` assumes that a wait that is never posted times
out (`ClockRuns`) and nothing of the server; `QueuedIsAnswered` assumes a server
that answers (`ServerRuns`) and not the clock, so that a timeout is possible but
never forced and cannot hide a lost wakeup.

`XRedisLifecycle`: each thread gets on, with strong fairness, because a mutex a
thread waits for is free again and again: the loop polls for a millisecond
outside every mutex, and the reconnect thread sleeps 100 ms between its rounds.
Nothing is assumed of the network: connections need not be answered or lost.

`AeLoop`: the loop's thread runs, handlers return, time passes.  Nothing is
assumed of `epoll`: `StopEnds` holds although no descriptor ever becomes ready,
because a time event on the list bounds the sleep; in the client that is
`clientCron`, every millisecond.  `StopEnds` and `TimersRun` leave out the run in
which the loop sleeps forever over a delay that no int holds (`Overslept`).

## What is proved

Each theorem holds for every value of the constants that meets the named
assumptions, which TLC evaluates in the runs.

| module | about | assumptions | theorems |
|---|---|---|---|
| `XRedisCommandProofs` | memory and counts | `ConstantsOK` | `CommandInductive`, `CommandTypes`, `CommandInfoLive`, `CommandCtxUsable`, `CommandReleased`, `CommandUbCauses` |
| `XRedisCommandProofs`, second half | queues, wakeups, contract | `ConstantsOK`, `FiniteCallers` | `PipelineInductive`, `PipelineScheduled`, `PipelineOrder`, `PipelineOwnReply`, `PipelineUbOrigin`, `PipelineCovered`, `PipelineContract` |
| `XRedisLifecycleProofs` | mutexes, contexts, undefined behaviour, deadlocks | `AcAssumption`, `AppAssumption`, `NullAssumption` | `LifecycleInductive`, `LifecycleLocks`, `LifecycleUbOrigin`, `LifecycleDeadlockOrigin` |
| `AeLoopProofs` | file and time events | `LoopConstants`, `IntMaxAssumption` | `LoopFileInvariant`, `LoopMaxFd`, `LoopEpoll`, `LoopCalls`, `LoopTimeInvariant`, `LoopTimers`, `LoopSleep`, `LoopSkew` |
| `AsyncContextProofs` | events and life of a context | none | `AsyncInductive`, `AsyncEventsArmed`, `AsyncFreedIsFinal` |
| `AsyncContextProofs`, second half | commands, callbacks, subscriptions | `TopicAssumption`, `InitialSizeAssumption` | `AsyncFullInductive`, `AsyncCalledOnce`, `AsyncRepliesReach`, `AsyncAssertionsHold`, `AsyncSubscriptionsFound` |
| `SdsProofs` | header and bytes of a string | `LimitAssumption`, `IntMaxAssumption`, `IntAssumption`, `PreallocAssumption`, `BoundAssumption` | `SdsInductive`, `SdsHeader`, `SdsContent` |
| `BlockingClientProofs` | descriptor, errors, bytes sent | `FdsAssumption`, and `FormatsRight` of every request in the last | `DescriptorInductive`, `DescriptorsAreOwned`, `FailuresAreReported`, `CommandsAreIntact` |
| `AdListProofs` | the linked list | `ListConstants`, and `~JoinEmpty` in each theorem | `ListInductive`, `ListWellFormed`, `ListTraversals`, `ListImplementsContents` |
| `BlockQueueProofs` | the ring buffer | `QueueConstants` | `QueueInvariant`, `QueueNoLostWakeup`, `QueueImplementsFifo` |

**Command path, memory.**  `XRedisCommandProofs` is about any set of callers, any
choice of refused commands, any pipe and batch size and any number of contexts.
None of its properties is inductive by itself.  That the count of a `cmdInfo` is
right depends on where the `cmdInfo` is, so `IndInv` says that each one is in at
most one place of the loop (`ListInv`), and relates its count, its life, its
reply and its semaphore to that place and to the caller's position (`InfoInv`).
The exception that forces itself into the invariant is the refused command, whose
reference nobody drops.  That a connection which is down has no command left, and
so that nothing is freed outright in `__redisAsyncFree`, depends on the status,
on the context's life and on where the loop is (`ConnInv`).  That only a caller
that timed out can leak or clash with a callback is `CauseInv`.  There is one
lemma per action, with one step per part of `IndInv`; the queues enter only
through four lemmas on their members.

All this holds until an attempt that was given up connects (`late \/ IndInv`);
from there on the status is raised by contexts `xc->ctx` does not name, and with
that `ConnInv` is gone.  `CommandInfoLive`, `CommandCtxUsable` and
`PipelineScheduled` are proved beyond that point: `CtxInv` and `SchedInv` relate
status, `xc->ctx` and `reconn_list` alone, and every step keeps them.

**Command path, queues.**  `PipeInv`, in the second half of
`XRedisCommandProofs`, stands on `IndInv`.  Its centre is `AlignInv`: while the link is up, the pending callbacks
are the replies received and in flight, followed by the commands on the wire and
in the output buffer.  Every action moves a border of this pipeline, and the
lemma of the step rewrites the concatenation with one of five named equations
(`Regroups`, `AppendsLast`, `ShiftsHead`, `TakesFirst`, `Cuts`).  Once the link is
broken the commands in flight are lost, so only a prefix of the callbacks is
described: `AlignInv` says "some rest".  From it follows that the callback at the
head is that of the reply at the head (`ReplyInv`, hence `OwnReply`) and that
there always is one when a reply is processed, which is the assertion of
`redisProcessCallbacks`.  `LinkInv` says which buffers survive a loss, `CoverInv`
counts bytes in the pipe against commands on `cmd_list` (its step for the byte
that is dropped when the pipe is full is where the hypothesis on `PipeCap`
enters, and where the set of callers must be finite), and `OnceInv`, `CallInv`
and `AnsweredInv` say that a command is in one place between its caller and the
server, and that every reply is that of an executed command.  These carry
`PipelineContract`: the lemmas `CallerContract` and `ExecuteContract` map the
caller's actions and the server's to the actions of `RequestReply`; every
other step leaves `CallPhase`, `CallResult` and the set of executed commands
alone.  It is a theorem about the behaviours in which no attempt given up
connects (`OnTime`), as `PipeInv` holds only in these; TLC checks `RefinesContract`
in the others too.  The refinement's own fairness is none: `RequestReply` is a safety
contract.

**Lifecycle.**  The invariant `Inv` of `XRedisLifecycleProofs` is about any number
of connections and of attempts to connect.  `LocksHeld` gives every mutex the
thread whose position says that it holds it.  The rest answers one question: when
a thread is about to touch a context, a connection, the lists or the loop, is it
still there?  Without the causes of trouble it is, because of `SingleInv`: a
connection has at most one context in use, and none while it is on `reconn_list`,
but for the one an attempt is working on.  That is inductive only with the
windows in which it is almost false: the three mutexes of `disconnectedCallback`,
during which the context is `Torn` or `Tearing` and not yet scheduled
(`TornInv`), the round of the reconnect thread, whose list the loop changes while
it walks (`RoundInv`, `Renewing`), and a context that `xRedisFree` has marked and
not yet handed over, or handed over and not yet freed (`MarkInv`, `MarkListInv`,
`MarkTearInv`, `FreeListInv`, `WaitInv`).  Each part names the causes under which
it gives way: `Cause2` is a free while down or an attempt given up, `Cause4` adds
a loss and a stop, `CauseEnd` is what makes the loop and the lists disappear.
There is one lemma per action, and the actions with several outcomes have one per
outcome; in each, one step per part of `Inv`.  `UndefinedStep` then looks at every
action's way into undefined behaviour.  For `DeadlockOrigin` the invariant fixes
what every waiting thread holds and wants: whoever waits waits, by way of at most
one more thread, for the event loop or the reconnect thread, so a cycle contains
both, at the two places where each holds what the other wants (`CycleCases`).

**Event loop.**  `FileInv` is about any table size, any set of descriptors and
handlers and includes the thread that registers while the loop runs: `AttachInv`
says how far it got, and `HandlersInv` that no other slot holds a handler it was
not given.  `MaxFdExact` speaks of `maxfd` at rest.  Between the search for a new
one and its store it does not hold, so `MaxFdInv` says it of `Top`, the `maxfd` the
loop's thread has or is about to store, and adds that what the other thread is
about to store raises `maxfd`; both end with the first store that overtakes a
higher one (`race`).  After that `EpollMatches` and `CallsRegistered` still hold
until the table is resized, and the entries of `fired` lie within `Reach`.

`TimeInv` is about any clock, any length of a second, any `INT_MAX` and any number
of events: `NodesInv` accounts for every event ever created, and `WalkInv` and
`SkewInv` say what is ahead of and behind the walk.  As long as `prev` is NULL all
that lies behind the walk is `walk.early`, what finalizers have put there; that is
why a removal then loses exactly these.  That nothing ahead of the walk has run
needs `maxId`, because `processTimeEvents` inserts at the head and restarts
nothing.  `NeverOversleeps` rests on the arithmetic of `AddMilliseconds` (the carry
is right for delays of any number of seconds), on `NearestTimer`, and on `IntOf`:
up to `INT_MAX` the conversion changes nothing.

**Queue.**  The refinement rests on the ring invariant: with `m_size` between 0
and `m_max_size`, `m_back` is `m_size` slots ahead of `m_front` modulo the
capacity, so a push writes outside the contents and a pop reads their first slot.

**Asynchronous context, events.**  `EventsArmed` speaks of the moments between two
dispatches.  Within one the adapter may already have disarmed an event whose
handler is still to come, so the invariant asks that an event a live context
needs is `Awaited`: watched, or among the handlers left to call (`Queued`).
`Watched` is what is armed, or for an adapter with a mask the mask, which an error
reported by libuv leaves alone while it disarms everything (`Masked`, `Mute`).  Two
lemmas say what the eight adapters share (`AddArms`, `DelKeeps`), with `EvOK`
tying the flags an adapter keeps to what its library watches: an adapter that
skips the call when its flag is set must never have the flag without the event.
`Fire` disarms only what it reports (`FireKeeps`), and what is reported is
called (`HandlersCalled`).  `Gone` says what is left of a freed context, from
which `AsyncFreedIsFinal` follows.

**Asynchronous context, callbacks.**  The theorems are about any number of
commands and messages and any topics.  The invariant `Full` looks at everything
between the application and the server as one queue, `Stream`: the replies read,
the replies on their way, the commands on the wire and in the output buffer.  A
command becomes a reply in its place, a message is inserted behind the replies,
a handled reply leaves at the front; these are the three ways a queue changes
(`Appended`, `Inserted`, `Shifted`), and each part of the invariant has one lemma
for each.  What holds whatever the application does is `Shape` (types, and the
dictionaries as below) and `Genuine`: every reply with an id is that of a command,
nothing is under way twice, and a topic the server knows has a callback or was
unsubscribed from.  `AsyncSubscriptionsFound` follows from it.

The rest is conditional on the uses of the API that the code copes with, as the
properties are.  For commands and subscriptions it is `Queue`.  `Orderly` is what
publish/subscribe depends on: nothing of a topic comes behind its unsubscribe and
no subscribe behind any (`Late`), each topic under way has a callback (`Known`),
each callback a subscription that is, was or will be made (`Held`), and the
answer with the count 0, which ends the subscribed state, is the last one about
topics (`Answered`).  The last part is the one a single missing case breaks: that
the count the server computes is 0 only then needs `Held` and `Waiting`, for the
topics of commands still on their way.  `Matched` says that there are as many
callbacks as ordinary commands under way, those in `ac->replies` in front; with
it a reply on a subscribed context that is no message finds a callback on
`ac->sub.invalid`.  That it finds its own is `Paired`, which mixing the two uses
breaks, because a reply to an ordinary command is taken for the oldest one on the
list.  `Owed` ties the two lists to the number of calls so far and gives
`AsyncCalledOnce`; when the context goes, `FreeOwed` calls what is left.  For
MONITOR there are `Alone` and `AlonePaired`: the one callback is in
`ac->replies`, or it is the local `cb` of `redisProcessCallbacks`.  A context
that is gone keeps only `Over`.  A second subscribe that overtakes the answer to
an unsubscribe is excluded from `CalledOnce` too: its answer may find no callback
and call the one of the command before it again.

**Dictionary.**  The first part of `AsyncContextProofs` has no theorem about
behaviours; it says of each operation of `Dict` what it does to the set of entries (`Member`), for any keys
and any initial size.  `Good` is the invariant of a table: every entry is in the
chain of its hash, no key is there twice, the count is right.  From it follow
what `dictHas` and `dictFind` return, that `dictReplace` sets one key and
`dictDelete` removes one, that growing the table moves every entry and loses none
(an induction on the number of entries pushed), and `GoodIsConsistent`, which is
what the run checks.  The bound of a growing table is found by `dictNextPower`,
a recursive function on numbers.

**Blocking API.**  `DescriptorsOwned` is not inductive: that redisFree closes a
stranger's descriptor only after a reconnect needs to know when the number in
`c->fd` is stale.  `DescriptorInv` adds where the client has nothing open (before
`socket`, and after the end: `NoneOpen`), where it has (`HoldsOwn`), and that on a
first connection `c->fd` is -1, 0 or open (`Stale`).  Every way back to `socket`
closes first (`CloseLeavesNone`), which is what keeps `OnlyOwn` when the next
socket is opened.  `FailuresAreReported` goes through the failures one by one.
`CommandsAreIntact` takes the formatter as given, one request at a time
(`FormatsRight`: the right bytes, as many as were counted), and shows the rest:
the bytes the server has and those in `c->obuf` are together the commands
appended (`BytesInv`), whatever part a write takes (`CutAnywhere`) and with
whatever is appended in between (`WireAppend`, which needs what the community
modules' `FlattenSeq` computes: `SumExists`, `SumsAgree`).  That hypothesis is
about loops over the characters of a format, out of the prover's reach; the
instance of the run states it as an assumption, which TLC evaluates.

**Strings.**  `StringInv` is `Good` (header and memory agree) and `Holds` (byte
by byte the text).  The helpers get one lemma each on what they write and what
they leave alone (`WriteFacts`, `TerminateFacts`, `SetLenFacts`, `ResizedFacts`,
`MakeRoomFacts`), and the calls are shown from these.  The type of a header
changes in `sdsMakeRoomFor` and `sdsRemoveFreeSpace`; that the new one can hold
both length and room is `ReqTypeFits`, which needs the limits to grow.  Up to
`INT_MAX` an int is the length (`ToIntSmall`); beyond, `sdsrange` still keeps a part
of the string (`RangeWide`), and a field of 32 bits takes the negative int of
`sdsupdatelen` for the length it was (`FieldOfInt`, by the remainder of a
multiple).

**Linked list.**  `WellFormed` speaks of walks along pointers, which no step can be
checked against.  `ListInv` instead says that there are sequences of nodes, one
per list, such that each list is a `Chain` of its sequence in both directions,
no node is at two places (`Apart`), and the allocated nodes are those in the
sequences (`Allocated`).  The witness of the next state is given for each
operation: `Put` (the three insertions, which `AddHeadInserts`, `AddTailInserts`
and `InsertNodeInserts` reduce to one step at a position), `Cut`, `Turn`, `Joined`,
the empty sequence, or the copy.  An iterator is a `Cursor` between two positions,
and deleting the node it returned last moves that position with the others
(`DelNodeIter`).  `StepsOnPath` evaluates following a pointer k times, by an
induction on a set of numbers; from it the walks (`WalkOnPath`), `listIndex` and
the nodes `listEmpty` frees are what the sequence says, and `SearchRead` does the
same for `listSearchKey`.  The refinement of `ListContents` then compares `Put`,
`Cut` and `Turn` on nodes with `InsertAt`, `RemoveAt` and the rotation on values.
The theorems assume `~JoinEmpty`, as the run does: with an empty second list
`listJoin` breaks the first (above), and nothing in the repository calls it.

The prover mistakes a function updated at two keys in one `EXCEPT` when the keys
may be equal.  `aeCreateFileEvent` and `reconnectInitialize` are therefore written
with one update; where several remain, in fields of a record or for different
threads, lists or nodes (`listRotate`, `listJoin`, the insertions at an end), the
keys differ.

`InductiveSet` and `LeastNatural` (in `AeLoopProofs`, `AdListProofs`,
`AsyncContextProofs` and `BlockingClientProofs`) stand in for the induction
theorems of the library, which take an operator as a parameter: a property of
numbers is given as the set of the numbers that have it, and a subset of `Nat`
that holds 0 and every successor is all of `Nat` because it cannot have a
smallest missing number.

Only model-checked: `DisconnectDeferred` of `AsyncContext`, `RepliesInOrder` of
`BlockingClient`, and that a single request is formatted right.  The last two ask what a loop computes from any sequence of bytes.

Out of the prover's reach: the liveness properties (`EveryCallReturns`,
`QueuedIsAnswered`, `FreeReturns`, `TimersRun`, `StopEnds`), and in general what
the recursive definitions of `RedisReader` and `RedisFormat` compute.

## Not modelled

* `ae_select.c`, `ae_kqueue.c`: alternatives to `ae_epoll.c` with the same
  interface; `zmalloc.c`: wrappers of `malloc` with a counter nothing reads;
  `win32.h`; the examples and the test programs.
* `sds.c`: splitting, joining, quoting and the printf form of appending, which
  make strings of strings and keep no state of their own.
* The backoff of the reconnect thread: its counters decide when an attempt is
  made, and the models let it be made at any time.  That `wait_time_reconn`
  doubles without a limit only delays attempts.
* `xRedisReconnect`, a reconnect by the application: it frees the context in the
  application's thread while the event loop may use it, and nothing in the
  repository calls it.
* Failures of `malloc` outside the reader, and second use of a client after
  `xStopClient`, which the deadlock in `clearClient` makes unreachable.

## Plan

Done: all modules above, and the proofs of `XRedisCommand`, `XRedisLifecycle`,
`BlockQueue`, `AeLoop`, `AsyncContext` with `Dict`, `Sds`, `AdList` and
`BlockingClient`.  To add: what the parser of `RedisReader` builds from the bytes of
one reply, of which `RepliesInOrder` is the consequence for a connection.
