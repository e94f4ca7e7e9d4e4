------------------------------- MODULE AeLoop -------------------------------
(***************************************************************************)
(* The event loop of ae.c on top of ae_epoll.c, as aeMain runs it: it      *)
(* sleeps in epoll_wait until a file descriptor is ready or the nearest    *)
(* time event is due, calls the handlers of the fired descriptors, then    *)
(* walks the list of time events.                                          *)
(*                                                                         *)
(* A handler is arbitrary code that may call any function of the loop any  *)
(* number of times before it returns.  Another thread may register a       *)
(* descriptor at any moment, as xRedisConnect and the reconnect thread do  *)
(* through redisAsyncSetConnectCallback; it does so one store at a time,   *)
(* without a lock that the loop would take.  Each thread looks at maxfd,   *)
(* and the loop at the masks below it, before it stores a new one.         *)
(*                                                                         *)
(* Left out: clientData, the other flags of aeProcessEvents (aeMain always *)
(* passes AE_ALL_EVENTS), a handler that runs the loop itself, and calls   *)
(* that fail and change nothing.                                           *)
(***************************************************************************)
EXTENDS CInt, FiniteSets, SequencesExt

CONSTANTS Sizes,            \* set sizes the loop is created with or resized to
          Procs,            \* file handlers
          NoProc,           \* the content of a handler field never stored
          AttachMasks,      \* what another thread registers: writability,
                            \* by redisAsyncSetConnectCallback
          MsPerSec,         \* milliseconds in a second (1000 in the code)
          Delays,           \* delays of time events, in milliseconds
          MaxTimers,        \* bound: time events created
          MaxTime,          \* bound: the clock stands still when it gets here
          MaxJumps          \* bound: times the clock is set

Dirs == {"readable", "writable"}

ASSUME LoopConstants ==
    /\ Sizes \subseteq Nat \ {0} /\ Sizes # {} /\ IsFiniteSet(Sizes)
    /\ MsPerSec \in Nat \ {0} /\ Delays \subseteq Nat
    /\ NoProc \notin Procs /\ AttachMasks \subseteq (SUBSET Dirs) \ {{}}
    /\ MaxTimers \in Nat /\ MaxTime \in Nat /\ MaxJumps \in Nat

VARIABLES
    pc,        \* where the loop's thread is
    stop,      \* eventLoop->stop
    setsize,   \* eventLoop->setsize
    events,    \* eventLoop->events, an array of setsize slots
    maxfd,     \* eventLoop->maxfd
    update,    \* a store to maxfd the loop's thread is about to make: j, and
               \* the handler that called
    race,      \* history: a store to maxfd overtook one of the other thread
               \* ("lost"), and the table was resized since ("resized")
    interest,  \* what epoll watches of each descriptor
    fired,     \* the entries of eventLoop->fired not processed yet
    rfired,    \* rfired of the entry being processed
    attach,    \* the registration under way in another thread
    timers,    \* the list at eventLoop->timeEventHead
    nextId,    \* eventLoop->timeEventNextId
    lastTime,  \* eventLoop->lastTime
    walk,      \* te, prev and maxId of processTimeEvents
    delay,     \* how long aeProcessEvents wants to sleep, in milliseconds
    timeout,   \* what is left of the sleep in epoll_wait, or Forever
    now,       \* the clock, in milliseconds
    jumps,     \* how often the clock was set
    skipped,   \* history: the clock was set forward during the sleep
    wanted,    \* history: the handler each watched direction was given
    gone,      \* history: time events that were finalized and freed
    leaked,    \* history: time events that the list lost
    ran        \* history: time events run by the current walk

tableVars == <<setsize, events, interest, wanted>>
fileVars  == <<tableVars, maxfd, update, race>>
timeVars  == <<timers, nextId, lastTime, walk, gone, leaked, ran>>
sleepVars == <<delay, timeout, skipped>>
clockVars == <<sleepVars, now, jumps>>
vars == <<pc, stop, fileVars, fired, rfired, attach, timeVars, clockVars>>

AE_NONE == {}
AE_DELETED_EVENT_ID == -1
Forever == -1

\* The largest of finitely many numbers.
Highest(S) == CHOOSE n \in S : \A m \in S : m <= n

Fds == 0..(Highest(Sizes) - 1)

NoAttach == [step |-> "none", fd |-> 0, mask |-> {}, proc |-> NoProc]
NoUpdate == [j |-> -1, back |-> "before"]

------------------------------------------------------------------------------
(* Time *)

\* aeGetTime: seconds and milliseconds of the clock.
aeGetTime == [sec |-> now \div MsPerSec, ms |-> now % MsPerSec]

\* aeAddMillisecondsToNow: the milliseconds carry into the seconds.
aeAddMillisecondsToNow(d) ==
    LET ms == aeGetTime.ms + (d % MsPerSec)
        sec == aeGetTime.sec + (d \div MsPerSec)
    IN  IF ms >= MsPerSec THEN [sec |-> sec + 1, ms |-> ms - MsPerSec]
                          ELSE [sec |-> sec, ms |-> ms]

\* The order on times that aeSearchNearestTimer and processTimeEvents spell
\* out.
Before(a, b) == a.sec < b.sec \/ (a.sec = b.sec /\ a.ms < b.ms)

\* aeSearchNearestTimer: the earliest event of the list, deleted ones
\* included.
FaultyNearest == 1
aeSearchNearestTimer ==
    CHOOSE k \in DOMAIN timers :
        \A i \in DOMAIN timers : ~Before(timers[i].when, timers[k].when)

\* An event that is due makes the sleep as short as can be.
FaultyAtLeastZero(ms) == IF ms > 0 THEN ms ELSE Forever
AtLeastZero(ms) == IF ms > 0 THEN ms ELSE 0

\* How long aeProcessEvents wants to sleep ...
Delay ==
    IF timers = <<>> THEN Forever
    ELSE LET t == timers[aeSearchNearestTimer].when
         IN  AtLeastZero((t.sec - aeGetTime.sec) * MsPerSec
                            + t.ms - aeGetTime.ms)

\* ... and how long epoll_wait does: its argument is an int, and a negative one
\* means forever.
SleepTime(ms) == IF ToInt(ms) < 0 THEN Forever ELSE ToInt(ms)

------------------------------------------------------------------------------
(* The functions a handler, or beforesleep, may call *)

\* The loop's thread runs code of its client.
InHandler == pc \in {"before", "rcb", "wcb", "tcb", "fcb"}

\* What epoll_ctl requires: ADD of a new descriptor, MOD or DEL of a known one.
CtlSucceeds(fd) == (events[fd].mask = AE_NONE) <=> (interest[fd] = AE_NONE)

\* No handler knows a descriptor that another thread is still registering.
Known(fd) == attach.step = "none" \/ attach.fd # fd

\* aeApiAddEvent merges the new events with the old ones.
FaultyApiMask(fd, mask) == mask
ApiMask(fd, mask) == events[fd].mask \cup mask

\* aeApiDelEvent keeps the events that are not deleted (DEL if there are none).
ApiRest(fd, mask) == events[fd].mask \ mask

\* A handler for each direction, with those in mask set to proc.
With(procs, mask, proc) == [d \in Dirs |-> IF d \in mask THEN proc ELSE procs[d]]

\* The loop's thread has decided to store another maxfd, or looks for it.
Updating == pc \in {"scan", "store"}
Update(step, j) == pc' = step /\ update' = [j |-> j, back |-> pc]

aeCreateFileEvent(fd, mask, proc) ==
    /\ InHandler /\ fd < setsize /\ Known(fd) /\ CtlSucceeds(fd)
    /\ interest' = [interest EXCEPT ![fd] = ApiMask(fd, mask)]
    /\ events' = [events EXCEPT ![fd] = [mask |-> @.mask \cup mask,
                                        proc |-> With(@.proc, mask, proc)]]
    /\ wanted' = [wanted EXCEPT ![fd] = With(@, mask, proc)]
    /\ IF fd > maxfd THEN Update("store", fd) ELSE UNCHANGED <<pc, update>>
    /\ UNCHANGED <<stop, setsize, maxfd, race, fired, rfired, attach, timeVars,
                   clockVars>>

aeDeleteFileEvent(fd, mask) ==
    /\ InHandler /\ fd < setsize /\ Known(fd)
    /\ events[fd].mask # AE_NONE
    /\ events' = [events EXCEPT ![fd].mask = @ \ mask]
    /\ interest' = IF CtlSucceeds(fd)
                   THEN [interest EXCEPT ![fd] = ApiRest(fd, mask)]
                   ELSE interest
    /\ wanted' = [wanted EXCEPT ![fd] = With(@, mask, NoProc)]
    /\ IF fd = maxfd /\ events'[fd].mask = AE_NONE
       THEN Update("scan", maxfd - 1) ELSE UNCHANGED <<pc, update>>
    /\ UNCHANGED <<stop, setsize, maxfd, race, fired, rfired, attach, timeVars,
                   clockVars>>

\* The loop of aeDeleteFileEvent that looks for the new maxfd, slot by slot.
FaultyScanGoesOn == update.j > 0 /\ events[update.j].mask = AE_NONE
ScanGoesOn == update.j >= 0 /\ events[update.j].mask = AE_NONE

ScanMaxFd ==
    /\ pc = "scan"
    /\ IF ScanGoesOn THEN update' = [update EXCEPT !.j = @ - 1] /\ UNCHANGED pc
                     ELSE pc' = "store" /\ UNCHANGED update
    /\ UNCHANGED <<stop, tableVars, maxfd, race, fired, rfired, attach,
                   timeVars, clockVars>>

\* A thread stores or has stored its maxfd, and the other one is about to store
\* a lower one.
Race(lost) == race' = IF lost /\ race = "no" THEN "lost" ELSE race

StoreMaxFd ==
    /\ pc = "store"
    /\ maxfd' = update.j /\ pc' = update.back /\ update' = NoUpdate
    /\ Race(attach.step = "store" /\ attach.fd < update.j)
    /\ UNCHANGED <<stop, tableVars, fired, rfired, attach, timeVars, clockVars>>

\* No descriptor in use lies beyond the new size.
Fits(n) == maxfd < n

\* aeResizeSetSize, called between two iterations: realloc keeps the slots
\* that both sizes have, and the others are garbage until they are set.
aeResizeSetSize(n) ==
    /\ pc = "before" /\ attach.step = "none"
    /\ n # setsize /\ Fits(n)
    /\ LET kept == [i \in 0..(n - 1) |->
                      IF i < setsize THEN events[i]
                      ELSE [mask |-> Dirs, proc |-> [d \in Dirs |-> NoProc]]]
       IN  events' = [i \in 0..(n - 1) |->
                        IF i > maxfd THEN [kept[i] EXCEPT !.mask = AE_NONE]
                        ELSE kept[i]]
    /\ setsize' = n
    /\ race' = IF race = "no" THEN "no" ELSE "resized"
    /\ UNCHANGED <<pc, stop, maxfd, update, interest, wanted, fired, rfired,
                   attach, timeVars, clockVars>>

\* A new event becomes the head of the list.
Linked(te) == <<te>> \o timers

\* The list as the walk sees it moves by one; an event that a finalizer creates
\* while prev is NULL may be lost.
aeCreateTimeEvent(d) ==
    /\ InHandler /\ nextId < MaxTimers
    /\ timers' = Linked([node |-> nextId, id |-> nextId,
                        when |-> aeAddMillisecondsToNow(d)])
    /\ nextId' = nextId + 1
    /\ walk' = IF pc \notin {"tcb", "fcb"} THEN walk
               ELSE [walk EXCEPT !.te = @ + 1,
                        !.early = IF pc = "fcb" /\ walk.prevNull
                                  THEN @ \cup {nextId} ELSE @]
    /\ UNCHANGED <<pc, stop, fileVars, fired, rfired, attach, lastTime, gone,
                   leaked, ran, clockVars>>

\* aeDeleteTimeEvent only marks the event.
aeDeleteTimeEvent(k) ==
    /\ InHandler /\ timers[k].id # AE_DELETED_EVENT_ID
    /\ timers' = [timers EXCEPT ![k].id = AE_DELETED_EVENT_ID]
    /\ UNCHANGED <<pc, stop, fileVars, fired, rfired, attach, nextId,
                   lastTime, walk, gone, leaked, ran, clockVars>>

\* aeStop, which any thread may call.
aeStop ==
    /\ pc \notin {"done", "wrong"} /\ ~stop
    /\ stop' = TRUE
    /\ UNCHANGED <<pc, fileVars, fired, rfired, attach, timeVars, clockVars>>

Api ==
    \/ \E fd \in Fds, mask \in (SUBSET Dirs) \ {{}}, proc \in Procs :
          aeCreateFileEvent(fd, mask, proc)
    \/ \E fd \in Fds, mask \in (SUBSET Dirs) \ {{}} : aeDeleteFileEvent(fd, mask)
    \/ \E n \in Sizes : aeResizeSetSize(n)
    \/ \E d \in Delays : aeCreateTimeEvent(d)
    \/ \E k \in DOMAIN timers : aeDeleteTimeEvent(k)
    \/ aeStop

------------------------------------------------------------------------------
(* aeCreateFileEvent in another thread: epoll_ctl, then the mask, the      *)
(* handler, and maxfd, which is looked at before it is stored.             *)

Running == pc \notin {"done", "wrong"}

AttachCtl(fd, mask, proc) ==
    /\ Running
    /\ attach.step = "none" /\ fd < setsize /\ CtlSucceeds(fd)
    /\ interest' = [interest EXCEPT ![fd] = ApiMask(fd, mask)]
    /\ attach' = [step |-> "mask", fd |-> fd, mask |-> mask, proc |-> proc]
    /\ UNCHANGED <<pc, stop, setsize, events, maxfd, update, race, wanted, fired,
                   rfired, timeVars, clockVars>>

AttachMask ==
    /\ Running /\ attach.step = "mask"
    /\ events' = [events EXCEPT ![attach.fd].mask = @ \cup attach.mask]
    /\ wanted' = [wanted EXCEPT ![attach.fd] =
                    With(@, attach.mask, attach.proc)]
    /\ attach' = [attach EXCEPT !.step = "proc"]
    /\ UNCHANGED <<pc, stop, setsize, maxfd, update, race, interest, fired,
                   rfired, timeVars, clockVars>>

AttachProc ==
    /\ Running /\ attach.step = "proc"
    /\ events' = [events EXCEPT ![attach.fd].proc =
                    With(@, attach.mask, attach.proc)]
    /\ attach' = [NoAttach EXCEPT !.step = "maxfd", !.fd = attach.fd]
    /\ UNCHANGED <<pc, stop, setsize, maxfd, update, race, interest, wanted,
                   fired, rfired, timeVars, clockVars>>

\* The loop is about to lower maxfd below the new descriptor.
Lowering == Updating /\ update.j < attach.fd

AttachMaxFd ==
    /\ Running /\ attach.step = "maxfd"
    /\ IF attach.fd > maxfd
       THEN attach' = [attach EXCEPT !.step = "store"] /\ UNCHANGED race
       ELSE attach' = NoAttach /\ Race(Lowering)
    /\ UNCHANGED <<pc, stop, tableVars, maxfd, update, fired, rfired, timeVars,
                   clockVars>>

AttachStore ==
    /\ Running /\ attach.step = "store"
    /\ maxfd' = attach.fd /\ attach' = NoAttach
    /\ Race(Lowering)
    /\ UNCHANGED <<pc, stop, tableVars, update, fired, rfired, timeVars,
                   clockVars>>

Attach ==
    \/ \E fd \in Fds, mask \in AttachMasks, proc \in Procs :
          AttachCtl(fd, mask, proc)
    \/ AttachMask \/ AttachProc \/ AttachMaxFd \/ AttachStore

------------------------------------------------------------------------------
(* aeMain and the sleep *)

\* aeMain clears the flag before it looks at it.
MainStart ==
    /\ pc = "start"
    /\ stop' = FALSE
    /\ pc' = "check"
    /\ UNCHANGED <<fileVars, fired, rfired, attach, timeVars, clockVars>>

MainCheck ==
    /\ pc = "check"
    /\ pc' = IF stop THEN "done" ELSE "before"
    /\ UNCHANGED <<stop, fileVars, fired, rfired, attach, timeVars, clockVars>>

\* beforesleep returns, and aeProcessEvents goes to sleep.
Sleep ==
    /\ pc = "before"
    /\ delay' = Delay /\ timeout' = SleepTime(delay') /\ skipped' = FALSE
    /\ pc' = "poll"
    /\ UNCHANGED <<stop, fileVars, fired, rfired, attach, timeVars, now, jumps>>

\* Awake, what was the sleep is forgotten.
Awake == delay' = 0 /\ timeout' = 0 /\ skipped' = FALSE

\* What epoll may report of a descriptor it watches: EPOLLERR and EPOLLHUP
\* come unasked and count as writable.
Reported(fd) ==
    {m \in (SUBSET Dirs) \ {{}} : "readable" \in m => "readable" \in interest[fd]}

\* epoll_wait returns some of the watched descriptors, in any order.
aeApiPoll ==
    /\ pc = "poll"
    /\ \E ready \in (SUBSET {fd \in Fds : interest[fd] # AE_NONE}) \ {{}} :
       \E order \in SetToSeqs(ready), mask \in [ready -> SUBSET Dirs] :
          /\ \A fd \in ready : mask[fd] \in Reported(fd)
          /\ fired' = [i \in DOMAIN order |->
                         [fd |-> order[i], mask |-> mask[order[i]]]]
    /\ pc' = "file"
    /\ Awake
    /\ UNCHANGED <<stop, fileVars, rfired, attach, timeVars, now, jumps>>

\* The sleep is over ...
PollTimeout ==
    /\ pc = "poll" /\ timeout = 0
    /\ pc' = "file"
    /\ Awake
    /\ UNCHANGED <<stop, fileVars, fired, rfired, attach, timeVars, now, jumps>>

\* ... or a signal cuts it short.
PollInterrupted ==
    /\ pc = "poll" /\ timeout # 0
    /\ pc' = "file"
    /\ Awake
    /\ UNCHANGED <<stop, fileVars, fired, rfired, attach, timeVars, now, jumps>>

------------------------------------------------------------------------------
(* The fired descriptors *)

\* A handler is called.  The call goes "wrong" if the field read is not the
\* handler that the direction was registered with.
Call(fd, d, where) ==
    pc' = IF events[fd].proc[d] = wanted[fd][d] THEN where ELSE "wrong"

\* The directions of the current entry that fired and are still registered.
FaultyValid == Head(fired).mask
Valid == events[Head(fired).fd].mask \cap Head(fired).mask

\* A descriptor beyond the table is a read beyond the array.
FileRead ==
    /\ pc = "file" /\ fired # <<>>
    /\ IF Head(fired).fd >= setsize THEN pc' = "wrong" /\ UNCHANGED rfired
       ELSE IF "readable" \in Valid
       THEN rfired' = TRUE /\ Call(Head(fired).fd, "readable", "rcb")
       ELSE rfired' = FALSE /\ pc' = "write"
    /\ UNCHANGED <<stop, fileVars, fired, attach, timeVars, clockVars>>

ReadReturn ==
    /\ pc = "rcb"
    /\ pc' = "write"
    /\ UNCHANGED <<stop, fileVars, fired, rfired, attach, timeVars, clockVars>>

\* The second call is skipped if the same handler serves both directions.
FileWrite ==
    /\ pc = "write"
    /\ LET fd == Head(fired).fd
           proc == events[fd].proc
       IN  IF /\ "writable" \in Valid
              /\ ~rfired \/ proc["writable"] # proc["readable"]
           THEN Call(fd, "writable", "wcb") /\ UNCHANGED fired
           ELSE pc' = "file" /\ fired' = Tail(fired)
    /\ rfired' = FALSE
    /\ UNCHANGED <<stop, fileVars, attach, timeVars, clockVars>>

WriteReturn ==
    /\ pc = "wcb"
    /\ pc' = "file"
    /\ fired' = Tail(fired)
    /\ UNCHANGED <<stop, fileVars, rfired, attach, timeVars, clockVars>>

------------------------------------------------------------------------------
(* processTimeEvents *)

\* Outside processTimeEvents its variables do not exist.
NoWalk == [te |-> 1, prevNull |-> TRUE, maxId |-> -1, skew |-> FALSE,
           early |-> {}]

\* A clock that went backwards makes every event due at once.
FaultyForced(te) == te
Forced(te) == [te EXCEPT !.when.sec = 0]

WalkStart ==
    /\ pc = "file" /\ fired = <<>>
    /\ LET skew == aeGetTime.sec < lastTime
       IN  /\ timers' = IF skew
                        THEN [k \in DOMAIN timers |-> Forced(timers[k])]
                        ELSE timers
           /\ walk' = [te |-> 1, prevNull |-> TRUE, maxId |-> nextId - 1,
                       skew |-> skew, early |-> {}]
    /\ lastTime' = aeGetTime.sec
    /\ ran' = {}
    /\ pc' = "timers"
    /\ UNCHANGED <<stop, fileVars, fired, rfired, attach, nextId, gone, leaked,
                   clockVars>>

AtEvent == pc = "timers" /\ walk.te \in DOMAIN timers

\* With prev NULL the list is made to start behind the event, otherwise prev
\* is linked to what follows it.
FaultyUnlinked == SubSeq(timers, walk.te + 1, Len(timers))
Unlinked == IF walk.prevNull THEN SubSeq(timers, walk.te + 1, Len(timers))
                             ELSE RemoveAt(timers, walk.te)

\* An event marked as deleted is unlinked, finalized and freed.  With prev NULL
\* the events that an earlier finalizer put in front of it are lost.
WalkRemove ==
    /\ AtEvent /\ timers[walk.te].id = AE_DELETED_EVENT_ID
    /\ timers' = Unlinked
    /\ walk' = IF walk.prevNull THEN [walk EXCEPT !.te = 1, !.early = {}] ELSE walk
    /\ leaked' = IF walk.prevNull THEN leaked \cup walk.early ELSE leaked
    /\ gone' = gone \cup {timers[walk.te].node}
    /\ pc' = "fcb"
    /\ UNCHANGED <<stop, fileVars, fired, rfired, attach, nextId, lastTime, ran,
                   clockVars>>

FinalizerReturn ==
    /\ pc = "fcb"
    /\ pc' = "timers"
    /\ UNCHANGED <<stop, fileVars, fired, rfired, attach, timeVars, clockVars>>

\* Any other event is called if it is due and not newer than the walk.
WalkVisit ==
    /\ AtEvent /\ timers[walk.te].id # AE_DELETED_EVENT_ID
    /\ LET te == timers[walk.te]
       IN  IF te.id <= walk.maxId /\ ~Before(aeGetTime, te.when)
           THEN /\ pc' = "tcb" /\ ran' = ran \cup {te.node}
                /\ UNCHANGED walk
           ELSE /\ walk' = [walk EXCEPT !.te = @ + 1,
                               !.prevNull = @ /\ te.id > walk.maxId]
                /\ UNCHANGED <<pc, ran>>
    /\ UNCHANGED <<stop, fileVars, fired, rfired, attach, timers, nextId,
                   lastTime, gone, leaked, clockVars>>

\* The handler returns its next delay ...
TimeProcAgain(d) ==
    /\ pc = "tcb"
    /\ timers' = [timers EXCEPT ![walk.te].when = aeAddMillisecondsToNow(d)]
    /\ walk' = [walk EXCEPT !.te = @ + 1, !.prevNull = FALSE]
    /\ pc' = "timers"
    /\ UNCHANGED <<stop, fileVars, fired, rfired, attach, nextId, lastTime,
                   gone, leaked, ran, clockVars>>

\* ... or AE_NOMORE.
TimeProcNoMore ==
    /\ pc = "tcb"
    /\ timers' = [timers EXCEPT ![walk.te].id = AE_DELETED_EVENT_ID]
    /\ walk' = [walk EXCEPT !.te = @ + 1, !.prevNull = FALSE]
    /\ pc' = "timers"
    /\ UNCHANGED <<stop, fileVars, fired, rfired, attach, nextId, lastTime,
                   gone, leaked, ran, clockVars>>

WalkEnd ==
    /\ pc = "timers" /\ walk.te \notin DOMAIN timers
    /\ pc' = "check"
    /\ walk' = NoWalk /\ ran' = {}
    /\ UNCHANGED <<stop, fileVars, fired, rfired, attach, timers, nextId,
                   lastTime, gone, leaked, clockVars>>

------------------------------------------------------------------------------
(* The clock *)

\* A millisecond passes.
Tick ==
    /\ Running
    /\ now < MaxTime \/ timeout > 0
    /\ now' = IF now < MaxTime THEN now + 1 ELSE now
    /\ timeout' = IF timeout > 0 THEN timeout - 1 ELSE timeout
    /\ UNCHANGED <<pc, stop, fileVars, fired, rfired, attach, timeVars, delay,
                   skipped, jumps>>

\* The system's clock is set, back or forward, never to before its first second.
\* A sleep lasts as long as it would have.
SetClock(t) ==
    /\ Running /\ jumps < MaxJumps
    /\ t # now
    /\ now' = t
    /\ jumps' = jumps + 1
    /\ skipped' = (skipped \/ (pc = "poll" /\ t > now))
    /\ UNCHANGED <<pc, stop, fileVars, fired, rfired, attach, timeVars, delay,
                   timeout>>

\* The program ended, or called what is not a handler.
Over ==
    /\ pc \in {"done", "wrong"}
    /\ UNCHANGED vars

------------------------------------------------------------------------------

\* aeCreateEventLoop
Init ==
    /\ pc = "start" /\ stop = FALSE
    /\ setsize \in Sizes
    /\ events = [fd \in 0..(setsize - 1) |->
                   [mask |-> AE_NONE, proc |-> [d \in Dirs |-> NoProc]]]
    /\ maxfd = -1 /\ update = NoUpdate /\ race = "no"
    /\ interest = [fd \in Fds |-> AE_NONE]
    /\ wanted = [fd \in Fds |-> [d \in Dirs |-> NoProc]]
    /\ fired = <<>> /\ rfired = FALSE /\ attach = NoAttach
    /\ timers = <<>> /\ nextId = 0
    /\ walk = NoWalk
    /\ now = MsPerSec /\ lastTime = now \div MsPerSec
    /\ delay = 0 /\ timeout = 0 /\ jumps = 0 /\ skipped = FALSE
    /\ gone = {} /\ leaked = {} /\ ran = {}

LoopStep ==
    \/ MainStart \/ MainCheck \/ Sleep \/ PollTimeout
    \/ FileRead \/ FileWrite \/ ScanMaxFd \/ StoreMaxFd
    \/ WalkStart \/ WalkRemove \/ WalkVisit \/ WalkEnd

HandlerReturn ==
    \/ ReadReturn \/ WriteReturn \/ FinalizerReturn \/ TimeProcNoMore
    \/ \E d \in Delays : TimeProcAgain(d)

Next ==
    \/ LoopStep \/ HandlerReturn \/ aeApiPoll \/ PollInterrupted
    \/ Api \/ Attach
    \/ Tick \/ \E t \in MsPerSec..MaxTime : SetClock(t)
    \/ Over

Spec == Init /\ [][Next]_vars

\* The loop's thread runs, its handlers return, and time passes.
Fairness == WF_vars(LoopStep) /\ WF_vars(HandlerReturn) /\ WF_vars(Tick)

FairSpec == Spec /\ Fairness

------------------------------------------------------------------------------
(* Correctness *)

\* The registration another thread has not finished.
Attaching(fd) == attach.step # "none" /\ attach.fd = fd

\* maxfd is the highest descriptor registered, or -1, through every sequence of
\* registrations, deletions and resizes, but for a registration that another
\* thread has begun and not finished, and for the time the loop's thread takes to
\* store a new one.  After a store that overtook a higher one of the other thread
\* it may stay too low: the loop takes no lock.
MaxFdExact ==
    race = "no" /\ ~Updating =>
        /\ maxfd # -1 => events[maxfd].mask # AE_NONE
        /\ \A fd \in 0..(setsize - 1) :
              events[fd].mask # AE_NONE => fd <= maxfd \/ Attaching(fd)

\* epoll watches exactly what the slots say (aeApiAddEvent and aeApiDelEvent
\* against fe->mask), also for descriptors beyond a set size that was reduced,
\* unless the set was resized by a maxfd that is too low.
EpollMatches ==
    race # "resized" =>
        \A fd \in Fds :
            interest[fd] =
                (IF fd < setsize THEN events[fd].mask ELSE AE_NONE)
                    \cup (IF Attaching(fd) THEN attach.mask ELSE {})

\* A fired event whose registration was deleted, changed or renewed by an
\* earlier handler is never delivered to a handler other than the one
\* registered last; only a registration that another thread has half done, or a
\* set resized by a maxfd that is too low, can make the loop call a stale or
\* uninitialised handler.
CallsRegistered ==
    pc = "wrong" =>
        race = "resized" \/ (attach.step = "proc" /\ attach.fd = Head(fired).fd)

\* The nodes of the time events on the list.
Listed == {timers[k].node : k \in DOMAIN timers}

\* Every time event that was created is on the list, once, or was finalized and
\* freed, or is lost, and only one of these, whatever handlers and finalizers
\* create and delete during a walk.  Lost are exactly the events that a finalizer
\* created while prev was NULL if the walk then removed another event before it
\* had passed one (leaked).  And the walk never meets an event created since it
\* began ("This check is currently useless"), so no event runs twice in a walk or
\* in the walk that created it.
TimersAccounted ==
    /\ Listed \cup gone \cup leaked = 0..(nextId - 1)
    /\ Listed \cap (gone \cup leaked) = {} /\ gone \cap leaked = {}
    /\ \A i, j \in DOMAIN timers : timers[i].node = timers[j].node => i = j
    /\ AtEvent => /\ timers[walk.te].id <= walk.maxId
                  /\ timers[walk.te].node \notin ran

\* The loop never sleeps past the due time of an event that is not deleted, unless
\* the delay does not fit the int that epoll_wait takes, which makes it sleep
\* forever, or the clock is set forward during the sleep.
NeverOversleeps ==
    pc = "poll" /\ delay <= IntMax => \A k \in DOMAIN timers :
        LET t == timers[k].when.sec * MsPerSec + timers[k].when.ms
        IN  /\ timeout # Forever
            /\ timeout > 0 /\ timers[k].id # AE_DELETED_EVENT_ID /\ ~skipped
                  => now + timeout <= t

\* Once processTimeEvents has seen the clock go backwards, it runs every event
\* it passes in that walk.
SkewForcesAll ==
    walk.skew => \A k \in DOMAIN timers :
        k < walk.te /\ timers[k].node <= walk.maxId => timers[k].node \in ran

\* The loop sleeps forever over a delay that no int holds.
Overslept == <>[](pc = "poll" /\ delay > IntMax)

\* A stop requested while the loop runs ends aeMain even if no descriptor ever
\* becomes ready, as long as a time event stays on the list to wake it (the
\* client's 1 ms clientCron), and its delay fits an int.
StopEnds ==
    \/ []<>(timers = <<>>)
    \/ Overslept
    \/ stop /\ pc # "start" ~> pc = "done"

\* A time event on the list and due before the clock's bound is run or deleted,
\* unless the loop is stopped first or sleeps over a delay that no int holds,
\* whatever is created, deleted or fired meanwhile.
Pending(n) ==
    \E k \in DOMAIN timers :
        /\ timers[k].node = n /\ timers[k].id # AE_DELETED_EVENT_ID
        /\ timers[k].when.sec * MsPerSec + timers[k].when.ms <= MaxTime
TimersRun ==
    \/ Overslept
    \/ \A n \in 0..(MaxTimers - 1) :
          Pending(n) ~> n \in ran \/ ~Pending(n) \/ pc \in {"done", "wrong"}
==============================================================================
