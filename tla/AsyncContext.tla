---------------------------- MODULE AsyncContext ----------------------------
(***************************************************************************)
(* The asynchronous context of src/async.c on one connection: commands and *)
(* their callbacks, publish/subscribe with the dictionaries of callbacks,  *)
(* MONITOR, the clean disconnect and the free, driven by an event library  *)
(* through any of the adapters of src/adapters.                            *)
(*                                                                         *)
(* A callback is the number of the command it was given with, 0 the empty  *)
(* callback. A topic is <<p, name>>, p telling patterns from channels. The *)
(* server and the network are external: they answer commands in order,     *)
(* publish, cut what is sent and received anywhere, and may break.         *)
(***************************************************************************)
EXTENDS Naturals, Sequences, FiniteSets, SequencesExt, Dict, EventAdapters

CONSTANTS
    Topics,     \* set of <<BOOLEAN, Nat>>: what may be subscribed to
    Ops,        \* the commands in use, a subset of the four below
    MaxCmds,    \* for each adapter, bound on the commands accepted, and on the
                \* callbacks pushed again by reads without a reply in monitor mode
    MaxPushed   \* bound on the messages pushed by the server

ASSUME OpsAssumption == Ops \subseteq {"get", "subscribe", "unsubscribe", "monitor"}
ASSUME TopicAssumption == Topics \subseteq BOOLEAN \X Nat

VARIABLES
    adapter, ev,        \* the adapter and its state (ac->ev)
    mem,                \* "live" or "freed"
    flags,              \* c->flags
    replies, invalid,   \* ac->replies and ac->sub.invalid
    sub,                \* ac->sub.patterns (TRUE) and ac->sub.channels (FALSE)
    obuf, rbuf,         \* commands not yet sent, replies read and not yet handled
    todo,               \* handlers the adapter has still to call in this dispatch
    phase, cb,          \* redisProcessCallbacks is running, its local variable cb
    net,                \* the connection: "connecting", "up", "broken"
    wire, inbox,        \* commands and replies under way
    server,             \* what the server keeps of this client
    cmds,               \* the commands accepted so far
    runs,               \* how often the callback of each command was called
    seen                \* events of the past that the properties refer to

context == <<mem, flags, replies, invalid, sub, obuf, rbuf, phase, cb, runs>>
peer == <<net, wire, inbox, server>>
vars == <<adapter, ev, context, todo, peer, cmds, seen>>

Command(op, topic) == [op |-> op, topic |-> topic]
NoTopic == <<FALSE, 0>>

\* redisAsyncConnect, redisAsyncInitialize, the attach of the adapter and
\* redisAsyncSetConnectCallback, which asks for the first write event.
Init ==
    /\ adapter \in Adapters
    /\ ev = Add(adapter, Attach(adapter), "write")
    /\ mem = "live" /\ flags = {}
    /\ replies = << >> /\ invalid = << >>
    /\ sub = [p \in BOOLEAN |-> dictCreate]
    /\ obuf = << >> /\ rbuf = << >> /\ todo = << >>
    /\ phase = "idle" /\ cb = 0
    /\ net = "connecting" /\ wire = << >> /\ inbox = << >>
    /\ server = [topics |-> {}, monitor |-> FALSE, pushed |-> 0]
    /\ cmds = << >> /\ runs = << >> /\ seen = {}

-----------------------------------------------------------------------------
(* Callbacks *)

\* Counts are kept up to two.
Called(r, s) ==
    [i \in DOMAIN r |-> IF i \in ToSet(s)
       THEN (IF r[i] + Cardinality({j \in DOMAIN s : s[j] = i}) > 1 THEN 2 ELSE 1)
       ELSE r[i]]

Values(ht) == [i \in DOMAIN dictEntries(ht) |-> dictEntries(ht)[i].val]

\* __redisAsyncFree: every callback still registered is called without a
\* reply, the adapter is cleaned up, the context is gone. Commands issued by
\* these callbacks are refused, for FREEING or DISCONNECTING is set.
FaultyPending == replies \o Values(sub[FALSE]) \o Values(sub[TRUE])
Pending == replies \o invalid \o Values(sub[FALSE]) \o Values(sub[TRUE])

asyncFree ==
    /\ runs' = Called(runs, Pending)
    /\ mem' = "freed"
    /\ ev' = Cleanup(adapter, ev)
    /\ replies' = << >> /\ invalid' = << >> /\ rbuf' = << >> /\ obuf' = << >>
    /\ sub' = [p \in BOOLEAN |-> dictCreate]
    /\ phase' = "idle" /\ cb' = 0

\* __redisAsyncDisconnect. A clean disconnect asserts that there are no
\* pending callbacks.
asyncDisconnect(error) ==
    /\ asyncFree
    /\ flags' = flags \cup {"DISCONNECTING"}
    /\ seen' = seen \cup (IF error \/ replies = << >> THEN {} ELSE {"assert"})

-----------------------------------------------------------------------------
(* The API: __redisAsyncCommand, redisAsyncDisconnect, redisAsyncFree *)

\* What the application does that the context copes with badly: unsubscribe
\* from a topic it has no callback for; subscribe before an unsubscribe was
\* answered; send an ordinary command while it is subscribed; use one context
\* for MONITOR and for something else.
Unsubscribing ==
    \/ \E i \in ToSet(obuf \o wire) : cmds[i].op = "unsubscribe"
    \/ \E r \in ToSet(rbuf \o inbox) : r.kind = "unsubscribe"
Oddities(op, topic) ==
    (IF op = "unsubscribe" /\ (\/ ~dictHas(sub[topic[1]], topic[2])
                               \/ Contains(cmds, Command("unsubscribe", topic)))
       THEN {"stray"} ELSE {})
    \cup (IF op = "subscribe" /\ Unsubscribing THEN {"hasty"} ELSE {})
    \cup (IF op = "get" /\ "SUBSCRIBED" \in flags THEN {"mixed"} ELSE {})
    \cup (IF "MONITORING" \in flags \/ (op = "monitor" /\ cmds # << >>)
            THEN {"shared"} ELSE {})

\* The application calls the API between two dispatches of the event library,
\* or from a callback: cb # 0 just after one.
InCallback == phase = "process" /\ cb # 0
Outside == phase = "idle" /\ todo = << >>

Refuses(op) ==
    \/ flags \cap {"DISCONNECTING", "FREEING"} # {}
    \/ op = "unsubscribe" /\ "SUBSCRIBED" \notin flags

redisAsyncCommand(op, topic) ==
    LET id == Len(cmds) + 1 IN
    /\ mem = "live" /\ (Outside \/ InCallback)
    /\ Len(cmds) < MaxCmds[adapter] /\ ~Refuses(op)
    /\ cmds' = Append(cmds, Command(op, topic))
    /\ runs' = Append(runs, 0)
    /\ seen' = seen \cup Oddities(op, topic)
    /\ flags' = flags \cup (CASE op = "subscribe" -> {"SUBSCRIBED"}
                              [] op = "monitor" -> {"MONITORING"}
                              [] OTHER -> {})
    /\ sub' = IF op = "subscribe"
                THEN [sub EXCEPT ![topic[1]] = dictReplace(@, topic[2], id)] ELSE sub
    /\ invalid' = IF op = "get" /\ "SUBSCRIBED" \in flags
                    THEN Append(invalid, id) ELSE invalid
    /\ replies' = IF op = "monitor" \/ (op = "get" /\ "SUBSCRIBED" \notin flags)
                    THEN Append(replies, id) ELSE replies
    /\ obuf' = Append(obuf, id)
    /\ ev' = Add(adapter, ev, "write")
    /\ UNCHANGED <<adapter, mem, rbuf, todo, phase, cb, peer>>

\* Outside a callback the context goes at once when nothing is pending. Faulty:
\* it goes whatever is pending; it always waits for redisProcessCallbacks.
FaultyIdle == TRUE
FaultyDeferred == FALSE
Idle == replies = << >>

redisAsyncDisconnect ==
    /\ mem = "live" /\ Outside
    /\ "DISCONNECTING" \notin flags
    /\ IF Idle
         THEN asyncDisconnect(FALSE)
         ELSE /\ flags' = flags \cup {"DISCONNECTING"}
              /\ UNCHANGED <<ev, mem, replies, invalid, sub, obuf, rbuf, phase, cb, runs, seen>>
    /\ UNCHANGED <<adapter, todo, peer, cmds>>

redisAsyncFree ==
    /\ mem = "live" /\ Outside
    /\ flags' = flags \cup {"FREEING"}
    /\ asyncFree
    /\ UNCHANGED <<adapter, todo, peer, cmds, seen>>

-----------------------------------------------------------------------------
(* The event library reports events; the adapter calls the handlers *)

Ready(what) ==
    \/ net = "broken"
    \/ net = "up" /\ (what = "write" \/ inbox # << >>)

\* A mask adapter gets both events in one dispatch, the others one by one.
dispatch ==
    /\ phase = "idle" /\ todo = << >>
    /\ \E fired \in SUBSET ev.armed :
         /\ fired # {} /\ \A what \in fired : Ready(what)
         /\ adapter.style = "mask" \/ Cardinality(fired) = 1
         /\ ev' = Fire(adapter, ev, fired)
         /\ todo' = Handlers(adapter, fired)
    /\ UNCHANGED <<adapter, context, peer, cmds, seen>>

\* On a socket error libuv stops the handle and reports the error instead of
\* events; redisLibuvPoll returns without a call of a handler.
pollError ==
    /\ adapter = libuv /\ phase = "idle" /\ todo = << >>
    /\ net = "broken" /\ ev.armed # {}
    /\ ev' = [ev EXCEPT !.armed = {}]
    /\ seen' = seen \cup {"pollError"}
    /\ UNCHANGED <<adapter, context, todo, peer, cmds>>

Handler(what) == phase = "idle" /\ todo # << >> /\ Head(todo) = what

\* The rest of the dispatch after the context was freed.
dispatchRest ==
    /\ mem = "freed" /\ todo # << >>
    /\ todo' = << >>
    /\ seen' = IF adapter.checks THEN seen ELSE seen \cup {"useAfterFree"}
    /\ UNCHANGED <<adapter, ev, context, peer, cmds>>

\* The first event of a connection tells whether it was established
\* (__redisAsyncHandleConnect); a broken one fails when it is used.
Established == net = "up"
FlagsAfterConnect == flags \cup {"CONNECTED"}

Failed ==
    /\ asyncDisconnect(TRUE)
    /\ UNCHANGED <<adapter, peer, cmds>>

\* redisAsyncHandleRead: any part of what has arrived is read; a reply cut in
\* two is the rest of inbox.
redisAsyncHandleRead ==
    /\ Handler("read") /\ mem = "live"
    /\ todo' = Tail(todo)
    /\ \/ net = "broken" /\ inbox = << >> /\ Failed
       \/ /\ Established \/ inbox # << >>
          /\ \E k \in 0..Len(inbox) :
               /\ k = 0 /\ "MONITORING" \in flags => Len(replies) < MaxCmds[adapter]
               /\ rbuf' = SubSeq(inbox, 1, k)
               /\ inbox' = SubSeq(inbox, k + 1, Len(inbox))
               /\ seen' = IF k = 0 /\ "MONITORING" \in flags
                            THEN seen \cup {"partial"} ELSE seen
          /\ ev' = Add(adapter, ev, "read")
          /\ flags' = FlagsAfterConnect
          /\ phase' = "process" /\ cb' = 0
          /\ UNCHANGED <<adapter, mem, replies, invalid, sub, obuf, runs, net, wire,
                         server, cmds>>

\* redisAsyncHandleWrite: the kernel takes any part of the output. Faulty: the
\* write event is dropped with output left.
FaultyRearm(rest) == Del(adapter, ev, "write")
Rearm(rest) ==
    IF rest = << >> THEN Del(adapter, ev, "write") ELSE Add(adapter, ev, "write")

redisAsyncHandleWrite ==
    /\ Handler("write") /\ mem = "live"
    /\ todo' = Tail(todo)
    /\ \/ net = "broken" /\ Failed
       \/ /\ Established
          /\ \E k \in 0..Len(obuf) :
               LET rest == SubSeq(obuf, k + 1, Len(obuf)) IN
               /\ wire' = wire \o SubSeq(obuf, 1, k)
               /\ obuf' = rest
               /\ ev' = Add(adapter, Rearm(rest), "read")
          /\ flags' = FlagsAfterConnect
          /\ UNCHANGED <<adapter, mem, replies, invalid, sub, rbuf, phase, cb, runs, net,
                         inbox, server, cmds, seen>>

-----------------------------------------------------------------------------
(* redisProcessCallbacks, one reply a step *)

\* No more replies: disconnect, push the monitor callback again, or stop.
processEnd ==
    /\ phase = "process" /\ rbuf = << >>
    /\ IF "DISCONNECTING" \in flags /\ obuf = << >> /\ replies = << >>
         THEN asyncDisconnect(FALSE)
         ELSE /\ replies' = IF "MONITORING" \in flags THEN Append(replies, cb) ELSE replies
              /\ phase' = "idle" /\ cb' = 0
              /\ UNCHANGED <<ev, mem, flags, invalid, sub, obuf, rbuf, runs, seen>>
    /\ UNCHANGED <<adapter, todo, peer, cmds>>

\* Where the callback of a reply comes from, in this order. Faulty: a
\* subscribed context does not look for regular callbacks first.
FaultyRegular(r) == replies # << >> /\ "SUBSCRIBED" \notin flags
Regular(r) == replies # << >>
Spontaneous(r) == ~Regular(r) /\ r.type = "error"
Unexpected(r) == ~Regular(r) /\ ~Spontaneous(r) /\ flags \cap {"SUBSCRIBED", "MONITORING"} = {}

\* __redisGetSubscribeCallback leaves cb alone when it finds no callback.
Callbacks(r) == sub[r.topic[1]]
Found(r) ==
    IF Regular(r) THEN Head(replies)
    ELSE IF "SUBSCRIBED" \notin flags THEN cb
    ELSE IF r.type = "array"
      THEN IF dictHas(Callbacks(r), r.topic[2]) THEN dictFind(Callbacks(r), r.topic[2]) ELSE cb
      ELSE IF invalid # << >> THEN Head(invalid) ELSE cb

Unsubscribes(r) ==
    /\ ~Regular(r) /\ "SUBSCRIBED" \in flags
    /\ r.kind = "unsubscribe" /\ dictHas(Callbacks(r), r.topic[2])

\* The reply is for this callback: it answers its command, or comes from a
\* topic or a monitor the command asked for.
Meant(r, id) ==
    \/ r.id = id
    \/ id # 0 /\ r.type = "array" /\ cmds[id] = Command("subscribe", r.topic)
    \/ id # 0 /\ r.kind = "monitor" /\ cmds[id].op = "monitor"

processError ==
    /\ phase = "process" /\ rbuf # << >> /\ Spontaneous(Head(rbuf))
    /\ Failed
    /\ UNCHANGED todo

processAbort ==
    /\ phase = "process" /\ rbuf # << >> /\ Unexpected(Head(rbuf))
    /\ mem' = "aborted" /\ phase' = "idle" /\ todo' = << >>
    /\ seen' = seen \cup {"assert"}
    /\ UNCHANGED <<adapter, ev, flags, replies, invalid, sub, obuf, rbuf, cb, runs, peer, cmds>>

\* The callback runs; it may call redisAsyncDisconnect or redisAsyncFree, which
\* only set a flag there.
processReply ==
    /\ phase = "process" /\ rbuf # << >>
    /\ LET r == Head(rbuf)
           id == Found(r)
           noted == seen \cup (IF id = 0 THEN {"dropped"}
                               ELSE IF Meant(r, id) THEN {} ELSE {"wrong"})
           subNow == IF Unsubscribes(r)
                       THEN [sub EXCEPT ![r.topic[1]] = dictDelete(@, r.topic[2])] ELSE sub
           ended == IF Unsubscribes(r) /\ r.n = 0 THEN {"SUBSCRIBED"} ELSE {}
       IN
       /\ ~Spontaneous(r) /\ ~Unexpected(r)
       /\ cb' = id
       /\ rbuf' = Tail(rbuf)
       /\ seen' = noted
       /\ sub' = subNow
       /\ replies' = IF Regular(r) THEN Tail(replies) ELSE replies
       /\ invalid' = IF ~Regular(r) /\ "SUBSCRIBED" \in flags /\ r.type # "array"
                          /\ invalid # << >>
                       THEN Tail(invalid) ELSE invalid
       /\ runs' = Called(runs, <<id>>)
       /\ \E asked \in {{}} \cup (IF id = 0 THEN {} ELSE {{"DISCONNECTING"}, {"FREEING"}}) :
            flags' = (flags \ ended) \cup asked
       /\ phase' = IF "FREEING" \in flags' THEN "free" ELSE "process"
    /\ UNCHANGED <<adapter, ev, mem, obuf, todo, peer, cmds>>

\* Back from a callback that called redisAsyncFree.
processFree ==
    /\ phase = "free"
    /\ asyncFree
    /\ UNCHANGED <<adapter, flags, todo, peer, cmds, seen>>

-----------------------------------------------------------------------------
(* External: the network and the server, as long as there is a context *)

connected ==
    /\ mem = "live" /\ net = "connecting" /\ net' = "up"
    /\ UNCHANGED <<adapter, ev, context, todo, wire, inbox, server, cmds, seen>>

broken ==
    /\ mem = "live" /\ net # "broken" /\ net' = "broken"
    /\ UNCHANGED <<adapter, ev, context, todo, wire, inbox, server, cmds, seen>>

Reply(type, kind, topic, n, id) ==
    [type |-> type, kind |-> kind, topic |-> topic, n |-> n, id |-> id]

execute ==
    /\ mem = "live" /\ wire # << >> /\ net = "up"
    /\ LET id == Head(wire)
           c == cmds[id]
           topicsNow == CASE c.op = "subscribe" -> server.topics \cup {c.topic}
                          [] c.op = "unsubscribe" -> server.topics \ {c.topic}
                          [] OTHER -> server.topics
           n == Cardinality(topicsNow)
       IN
       /\ wire' = Tail(wire)
       /\ server' = [server EXCEPT !.topics = topicsNow,
                                   !.monitor = @ \/ c.op = "monitor"]
       /\ inbox' = Append(inbox,
            CASE c.op \in {"subscribe", "unsubscribe"} -> Reply("array", c.op, c.topic, n, id)
              [] OTHER -> Reply(IF server.topics = {} THEN "string" ELSE "error",
                                c.op, NoTopic, 0, id))
    /\ UNCHANGED <<adapter, ev, context, todo, net, cmds, seen>>

push ==
    /\ server.pushed < MaxPushed /\ net = "up" /\ mem = "live"
    /\ server' = [server EXCEPT !.pushed = @ + 1]
    /\ \/ \E t \in server.topics : inbox' = Append(inbox, Reply("array", "message", t, 0, 0))
       \/ /\ server.monitor
          /\ inbox' = Append(inbox, Reply("string", "monitor", NoTopic, 0, 0))
    /\ UNCHANGED <<adapter, ev, context, todo, net, wire, cmds, seen>>

-----------------------------------------------------------------------------
Handling ==
    \/ dispatch \/ dispatchRest \/ pollError \/ redisAsyncHandleRead
    \/ redisAsyncHandleWrite \/ processEnd \/ processError \/ processAbort \/ processReply \/ processFree

Next ==
    \/ \E op \in Ops \cap {"get", "monitor"} : redisAsyncCommand(op, NoTopic)
    \/ \E op \in Ops \cap {"subscribe", "unsubscribe"}, t \in Topics : redisAsyncCommand(op, t)
    \/ redisAsyncDisconnect \/ redisAsyncFree
    \/ Handling
    \/ connected \/ broken \/ execute \/ push

Spec == Init /\ [][Next]_vars

-----------------------------------------------------------------------------
(* Properties *)

Settled == phase = "idle" /\ todo = << >> /\ mem = "live"

\* The callback of an ordinary command that was accepted is called exactly
\* once, with the reply or with NULL when the context goes, and it is on one
\* of the lists until then; also when it was sent on a subscribed context, but
\* not when the application unsubscribed from a topic without a callback,
\* subscribed before an unsubscribe was answered (the reply to the subscribe
\* may then find no callback and call the one before it again) or shared the
\* context with MONITOR.
CalledOnce ==
    seen \cap {"stray", "hasty", "shared"} # {} \/
    \A id \in DOMAIN cmds : cmds[id].op = "get" =>
        /\ runs[id] <= 1
        /\ mem = "freed" => runs[id] = 1
        /\ mem = "live" => (runs[id] = 0 <=> Contains(replies \o invalid, id))

\* A reply reaches a callback it is meant for, and none is dropped, unless the
\* application unsubscribed from a topic without a callback, mixed the uses of
\* the context, or a read in monitor mode ended inside a reply.
ReplyReachesItsCallback ==
    seen \cap {"wrong", "dropped"} # {} => seen \cap {"stray", "hasty", "mixed", "shared", "partial"} # {}

\* The assertions of async.c hold unless the application unsubscribed from a
\* topic without a callback or twice ("stray"), subscribed before an unsubscribe
\* was answered ("hasty"), sent an ordinary command on a subscribed context
\* ("mixed"), or used one context for MONITOR and something else ("shared").
AssertionsHold == "assert" \in seen => seen \cap {"stray", "hasty", "mixed", "shared"} # {}

\* With every adapter: output that waits has the write event armed, a connected
\* context waits for replies, and one not yet connected for the result. The
\* exception is libuv, which disarms everything when it reports an error of the
\* socket: nothing is armed from then on, and no handler learns of the error,
\* until the next command starts the handle again.
EventsArmed ==
    Settled =>
      \/ /\ obuf # << >> => "write" \in ev.armed
         /\ "CONNECTED" \in flags => "read" \in ev.armed
         /\ "CONNECTED" \notin flags => "write" \in ev.armed
      \/ adapter = libuv /\ "pollError" \in seen /\ ev.armed = {}

\* A disconnect that redisAsyncDisconnect left to redisProcessCallbacks is not
\* forgotten: while the context is there, a command or a reply is under way
\* whose handling ends it. In monitor mode only the next line does.
DisconnectDeferred ==
    Settled /\ "DISCONNECTING" \in flags =>
      \/ obuf \o wire # << >> \/ inbox # << >>
      \/ "MONITORING" \in flags

\* Both dictionaries are well-formed and find a callback for every topic the
\* server will send messages of, unless the application unsubscribed from it.
SubscriptionsFound ==
    /\ \A p \in BOOLEAN : dictConsistent(sub[p])
    /\ mem = "live" =>
         \A t \in server.topics :
           \/ dictHas(sub[t[1]], t[2])
           \/ \E i \in DOMAIN cmds : cmds[i] = Command("unsubscribe", t)

\* The comment in redisProcessCallbacks: without pending callbacks and errors
\* "the context *must* be subscribed or monitoring".
NeverAborts == "assert" \notin seen
=============================================================================
