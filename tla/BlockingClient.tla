---------------------------- MODULE BlockingClient ----------------------------
(***************************************************************************)
(* The redisContext of src/hiredis.c with the connection of src/net.c: one *)
(* thread connects, appends commands, writes, reads and takes replies, on  *)
(* a blocking or a non-blocking context, over TCP or a Unix socket, and    *)
(* reconnects when it likes. Every system call may do what the kernel lets *)
(* it do. The server is external: it answers complete commands in order.   *)
(*                                                                         *)
(* A descriptor is 0 (calloc left c->fd at 0), or one of Fds; other threads *)
(* of the process use Fds too.                                             *)
(***************************************************************************)
EXTENDS RedisReader, RedisFormat

CONSTANTS
    Kinds,          \* the ways to connect in use, a set of connection options
    Fds,            \* descriptors
    Requests,       \* what is asked: a format with its arguments, or a vector
    Answers,        \* the replies the server may give, as functions from paths
                    \* to objects
    MaxAddr,        \* bound on the addresses a name resolves to
    MaxCmds,        \* for each kind, bound on the commands appended to the first
                    \* connection, one fewer to every further one
    MaxConnects,    \* bound on the attempts to connect
    REDIS_CONNECT_RETRIES

\* The descriptors are opened, so none is the 0 or the -1 that stands for none.
ASSUME FdsAssumption == 0 \notin Fds /\ -1 \notin Fds

VARIABLES
    kind,       \* the options of this context
    at,         \* where the thread is
    fd, err,    \* c->fd and c->err
    addrs, reuses,  \* addresses left and retries in _redisContextConnectTcp
    connects,   \* attempts so far
    fds,        \* who has each descriptor
    obuf, rd,   \* c->obuf and c->reader
    asked,      \* the commands appended to this connection
    received, pending,  \* bytes the server has, bytes on their way to the client
    sent, got,  \* replies sent by the server and taken by the application
    seen        \* what the properties refer to

conn == <<fd, err, addrs, reuses, connects, fds>>
io == <<obuf, rd, asked, received, pending, sent, got>>
vars == <<kind, at, conn, io, seen>>

\* The options: Unix socket or TCP, blocking, with a source address, reuseaddr.
Kind(unix, block, source, reuse) ==
    [unix |-> unix, block |-> block, source |-> source, reuse |-> reuse]
redisConnect == Kind(FALSE, TRUE, FALSE, FALSE)
redisConnectUnix == Kind(TRUE, TRUE, FALSE, FALSE)
redisConnectBindNonBlockWithReuse == Kind(FALSE, FALSE, TRUE, TRUE)

Fresh == /\ obuf' = << >> /\ rd' = redisReaderCreate /\ asked' = << >>
         /\ received' = << >> /\ pending' = << >> /\ sent' = << >> /\ got' = << >>

Init ==
    /\ kind \in Kinds
    /\ at = "resolve" /\ fd = 0 /\ err = FALSE
    /\ addrs = 0 /\ reuses = 0 /\ connects = 1
    /\ fds = [x \in Fds |-> "free"]
    /\ obuf = << >> /\ rd = redisReaderCreate /\ asked = << >>
    /\ received = << >> /\ pending = << >> /\ sent = << >> /\ got = << >>
    /\ seen = {}

-----------------------------------------------------------------------------
(* Connecting: _redisContextConnectTcp and redisContextConnectUnix *)

\* A descriptor is closed by number, whoever has it by now. Faulty: the client
\* forgets to.
FaultyClose(table, x) == table
Close(table, x) == IF x \in Fds THEN [table EXCEPT ![x] = "free"] ELSE table
Foreign(x) == IF x \in Fds /\ fds[x] # "mine" THEN {"foreign"} ELSE {}

\* The call fails; c->err is set or not, the descriptor is closed or stays.
\* Faulty: only a failure that closes the descriptor is reported.
FaultyFails(sets, closes) ==
    /\ at' = "failed"
    /\ err' = (err \/ (sets /\ closes))
    /\ IF closes THEN fds' = Close(fds, fd) /\ fd' = -1 ELSE UNCHANGED <<fds, fd>>
Fails(sets, closes) ==
    /\ at' = "failed"
    /\ err' = (err \/ sets)
    /\ IF closes THEN fds' = Close(fds, fd) /\ fd' = -1 ELSE UNCHANGED <<fds, fd>>

Goes(label) == at' = label /\ UNCHANGED <<fd, err, fds>>

\* getaddrinfo; a Unix path needs none.
resolve ==
    /\ at = "resolve"
    /\ \/ ~kind.unix /\ Fails(TRUE, FALSE) /\ UNCHANGED addrs
       \/ \E n \in 1..(IF kind.unix THEN 1 ELSE MaxAddr) : addrs' = n /\ Goes("socket")
    /\ reuses' = 0
    /\ seen' = seen \ {"silent"}
    /\ UNCHANGED <<kind, connects, io>>

\* socket and redisSetBlocking(c,0). Without a socket the next address is
\* tried; after the last one, and for a Unix socket, the call fails.
createSocket ==
    /\ at = "socket"
    /\ \/ addrs = 0 /\ Fails(TRUE, FALSE) /\ UNCHANGED addrs
       \/ addrs > 0 /\ ~kind.unix /\ addrs' = addrs - 1 /\ Goes("socket")
       \/ addrs > 0 /\ kind.unix /\ Fails(TRUE, FALSE) /\ UNCHANGED addrs
       \/ \E x \in Fds :
            /\ addrs > 0 /\ fds[x] = "free" /\ UNCHANGED addrs
            /\ \/ /\ fd' = x /\ fds' = [fds EXCEPT ![x] = "mine"]
                  /\ at' = "bind" /\ UNCHANGED err
               \/ /\ fd' = -1 /\ at' = "failed" /\ err' = TRUE /\ UNCHANGED fds
    /\ UNCHANGED <<kind, reuses, connects, io, seen>>

\* The source address; the timeout of a Unix socket is looked at only here.
\* A failing setsockopt and a bad Unix timeout set no error.
bind ==
    /\ at = "bind"
    /\ \/ Goes("connect") /\ UNCHANGED seen
       \/ kind.source /\ Fails(TRUE, FALSE) /\ UNCHANGED seen
       \/ /\ kind.reuse \/ kind.unix
          /\ Fails(FALSE, FALSE) /\ seen' = seen \cup {"silent"}
    /\ UNCHANGED <<kind, addrs, reuses, connects, io>>

\* connect. An unreachable host leads to the next address, a source address in
\* use to another try, up to the last one, which sets no error.
connect ==
    /\ at = "connect"
    /\ \/ Goes("options") /\ UNCHANGED <<addrs, reuses, seen>>
       \/ Goes("wait") /\ UNCHANGED <<addrs, reuses, seen>>
       \/ /\ ~kind.unix
          /\ at' = "socket" /\ fd' = -1 /\ fds' = Close(fds, fd)
          /\ addrs' = addrs - 1 /\ UNCHANGED <<err, reuses, seen>>
       \/ /\ kind.reuse /\ reuses' = reuses + 1 /\ UNCHANGED addrs
          /\ IF reuses' >= REDIS_CONNECT_RETRIES
               THEN Fails(FALSE, FALSE) /\ seen' = seen \cup {"silent"}
               ELSE /\ at' = "socket" /\ fd' = -1 /\ fds' = Close(fds, fd)
                    /\ UNCHANGED <<err, seen>>
    /\ UNCHANGED <<kind, connects, io>>

\* redisContextWaitReady on a blocking context: poll fails or times out, or the
\* socket has an error, which leaves the descriptor open; on a non-blocking
\* context it is called for every errno but EINPROGRESS.
WaitCloses == IF kind.block THEN {TRUE, FALSE} ELSE {TRUE}

waitReady ==
    /\ at = "wait"
    /\ \/ kind.block /\ Goes("options")
       \/ \E closes \in WaitCloses : Fails(TRUE, closes)
    /\ UNCHANGED <<kind, addrs, reuses, connects, io, seen>>

\* redisSetBlocking(c,1) and redisSetTcpNoDelay.
setOptions ==
    /\ at = "options"
    /\ \/ Goes("idle")
       \/ (~kind.unix \/ kind.block) /\ Fails(TRUE, TRUE)
    /\ UNCHANGED <<kind, addrs, reuses, connects, io, seen>>

-----------------------------------------------------------------------------
(* redisReconnect, redisFree, other threads *)

\* The buffers are made anew, c->fd is closed and keeps its number.
redisReconnect ==
    /\ at \in {"idle", "failed"} /\ connects < MaxConnects
    /\ connects' = connects + 1
    /\ at' = "resolve" /\ err' = FALSE
    /\ fds' = Close(fds, fd)
    /\ seen' = seen \cup Foreign(fd)
    /\ Fresh
    /\ UNCHANGED <<kind, fd, addrs, reuses>>

redisFree ==
    /\ at \in {"idle", "failed"}
    /\ at' = "freed"
    /\ fds' = Close(fds, fd)
    /\ seen' = seen \cup Foreign(fd)
    /\ Fresh
    /\ UNCHANGED <<kind, fd, err, addrs, reuses, connects>>

otherThread ==
    /\ \E x \in Fds : fds[x] = "free" /\ fds' = [fds EXCEPT ![x] = "other"]
    /\ UNCHANGED <<kind, at, fd, err, addrs, reuses, connects, io, seen>>

-----------------------------------------------------------------------------
(* Input and output *)

Outstanding == Len(asked) - Len(got)

\* redisAppendCommand, redisAppendCommandArgv and __redisAppendCommand: a format
\* error, or the command in the output buffer. The assertion compares its length
\* with totlen.
Formatted(q) == IF q.vector THEN redisFormatCommandArgv(q.args)
                ELSE redisvFormatCommand(q.format, q.args)
Meant(q) == IF q.vector THEN q.args ELSE ExpectedArgv(q.format, q.args)

redisAppendCommand(q) ==
    LET f == Formatted(q) IN
    /\ at = "idle" /\ Len(asked) + connects <= MaxCmds[kind]
    /\ IF f.invalid
         THEN err' = TRUE /\ UNCHANGED <<obuf, asked, seen>>
         ELSE /\ obuf' = obuf \o f.cmd
              /\ asked' = Append(asked, Meant(q))
              /\ seen' = seen \cup (IF Len(f.cmd) = f.totlen THEN {} ELSE {"assert"})
              /\ UNCHANGED err
    /\ UNCHANGED <<kind, at, fd, addrs, reuses, connects, fds, rd, received, pending, sent, got>>

\* redisGetReplyFromReader: a reply, nothing, or an error; an allocation may
\* fail. next is where the thread goes without a reply.
FromReader(r, next) ==
    \E luck \in {0, 1, 20} : \E done \in {Parsed(r, luck)} :
      \E res \in {redisReaderGetReply(r, done)} :
        /\ rd' = res.r
        /\ IF res.r.err # "none"
             THEN err' = TRUE /\ at' = "idle" /\ UNCHANGED got
           ELSE IF res.reply # << >>
             THEN got' = Append(got, res.reply) /\ at' = "idle" /\ UNCHANGED err
           ELSE at' = next /\ UNCHANGED <<got, err>>

\* redisGetReply: on a blocking context flush and then read until there is one.
redisGetReply ==
    /\ at = "idle" /\ Outstanding > 0
    /\ FromReader(rd, IF kind.block THEN "write" ELSE "idle")
    /\ UNCHANGED <<kind, fd, addrs, reuses, connects, fds, obuf, asked, received,
                   pending, sent, seen>>

Broken == err' = TRUE /\ at' = "idle"

\* redisBufferWrite: after an earlier error nothing; otherwise any part of the
\* output, nothing (EINTR, EAGAIN), or an error; a part of several bytes has
\* the effect of as many calls. Faulty: the rest is kept as if nothing had been
\* written.
FaultyUnwritten(k) == IF k = Len(obuf) THEN << >> ELSE obuf
Unwritten(k) == SubSeq(obuf, k + 1, Len(obuf))

Writes == at = "write" \/ (at = "idle" /\ ~kind.block /\ obuf # << >>)
redisBufferWrite ==
    /\ Writes
    /\ \/ (err \/ obuf # << >>) /\ Broken /\ UNCHANGED <<obuf, received>>
       \/ \E k \in {0, Min({1, Len(obuf)}), Len(obuf)} :
            /\ ~err
            /\ received' = received \o SubSeq(obuf, 1, k)
            /\ obuf' = Unwritten(k)
            /\ at' = IF at = "write" /\ obuf' = << >> THEN "read" ELSE at
            /\ UNCHANGED err
    /\ UNCHANGED <<kind, fd, addrs, reuses, connects, fds, rd, asked, pending, sent, got, seen>>

\* redisBufferRead and, on a blocking context, the next look at the reader:
\* any part of what has arrived, nothing (EINTR, EAGAIN), EOF or an error.
Reads == at = "read" \/ (at = "idle" /\ ~kind.block /\ pending # << >>)
redisBufferRead ==
    /\ Reads
    /\ \/ Broken /\ UNCHANGED <<rd, pending, got>>
       \/ \E k \in 1..Len(pending) :
            LET fed == redisReaderFeed(rd, SubSeq(pending, 1, k)) IN
            /\ ~err /\ rd.err = "none"
            /\ pending' = SubSeq(pending, k + 1, Len(pending))
            /\ IF at = "read" THEN FromReader(fed, "read")
               ELSE rd' = fed /\ UNCHANGED <<at, err, got>>
    /\ UNCHANGED <<kind, fd, addrs, reuses, connects, fds, obuf, asked, received, sent, seen>>

-----------------------------------------------------------------------------
(* External: the server *)

\* A reply goes out from the root on, an array before its elements: the order
\* of the paths in a dictionary.
Before(p, q) ==
    \/ IsStrictPrefix(p, q)
    \/ \E i \in DOMAIN p \cap DOMAIN q :
         p[i] < q[i] /\ \A j \in 1..(i - 1) : p[j] = q[j]

OnTheWire(obj) ==
    CASE obj.type = "status" -> <<"+">> \o obj.str \o CRLF
      [] obj.type = "error" -> <<"-">> \o obj.str \o CRLF
      [] obj.type = "integer" -> <<":">> \o Decimal[obj.num] \o CRLF
      [] obj.type = "nil" -> <<"$", "-", "1">> \o CRLF
      [] obj.type = "string" -> Bulk(obj.str)
      [] obj.type = "array" -> <<"*">> \o Decimal[obj.num] \o CRLF

Encoded == [t \in Answers |->
              LET paths == SetToSortSeq(DOMAIN t, Before)
              IN  FlattenSeq([i \in DOMAIN paths |-> OnTheWire(t[paths[i]])])]

\* The bytes of the first n commands, as the protocol demands them.
Stream(n) == FlattenSeq([i \in 1..n |-> Command(asked[i])])
Served == Max({n \in 0..Len(asked) : IsPrefix(Stream(n), received)})

serve ==
    /\ at # "freed" /\ Len(sent) < Served
    /\ \E t \in Answers : sent' = Append(sent, t) /\ pending' = pending \o Encoded[t]
    /\ UNCHANGED <<kind, at, conn, obuf, rd, asked, received, got, seen>>

-----------------------------------------------------------------------------
Connecting ==
    resolve \/ createSocket \/ bind \/ connect \/ waitReady \/ setOptions

Next ==
    \/ Connecting \/ redisReconnect \/ redisFree \/ otherThread
    \/ \E q \in Requests : redisAppendCommand(q)
    \/ redisGetReply \/ redisBufferWrite \/ redisBufferRead
    \/ serve

Spec == Init /\ [][Next]_vars

-----------------------------------------------------------------------------
(* Properties *)

\* However the bytes are cut on their way, the application gets the replies of
\* this connection in the order they were sent, nested arrays included, and
\* none of an earlier connection.
RepliesInOrder ==
    /\ Len(got) <= Len(sent)
    /\ \A i \in DOMAIN got : got[i] = sent[i]

\* A request on its own is refused, or becomes the bytes that the protocol
\* demands, as many of them as were counted.
FormatsRight(q) ==
    LET f == Formatted(q) IN
    \/ f.invalid
    \/ f.cmd = Command(Meant(q)) /\ f.cmd \in Seq(STRING) /\ Len(f.cmd) = f.totlen

\* The server receives the commands as the arguments were meant, byte by byte,
\* whatever the kernel takes at a time, and the length computed beforehand is
\* the length written.
CommandsIntact ==
    /\ received \o obuf = Stream(Len(asked))
    /\ "assert" \notin seen

\* A context whose last call failed has c->err set, apart from the three
\* paths of net.c that forget it.
FailureReported == at = "failed" /\ ~err => "silent" \in seen

\* Every descriptor the client opened is c->fd, so that redisFree closes it,
\* and a context in use has one of its own.
\* It closes one of another thread only after a failed redisReconnect, which
\* leaves the closed number in c->fd.
DescriptorsOwned ==
    /\ \A x \in Fds : fds[x] = "mine" => x = fd
    /\ at \in {"idle", "write", "read"} => fds[fd] = "mine"
    /\ at = "freed" => \A x \in Fds : fds[x] # "mine"
    /\ "foreign" \in seen => connects > 1
=============================================================================
