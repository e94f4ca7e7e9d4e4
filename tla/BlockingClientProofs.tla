------------------------ MODULE BlockingClientProofs ------------------------
(***************************************************************************)
(* Proofs about BlockingClient, for any number of descriptors, addresses,  *)
(* commands and attempts to connect: what happens to the descriptor of the *)
(* context, and which failures are reported.                               *)
(***************************************************************************)
EXTENDS BlockingClient, SequenceTheorems, WellFoundedInduction, TLAPS

Places == {"resolve", "socket", "bind", "connect", "wait", "options", "idle",
           "write", "read", "failed", "freed"}

\* Where the context has a descriptor of its own: from socket on, for as long as
\* it is in use.
Holding == {"bind", "connect", "wait", "options", "idle", "write", "read"}

TypeOK ==
    /\ at \in Places
    /\ fd \in Fds \cup {0, -1}
    /\ err \in BOOLEAN
    /\ connects \in Nat \ {0}
    /\ fds \in [Fds -> {"free", "mine", "other"}]

\* What is left open is c->fd, and c->fd is open where it is used.
Own(x) == x \in Fds /\ fds[x] = "mine"
OnlyOwn == \A x \in Fds : fds[x] = "mine" => x = fd
HoldsOwn == at \in Holding => Own(fd)

\* Before socket, and after redisFree, nothing of the client is open.
NoneOpen == at \in {"resolve", "socket", "freed"} => \A x \in Fds : fds[x] # "mine"

\* The number in c->fd is stale only after a redisReconnect.
Stale == connects = 1 /\ fd \in Fds /\ at # "freed" => Own(fd)
ForeignLater == "foreign" \in seen => connects > 1

DescriptorInv == TypeOK /\ OnlyOwn /\ HoldsOwn /\ NoneOpen /\ Stale /\ ForeignLater

-----------------------------------------------------------------------------
(* The operators of the actions *)

\* Closing c->fd closes what it names and nothing else.
LEMMA CloseFacts ==
    ASSUME NEW table \in [Fds -> {"free", "mine", "other"}], NEW x
    PROVE  /\ Close(table, x) \in [Fds -> {"free", "mine", "other"}]
           /\ x \in Fds => Close(table, x)[x] # "mine"
           /\ \A y \in Fds : y # x => Close(table, x)[y] = table[y]
BY DEF Close

\* Once c->fd is closed nothing of the client is open.
LEMMA CloseLeavesNone ==
    ASSUME TypeOK, OnlyOwn
    PROVE  /\ Close(fds, fd) \in [Fds -> {"free", "mine", "other"}]
           /\ \A x \in Fds : Close(fds, fd)[x] # "mine"
BY CloseFacts, SMTT(60) DEF TypeOK, OnlyOwn

\* A failure reports an error when it is told to.
LEMMA FailsReports ==
    ASSUME NEW sets \in BOOLEAN, NEW closes \in BOOLEAN, TypeOK, Fails(sets, closes)
    PROVE  at' = "failed" /\ err' \in BOOLEAN /\ (sets => err')
BY DEF Fails, TypeOK

\* A failure either closes the descriptor or leaves it in c->fd.
LEMMA FailsKeeps ==
    ASSUME NEW sets \in BOOLEAN, NEW closes \in BOOLEAN, DescriptorInv,
           Fails(sets, closes), at \notin {"freed"}, UNCHANGED connects,
           "foreign" \in seen' => "foreign" \in seen
    PROVE  DescriptorInv'
<1>1. at' = "failed" /\ err' \in BOOLEAN
  BY FailsReports DEF DescriptorInv
<1>2. CASE closes
  <2>1. fds' = Close(fds, fd) /\ fd' = -1
    BY <1>2 DEF Fails
  <2>2. fds' \in [Fds -> {"free", "mine", "other"}] /\ \A x \in Fds : fds'[x] # "mine"
    BY <2>1, CloseLeavesNone DEF DescriptorInv
  <2> QED
    BY <1>1, <2>1, <2>2, FdsAssumption
    DEF DescriptorInv, TypeOK, OnlyOwn, HoldsOwn, NoneOpen, Stale, ForeignLater, Own, Places, Holding
<1>3. CASE ~closes
  <2>1. UNCHANGED <<fds, fd>>
    BY <1>3 DEF Fails
  <2> QED
    BY <1>1, <2>1
    DEF DescriptorInv, TypeOK, OnlyOwn, HoldsOwn, NoneOpen, Stale, ForeignLater, Own, Places, Holding
<1> QED BY <1>2, <1>3

\* Nothing about descriptors changes when the thread stays among the places where
\* it holds one, or goes on from socket to none.
LEMMA StaysHolding ==
    ASSUME DescriptorInv, UNCHANGED <<fd, fds, connects>>, err' \in BOOLEAN,
           "foreign" \in seen' => "foreign" \in seen,
           \/ at \in Holding /\ at' \in Holding
           \/ at \in {"resolve", "socket"} /\ at' \in {"resolve", "socket"}
           \/ at' = at
    PROVE  DescriptorInv'
BY DEF DescriptorInv, TypeOK, OnlyOwn, HoldsOwn, NoneOpen, Stale, ForeignLater, Own, Places, Holding

\* The reader, whatever it is fed, lets the thread go on or makes it idle.
LEMMA ReaderGoes ==
    ASSUME NEW r, NEW next \in Holding, TypeOK, FromReader(r, next)
    PROVE  at' \in {"idle", next} /\ err' \in BOOLEAN
BY DEF FromReader, TypeOK

-----------------------------------------------------------------------------
(* The descriptor *)

\* Connecting opens one descriptor, from socket on, and closes it on the way
\* back to socket.
LEMMA ConnectingKeeps ==
    ASSUME DescriptorInv, Connecting
    PROVE  DescriptorInv'
<1>1. CASE resolve
  <2>1. UNCHANGED connects /\ at = "resolve" /\ ("foreign" \in seen' => "foreign" \in seen)
    BY <1>1 DEF resolve
  <2>2. CASE Fails(TRUE, FALSE)
    BY <2>1, <2>2, FailsKeeps
  <2>3. CASE Goes("socket")
    BY <2>1, <2>3, StaysHolding DEF Goes, DescriptorInv, TypeOK
  <2> QED BY <1>1, <2>2, <2>3 DEF resolve
<1>2. CASE createSocket
  <2>1. UNCHANGED <<connects, seen>> /\ at = "socket"
    BY <1>2 DEF createSocket
  <2>2. CASE Fails(TRUE, FALSE)
    BY <2>1, <2>2, FailsKeeps
  <2>3. CASE Goes("socket")
    BY <2>1, <2>3, StaysHolding DEF Goes, DescriptorInv, TypeOK
  <2>4. CASE \E x \in Fds : /\ fd' = x /\ fds' = [fds EXCEPT ![x] = "mine"]
                            /\ at' = "bind" /\ UNCHANGED err
    BY <2>1, <2>4
    DEF DescriptorInv, TypeOK, OnlyOwn, HoldsOwn, NoneOpen, Stale, ForeignLater, Own, Places, Holding
  <2>5. CASE fd' = -1 /\ at' = "failed" /\ err' = TRUE /\ UNCHANGED fds
    BY <2>1, <2>5, FdsAssumption
    DEF DescriptorInv, TypeOK, OnlyOwn, HoldsOwn, NoneOpen, Stale, ForeignLater, Own, Places, Holding
  <2> QED BY <1>2, <2>2, <2>3, <2>4, <2>5 DEF createSocket
<1>3. CASE bind
  <2>1. UNCHANGED connects /\ at = "bind" /\ ("foreign" \in seen' => "foreign" \in seen)
    BY <1>3 DEF bind
  <2>2. CASE Goes("connect")
    BY <2>1, <2>2, StaysHolding DEF Goes, DescriptorInv, TypeOK, Holding
  <2>3. ASSUME NEW sets \in BOOLEAN, Fails(sets, FALSE) PROVE DescriptorInv'
    BY <2>1, <2>3, FailsKeeps
  <2> QED BY <1>3, <2>2, <2>3 DEF bind
<1>4. CASE connect
  <2>1. UNCHANGED connects /\ at = "connect"
    BY <1>4 DEF connect
  <2>2. seen' = seen \/ seen' = seen \cup {"silent"}
    BY <1>4, Zenon DEF connect
  <2>3. "foreign" \in seen' => "foreign" \in seen
    BY <2>2
  <2>4. ASSUME NEW label \in {"options", "wait"}, Goes(label) PROVE DescriptorInv'
    BY <2>1, <2>3, <2>4, StaysHolding DEF Goes, DescriptorInv, TypeOK, Holding
  <2>5. CASE at' = "socket" /\ fd' = -1 /\ fds' = Close(fds, fd) /\ UNCHANGED err
    BY <2>1, <2>3, <2>5, CloseLeavesNone, FdsAssumption
    DEF DescriptorInv, TypeOK, OnlyOwn, HoldsOwn, NoneOpen, Stale, ForeignLater, Own, Places, Holding
  <2>6. CASE Fails(FALSE, FALSE)
    BY <2>1, <2>3, <2>6, FailsKeeps
  <2> QED BY <1>4, <2>4, <2>5, <2>6 DEF connect
<1>5. CASE waitReady
  <2>1. UNCHANGED <<connects, seen>> /\ at = "wait"
    BY <1>5 DEF waitReady
  <2>2. CASE Goes("options")
    BY <2>1, <2>2, StaysHolding DEF Goes, DescriptorInv, TypeOK, Holding
  <2>3. CASE \E closes \in WaitCloses : Fails(TRUE, closes)
    BY <2>1, <2>3, FailsKeeps DEF WaitCloses
  <2> QED BY <1>5, <2>2, <2>3 DEF waitReady
<1>6. CASE setOptions
  <2>1. UNCHANGED <<connects, seen>> /\ at = "options"
    BY <1>6 DEF setOptions
  <2>2. CASE Goes("idle")
    BY <2>1, <2>2, StaysHolding DEF Goes, DescriptorInv, TypeOK, Holding
  <2>3. CASE Fails(TRUE, TRUE)
    BY <2>1, <2>3, FailsKeeps
  <2> QED BY <1>6, <2>2, <2>3 DEF setOptions
<1> QED BY <1>1, <1>2, <1>3, <1>4, <1>5, <1>6 DEF Connecting

\* Closing another thread's descriptor takes a number left from an earlier
\* attempt, so a first redisReconnect does not do it.
LEMMA ForeignIsStale ==
    ASSUME DescriptorInv, at \in {"idle", "failed"}, "foreign" \in Foreign(fd)
    PROVE  connects > 1
<1>1. fd \in Fds /\ fds[fd] # "mine"
  BY DEF Foreign
<1>2. connects # 1
  BY <1>1 DEF DescriptorInv, Stale, Own
<1> QED BY <1>2 DEF DescriptorInv, TypeOK

\* redisReconnect and redisFree close c->fd, and with it all the client had.
LEMMA ClosingKeeps ==
    ASSUME DescriptorInv, redisReconnect \/ redisFree
    PROVE  DescriptorInv'
<1>1. /\ fds' = Close(fds, fd) /\ fd' = fd
      /\ at' \in {"resolve", "freed"} /\ err' \in BOOLEAN
      /\ seen' = seen \cup Foreign(fd)
      /\ at \in {"idle", "failed"}
      /\ \/ connects' = connects + 1
         \/ connects' = connects /\ at' = "freed"
  BY DEF redisReconnect, redisFree, DescriptorInv, TypeOK
<1>2. fds' \in [Fds -> {"free", "mine", "other"}] /\ \A x \in Fds : fds'[x] # "mine"
  BY <1>1, CloseLeavesNone DEF DescriptorInv
<1>3. TypeOK'
  BY <1>1, <1>2 DEF DescriptorInv, TypeOK, Places
<1>4. ForeignLater'
  <2>1. "foreign" \in seen' => connects > 1
    BY <1>1, ForeignIsStale DEF DescriptorInv, ForeignLater
  <2> QED BY <1>1, <2>1 DEF DescriptorInv, TypeOK, ForeignLater
<1> QED
  BY <1>1, <1>2, <1>3, <1>4
  DEF DescriptorInv, TypeOK, OnlyOwn, HoldsOwn, NoneOpen, Stale, Own, Holding

\* Another thread takes free descriptors only.
LEMMA OtherThreadKeeps ==
    ASSUME DescriptorInv, otherThread
    PROVE  DescriptorInv'
<1>1. PICK x \in Fds : fds[x] = "free" /\ fds' = [fds EXCEPT ![x] = "other"]
  BY DEF otherThread
<1>2. /\ fds' \in [Fds -> {"free", "mine", "other"}]
      /\ \A y \in Fds : fds'[y] = "mine" <=> fds[y] = "mine"
  BY <1>1 DEF DescriptorInv, TypeOK
<1>3. UNCHANGED <<at, fd, err, connects, seen>>
  BY DEF otherThread
<1> QED
  BY <1>2, <1>3
  DEF DescriptorInv, TypeOK, OnlyOwn, HoldsOwn, NoneOpen, Stale, ForeignLater, Own, Places, Holding

\* Input and output leave the descriptor alone, whatever the kernel does.
LEMMA TransferKeeps ==
    ASSUME DescriptorInv,
           \/ \E q \in Requests : redisAppendCommand(q)
           \/ redisGetReply \/ redisBufferWrite \/ redisBufferRead \/ serve
    PROVE  DescriptorInv'
<1> USE DEF Holding
<1>1. ASSUME NEW q \in Requests, redisAppendCommand(q) PROVE DescriptorInv'
  <2>1. UNCHANGED <<at, fd, connects, fds>>
    BY <1>1 DEF redisAppendCommand
  <2>2. err' = TRUE \/ err' = err
    BY <1>1, Zenon DEF redisAppendCommand
  <2>3. seen' = seen \/ seen' = seen \cup {} \/ seen' = seen \cup {"assert"}
    BY <1>1, Zenon DEF redisAppendCommand
  <2>4. "foreign" \in seen' => "foreign" \in seen
    BY <2>3
  <2> QED BY <2>1, <2>2, <2>4, StaysHolding DEF DescriptorInv, TypeOK
<1>2. CASE redisGetReply
  <2>1. UNCHANGED <<fd, connects, fds, seen>> /\ at = "idle"
    BY <1>2 DEF redisGetReply
  <2>2. at' \in {"idle", "write"} /\ err' \in BOOLEAN
    BY <1>2, ReaderGoes DEF redisGetReply, DescriptorInv
  <2> QED BY <2>1, <2>2, StaysHolding
<1>3. CASE redisBufferWrite
  <2>1. UNCHANGED <<fd, connects, fds, seen>> /\ at \in {"idle", "write"}
    BY <1>3 DEF redisBufferWrite, Writes
  <2>2. at' \in {"idle", "write", "read"} /\ err' \in BOOLEAN
    BY <1>3, <2>1 DEF redisBufferWrite, Broken, DescriptorInv, TypeOK
  <2> QED BY <2>1, <2>2, StaysHolding
<1>4. CASE redisBufferRead
  <2>1. UNCHANGED <<fd, connects, fds, seen>> /\ at \in {"idle", "read"}
    BY <1>4 DEF redisBufferRead, Reads
  <2>2. at' \in {"idle", "read"} /\ err' \in BOOLEAN
    BY <1>4, <2>1, ReaderGoes DEF redisBufferRead, Broken, DescriptorInv, TypeOK
  <2> QED BY <2>1, <2>2, StaysHolding
<1>5. CASE serve
  <2>1. UNCHANGED <<fd, connects, fds, seen, at, err>>
    BY <1>5 DEF serve, conn
  <2> QED BY <2>1, StaysHolding DEF DescriptorInv, TypeOK
<1> QED BY <1>1, <1>2, <1>3, <1>4, <1>5

-----------------------------------------------------------------------------
(* The theorems *)

\* What holds of the descriptor in every state: the types, that everything the
\* client has open is c->fd, that c->fd is open where it is used, and that its
\* number is stale only after a redisReconnect.
THEOREM DescriptorInductive == Spec => []DescriptorInv
<1>1. Init => DescriptorInv
  <2> SUFFICES ASSUME Init PROVE DescriptorInv
    OBVIOUS
  <2>1. /\ at = "resolve" /\ fd = 0 /\ err = FALSE /\ connects = 1
        /\ fds = [x \in Fds |-> "free"] /\ seen = {}
    BY DEF Init
  <2>2. \A x \in Fds : fds[x] = "free"
    BY <2>1
  <2>3. TypeOK
    <3>1. fds \in [Fds -> {"free", "mine", "other"}]
      BY <2>1
    <3>2. connects \in Nat \ {0} /\ fd \in Fds \cup {0, -1}
      BY <2>1
    <3>3. at \in Places /\ err \in BOOLEAN
      BY <2>1 DEF Places
    <3> QED BY <3>1, <3>2, <3>3 DEF TypeOK
  <2>4. NoneOpen /\ OnlyOwn
    BY <2>2 DEF NoneOpen, OnlyOwn
  <2>5. HoldsOwn /\ ForeignLater
    BY <2>1 DEF HoldsOwn, ForeignLater, Holding
  <2>6. Stale
    BY <2>1, FdsAssumption DEF Stale
  <2> QED BY <2>3, <2>4, <2>5, <2>6 DEF DescriptorInv
<1>2. DescriptorInv /\ [Next]_vars => DescriptorInv'
  <2> SUFFICES ASSUME DescriptorInv, [Next]_vars PROVE DescriptorInv'
    OBVIOUS
  <2>1. CASE UNCHANGED vars
    BY <2>1, StaysHolding DEF vars, conn, DescriptorInv, TypeOK
  <2> QED
    BY <2>1, ConnectingKeeps, ClosingKeeps, OtherThreadKeeps, TransferKeeps DEF Next
<1> QED BY <1>1, <1>2, PTL DEF Spec

\* The client never loses track of a descriptor it opened, redisFree leaves
\* none open, a context in use has one of its own, and that of another thread is
\* closed only after a redisReconnect: net.c closes c->fd on every way that
\* opens the next one.
THEOREM DescriptorsAreOwned == Spec => []DescriptorsOwned
<1>1. DescriptorInv => DescriptorsOwned
  BY DEF DescriptorInv, OnlyOwn, HoldsOwn, NoneOpen, ForeignLater, Own, Holding, DescriptorsOwned
<1> QED BY <1>1, DescriptorInductive, PTL

\* A call of net.c or redisReconnect that fails leaves c->err set, except on the
\* ways that are counted as silent.
THEOREM FailuresAreReported == Spec => []FailureReported
<1>1. Init => FailureReported
  BY DEF Init, FailureReported
<1>2. DescriptorInv /\ FailureReported /\ [Next]_vars => FailureReported'
  <2> SUFFICES ASSUME DescriptorInv, FailureReported, [Next]_vars,
                      at' = "failed", ~err'
               PROVE  "silent" \in seen'
    BY DEF FailureReported
  <2>1. ASSUME NEW sets \in BOOLEAN, NEW closes \in BOOLEAN, Fails(sets, closes)
        PROVE  sets = FALSE
    BY <2>1, FailsReports DEF DescriptorInv
  <2>2. CASE Connecting
    BY <2>1, <2>2
    DEF Connecting, resolve, createSocket, bind, connect, waitReady, setOptions, Goes, WaitCloses
  <2>3. CASE redisReconnect \/ redisFree
    BY <2>3 DEF redisReconnect, redisFree
  <2>4. CASE otherThread
    BY <2>4 DEF otherThread, FailureReported
  <2>5. ASSUME NEW q \in Requests, redisAppendCommand(q) PROVE "silent" \in seen'
    BY <2>5 DEF redisAppendCommand
  <2>6. CASE redisGetReply
    BY <2>6, ReaderGoes DEF redisGetReply, DescriptorInv, Holding
  <2>7. CASE redisBufferWrite
    BY <2>7 DEF redisBufferWrite, Writes, Broken
  <2>8. CASE redisBufferRead
    BY <2>8, ReaderGoes DEF redisBufferRead, Reads, Broken, DescriptorInv, Holding
  <2>9. CASE serve
    BY <2>9 DEF serve, conn, FailureReported
  <2>10. CASE UNCHANGED vars
    BY <2>10 DEF vars, conn, FailureReported
  <2> QED
    BY <2>2, <2>3, <2>4, <2>5, <2>6, <2>7, <2>8, <2>9, <2>10 DEF Next
<1> QED BY <1>1, <1>2, DescriptorInductive, PTL DEF Spec

-----------------------------------------------------------------------------
(* Concatenation *)

\* A nonempty set of natural numbers has a least element.
LEMMA LeastNatural ==
    ASSUME NEW S \in SUBSET Nat, S # {}
    PROVE  \E n \in S : \A m \in S : n <= m
<1> DEFINE R == {ss \in Nat \X Nat : ss[1] < ss[2]}
<1>1. IsWellFoundedOn(R, Nat)
  BY NatLessThanWellFounded, Zenon DEF OpToRel
<1>2. PICK n \in S : \A m \in S : <<m, n>> \notin R
  <2> HIDE DEF R
  <2> QED BY <1>1, WFMin
<1>3. \A m \in S : n <= m
  <2> TAKE m \in S
  <2>1. <<m, n>> \notin R /\ m \in Nat /\ n \in Nat
    BY <1>2
  <2> QED BY <2>1
<1> QED BY <1>3

\* Induction over the natural numbers, for a property given as a set.
LEMMA InductiveSet ==
    ASSUME NEW P, 0 \in P, \A n \in Nat : n \in P => n + 1 \in P
    PROVE  \A n \in Nat : n \in P
<1> SUFFICES ASSUME NEW k \in Nat, k \notin P PROVE FALSE
  OBVIOUS
<1> DEFINE U == {n \in Nat : n \notin P}
<1>1. PICK j \in U : \A i \in U : j <= i
  <2>1. U \in SUBSET Nat /\ U # {}
    OBVIOUS
  <2> HIDE DEF U
  <2> QED BY <2>1, LeastNatural
<1>2. j \in Nat /\ j # 0 /\ j \notin P
  OBVIOUS
<1>3. j - 1 \in Nat /\ j - 1 \notin P
  BY <1>2
<1>4. j - 1 \in U
  BY <1>3
<1> QED BY <1>1, <1>2, <1>4

\* How FlattenSeq adds up the members of s.
AddsUp(s, f) == f = [i \in 1..Len(s) |-> IF i = 1 THEN s[i] ELSE f[i - 1] \o s[i]]

\* FlattenSeq is what such a sum ends with.
LEMMA FlattenIsSum ==
    ASSUME NEW s, Len(s) # 0
    PROVE  FlattenSeq(s) = (CHOOSE f : AddsUp(s, f))[Len(s)]
BY DEF FlattenSeq, AddsUp

\* One step of the sum.
LEMMA SumStep ==
    ASSUME NEW s, NEW f, AddsUp(s, f), NEW i \in 1..Len(s)
    PROVE  f[i] = IF i = 1 THEN s[i] ELSE f[i - 1] \o s[i]
<1>1. PICK h : h = f /\ f = [k \in 1..Len(s) |-> IF k = 1 THEN s[k] ELSE h[k - 1] \o s[k]]
  BY Zenon DEF AddsUp
<1>2. f[i] = IF i = 1 THEN s[i] ELSE h[i - 1] \o s[i]
  <2>1. f = [k \in 1..Len(s) |-> IF k = 1 THEN s[k] ELSE h[k - 1] \o s[k]]
    BY <1>1
  <2> QED BY <2>1, Zenon
<1> QED BY <1>1, <1>2

\* There is a sum for every sequence of sequences.
LEMMA SumExists ==
    ASSUME NEW B, NEW s \in Seq(Seq(B))
    PROVE  \E f : AddsUp(s, f)
<1> DEFINE n == Len(s)
           Up(f, k) == \A i \in 1..k : f[i] = IF i = 1 THEN s[i] ELSE f[i - 1] \o s[i]
           P == {k \in Nat : k <= n => \E f \in [1..n -> Seq(B)] : Up(f, k)}
<1>0. n \in Nat /\ \A i \in 1..n : s[i] \in Seq(B)
  OBVIOUS
<1>1. 0 \in P
  <2> DEFINE f == [i \in 1..n |-> << >>]
  <2>1. f \in [1..n -> Seq(B)] /\ Up(f, 0)
    OBVIOUS
  <2> QED BY <2>1
<1>2. \A k \in Nat : k \in P => k + 1 \in P
  <2> SUFFICES ASSUME NEW k \in Nat, k \in P, k + 1 <= n
               PROVE  \E f \in [1..n -> Seq(B)] : Up(f, k + 1)
    <3> HIDE DEF Up, n
    <3> QED OBVIOUS
  <2>1. PICK g \in [1..n -> Seq(B)] : Up(g, k)
    <3> HIDE DEF Up, n
    <3> QED BY <1>0
  <2> DEFINE f == [i \in 1..n |-> IF i = k + 1
                                    THEN IF i = 1 THEN s[i] ELSE g[i - 1] \o s[i]
                                    ELSE g[i]]
  <2>2. f \in [1..n -> Seq(B)]
    <3> SUFFICES ASSUME NEW i \in 1..n PROVE f[i] \in Seq(B)
      OBVIOUS
    <3>1. CASE i = k + 1 /\ i # 1
      <4>1. i - 1 \in 1..n
        BY <1>0, <3>1
      <4>2. g[i - 1] \in Seq(B) /\ s[i] \in Seq(B)
        BY <1>0, <4>1
      <4>3. g[i - 1] \o s[i] \in Seq(B)
        BY <4>2, ConcatProperties
      <4> QED BY <3>1, <4>3
    <3>2. CASE i = k + 1 /\ i = 1
      BY <1>0, <3>2
    <3>3. CASE i # k + 1
      BY <3>3
    <3> QED BY <3>1, <3>2, <3>3
  <2>3. Up(f, k + 1)
    <3> SUFFICES ASSUME NEW i \in 1..(k + 1)
                 PROVE  f[i] = IF i = 1 THEN s[i] ELSE f[i - 1] \o s[i]
      OBVIOUS
    <3>1. i \in 1..n /\ (i # 1 => i - 1 \in 1..n /\ i - 1 # k + 1)
      BY <1>0
    <3>2. CASE i = k + 1
      BY <3>1, <3>2
    <3>3. CASE i # k + 1
      <4>1. i \in 1..k
        BY <3>3
      <4>2. g[i] = IF i = 1 THEN s[i] ELSE g[i - 1] \o s[i]
        BY <2>1, <4>1
      <4> QED BY <3>1, <3>3, <4>2
    <3> QED BY <3>2, <3>3
  <2> HIDE DEF f, Up
  <2> QED BY <2>2, <2>3
<1>3. n \in P
  <2> HIDE DEF P
  <2> QED BY <1>0, <1>1, <1>2, InductiveSet
<1>4. PICK f \in [1..n -> Seq(B)] : Up(f, n)
  BY <1>0, <1>3
<1>5. AddsUp(s, f)
  BY <1>4 DEF AddsUp
<1> QED BY <1>5

AgreeTo(n, f, g) == \A i \in 1..n : f[i] = g[i]

\* Two sums agree as far as what is added agrees.
LEMMA SumsAgree ==
    ASSUME NEW s, NEW f, AddsUp(s, f), NEW t, NEW g, AddsUp(t, g),
           Len(s) \in Nat, Len(t) \in Nat, Len(s) <= Len(t),
           AgreeTo(Len(s), s, t)
    PROVE  AgreeTo(Len(s), f, g)
<1> USE DEF AgreeTo
<1> DEFINE P == {k \in Nat : k + 1 <= Len(s) => f[k + 1] = g[k + 1]}
<1>0. /\ Len(s) \in Nat /\ Len(t) \in Nat
      /\ \A i \in 1..Len(s) : f[i] = IF i = 1 THEN s[i] ELSE f[i - 1] \o s[i]
      /\ \A i \in 1..Len(t) : g[i] = IF i = 1 THEN t[i] ELSE g[i - 1] \o t[i]
  BY SumStep
<1>1. 0 \in P
  BY <1>0
<1>2. \A k \in Nat : k \in P => k + 1 \in P
  <2> SUFFICES ASSUME NEW k \in Nat, k \in P, k + 1 + 1 <= Len(s)
               PROVE  f[k + 1 + 1] = g[k + 1 + 1]
    OBVIOUS
  <2>1. f[k + 1] = g[k + 1]
    BY <1>0
  <2>2. /\ k + 1 + 1 \in 1..Len(s) /\ k + 1 + 1 \in 1..Len(t)
        /\ k + 1 + 1 # 1 /\ k + 1 + 1 - 1 = k + 1
    BY <1>0
  <2> HIDE DEF P
  <2>3. f[k + 1 + 1] = f[k + 1] \o s[k + 1 + 1]
    <3> DEFINE i == k + 1 + 1
    <3>1. f[i] = IF i = 1 THEN s[i] ELSE f[i - 1] \o s[i]
      BY <1>0, <2>2
    <3>2. i # 1 /\ i - 1 = k + 1
      BY <2>2
    <3>3. f[i] = f[i - 1] \o s[i]
      BY <3>1, <3>2, Zenon
    <3> HIDE DEF i
    <3>4. f[i] = f[k + 1] \o s[i]
      BY <3>2, <3>3, Zenon
    <3> QED BY <3>4 DEF i
  <2>4. g[k + 1 + 1] = g[k + 1] \o t[k + 1 + 1]
    <3> DEFINE i == k + 1 + 1
    <3>1. g[i] = IF i = 1 THEN t[i] ELSE g[i - 1] \o t[i]
      BY <1>0, <2>2
    <3>2. i # 1 /\ i - 1 = k + 1
      BY <2>2
    <3>3. g[i] = g[i - 1] \o t[i]
      BY <3>1, <3>2, Zenon
    <3> HIDE DEF i
    <3>4. g[i] = g[k + 1] \o t[i]
      BY <3>2, <3>3, Zenon
    <3> QED BY <3>4 DEF i
  <2> QED BY <2>1, <2>2, <2>3, <2>4
<1>3. \A k \in Nat : k \in P
  <2> HIDE DEF P
  <2> QED BY <1>1, <1>2, InductiveSet
<1> SUFFICES ASSUME NEW i \in 1..Len(s) PROVE f[i] = g[i]
  OBVIOUS
<1>4. i - 1 \in P
  <2> HIDE DEF P
  <2> QED BY <1>0, <1>3
<1> QED BY <1>0, <1>4

\* What is appended to the members is appended to the bytes.
LEMMA FlattenAppend ==
    ASSUME NEW B, NEW s \in Seq(Seq(B)), NEW x \in Seq(B)
    PROVE  FlattenSeq(Append(s, x)) = FlattenSeq(s) \o x
<1> DEFINE t == Append(s, x)
           f == CHOOSE h : AddsUp(s, h)
           g == CHOOSE h : AddsUp(t, h)
<1>1. /\ t \in Seq(Seq(B)) /\ Len(t) = Len(s) + 1 /\ Len(s) \in Nat
      /\ t[Len(s) + 1] = x /\ \A i \in 1..Len(s) : t[i] = s[i]
  BY AppendProperties
<1>2. AddsUp(s, f) /\ AddsUp(t, g)
  <2> HIDE DEF t
  <2> QED BY <1>1, SumExists
<1>3. FlattenSeq(t) = g[Len(s) + 1]
  <2> HIDE DEF t
  <2> QED BY <1>1, FlattenIsSum
<1> HIDE DEF t, f, g
<1>4. g[Len(s) + 1] = IF Len(s) + 1 = 1 THEN x ELSE g[Len(s)] \o x
  <2>1. Len(s) + 1 \in 1..Len(t) /\ Len(s) + 1 - 1 = Len(s)
    BY <1>1
  <2>2. g[Len(s) + 1] = IF Len(s) + 1 = 1 THEN t[Len(s) + 1]
                        ELSE g[Len(s) + 1 - 1] \o t[Len(s) + 1]
    BY <1>2, <2>1, SumStep
  <2> QED BY <1>1, <2>1, <2>2
<1>5. CASE s = << >>
  <2>1. FlattenSeq(s) = << >>
    BY <1>5 DEF FlattenSeq
  <2>2. << >> \o x = x
    BY ConcatEmptySeq
  <2> QED BY <1>3, <1>4, <1>5, <2>1, <2>2 DEF t
<1>6. CASE s # << >>
  <2>1. Len(s) # 0 /\ Len(s) \in 1..Len(s)
    BY <1>1, <1>6, EmptySeq
  <2>2. FlattenSeq(s) = f[Len(s)]
    BY <2>1, FlattenIsSum DEF f
  <2>3. AgreeTo(Len(s), f, g)
    <3>1. Len(s) <= Len(t)
      BY <1>1
    <3>2. AgreeTo(Len(s), s, t)
      BY <1>1 DEF AgreeTo
    <3>3. Len(s) \in Nat /\ Len(t) \in Nat
      BY <1>1
    <3>4. AddsUp(s, f) /\ AddsUp(t, g)
      BY <1>2
    <3> QED BY <3>1, <3>2, <3>3, <3>4, SumsAgree, Zenon
  <2>4. g[Len(s)] = FlattenSeq(s)
    BY <2>1, <2>2, <2>3 DEF AgreeTo
  <2>5. g[Len(s) + 1] = g[Len(s)] \o x
    BY <1>1, <1>4, <2>1
  <2> QED BY <1>3, <2>4, <2>5, Zenon DEF t
<1> QED BY <1>5, <1>6

-----------------------------------------------------------------------------
(* The bytes of the commands *)

\* The arguments of the requests that are not refused.
Argvs == {Meant(q) : q \in {p \in Requests : ~Formatted(p).invalid}}

\* Commands one after the other, as the protocol demands them.
Wire(s) == FlattenSeq([i \in 1..Len(s) |-> Command(s[i])])

\* A function on 1..n is a sequence.
LEMMA FunctionIsSeq ==
    ASSUME NEW S, NEW n \in Nat, NEW c \in [1..n -> S]
    PROVE  c \in Seq(S) /\ Len(c) = n /\ \A i \in 1..n : c[i] \in S
OBVIOUS

\* A command appended to the list is appended to the bytes.
LEMMA WireAppend ==
    ASSUME \A v \in Argvs : Command(v) \in Seq(STRING), NEW s \in Seq(Argvs), NEW v \in Argvs
    PROVE  Wire(Append(s, v)) = Wire(s) \o Command(v)
<1> DEFINE c == [i \in 1..Len(s) |-> Command(s[i])]
           d == [i \in 1..Len(Append(s, v)) |-> Command(Append(s, v)[i])]
<1>1. c \in Seq(Seq(STRING)) /\ Len(c) = Len(s)
  <2>1. Len(s) \in Nat /\ \A i \in 1..Len(s) : s[i] \in Argvs
    OBVIOUS
  <2>2. \A i \in 1..Len(s) : Command(s[i]) \in Seq(STRING)
    BY <2>1
  <2>3. c \in [1..Len(s) -> Seq(STRING)]
    BY <2>2
  <2> HIDE DEF c
  <2> QED BY <2>1, <2>3, FunctionIsSeq
<1>2. d = Append(c, Command(v))
  <2>1. /\ Len(Append(s, v)) = Len(s) + 1 /\ Len(s) \in Nat
        /\ Append(s, v)[Len(s) + 1] = v
        /\ \A i \in 1..Len(s) : Append(s, v)[i] = s[i]
    BY AppendProperties
  <2>2. /\ Append(c, Command(v)) \in Seq(Seq(STRING))
        /\ Len(Append(c, Command(v))) = Len(s) + 1
        /\ Append(c, Command(v))[Len(s) + 1] = Command(v)
        /\ \A i \in 1..Len(s) : Append(c, Command(v))[i] = c[i]
    <3> HIDE DEF c
    <3> QED BY <1>1, AppendProperties
  <2>3. \A i \in 1..(Len(s) + 1) : Command(Append(s, v)[i]) = Append(c, Command(v))[i]
    <3> SUFFICES ASSUME NEW i \in 1..(Len(s) + 1)
                 PROVE  Command(Append(s, v)[i]) = Append(c, Command(v))[i]
      OBVIOUS
    <3>1. CASE i = Len(s) + 1
      BY <2>1, <2>2, <3>1
    <3>2. CASE i # Len(s) + 1
      <4>1. i \in 1..Len(s)
        BY <2>1, <3>2
      <4>2. c[i] = Command(s[i])
        BY <4>1
      <4> HIDE DEF c
      <4> QED BY <2>1, <2>2, <4>1, <4>2
    <3> QED BY <3>1, <3>2
  <2>4. \A i \in 1..(Len(s) + 1) : d[i] = Append(c, Command(v))[i]
    <3> HIDE DEF c
    <3> QED BY <2>1, <2>3
  <2>5. \A i \in 1..(Len(s) + 1) : d[i] \in Seq(STRING)
    <3>1. \A i \in 1..(Len(s) + 1) : Append(c, Command(v))[i] \in Seq(STRING)
      <4> DEFINE e == Append(c, Command(v))
      <4>1. e \in Seq(Seq(STRING)) /\ Len(e) = Len(s) + 1
        BY <2>2
      <4> HIDE DEF e
      <4>2. \A i \in 1..Len(e) : e[i] \in Seq(STRING)
        BY <4>1, ElementOfSeq
      <4> QED BY <4>1, <4>2 DEF e
    <3> HIDE DEF c, d
    <3> QED BY <2>4, <3>1
  <2>6. d \in [1..(Len(s) + 1) -> Seq(STRING)] /\ Len(s) + 1 \in Nat
    <3>1. d = [i \in 1..(Len(s) + 1) |-> d[i]]
      BY <2>1
    <3> HIDE DEF d
    <3> QED BY <2>1, <2>5, <3>1
  <2>7. d \in Seq(Seq(STRING)) /\ Len(d) = Len(s) + 1
    <3> HIDE DEF d
    <3> QED BY <2>6, FunctionIsSeq
  <2> HIDE DEF c, d
  <2> QED BY <2>2, <2>4, <2>7, SeqEqual
<1>3. FlattenSeq(Append(c, Command(v))) = FlattenSeq(c) \o Command(v)
  <2> HIDE DEF c
  <2> QED BY <1>1, FlattenAppend
<1> QED BY <1>2, <1>3 DEF Wire

\* What has gone out and what is still to go make up the rest, wherever the
\* kernel cuts.
LEMMA CutAnywhere ==
    ASSUME NEW B, NEW r \in Seq(B), NEW s \in Seq(B), NEW k \in 0..Len(s)
    PROVE  /\ r \o SubSeq(s, 1, k) \in Seq(B)
           /\ SubSeq(s, k + 1, Len(s)) \in Seq(B)
           /\ (r \o SubSeq(s, 1, k)) \o SubSeq(s, k + 1, Len(s)) = r \o s
<1>1. Len(s) \in Nat /\ \A i \in 1..Len(s) : s[i] \in B
  OBVIOUS
<1>2. SubSeq(s, 1, k) \in Seq(B)
  BY <1>1, SubSeqProperties
<1>3. SubSeq(s, k + 1, Len(s)) \in Seq(B)
  BY <1>1, SubSeqProperties
<1>4. SubSeq(s, 1, k) \o SubSeq(s, k + 1, Len(s)) = s
  <2>1. 1 \in 1..(Len(s) + 1) /\ k \in (1 - 1)..Len(s) /\ Len(s) \in k..Len(s)
    BY <1>1
  <2>2. SubSeq(s, 1, k) \o SubSeq(s, k + 1, Len(s)) = SubSeq(s, 1, Len(s))
    BY <2>1, ConcatAdjacentSubSeq
  <2> QED BY <2>2, SubSeqFull
<1> DEFINE u == SubSeq(s, 1, k)
           v == SubSeq(s, k + 1, Len(s))
<1>5. u \in Seq(B) /\ v \in Seq(B)
  BY <1>2, <1>3
<1>6. u \o v = s
  BY <1>4
<1> HIDE DEF u, v
<1>7. r \o u \in Seq(B)
  BY <1>5, ConcatProperties
<1>8. (r \o u) \o v = r \o (u \o v)
  BY <1>5, ConcatAssociative, SMTT(60)
<1>9. r \o u \in Seq(B) /\ v \in Seq(B) /\ (r \o u) \o v = r \o s
  BY <1>5, <1>6, <1>7, <1>8
<1> QED BY <1>9 DEF u, v

\* What the server has, and then what is still in the output buffer, are the
\* commands appended to this connection.
BytesInv ==
    /\ obuf \in Seq(STRING) /\ received \in Seq(STRING)
    /\ asked \in Seq(Argvs)
    /\ received \o obuf = Wire(asked)
    /\ "assert" \notin seen

\* A command that is well formed by itself reaches the buffer behind the others.
LEMMA AppendCommandKeeps ==
    ASSUME \A q \in Requests : FormatsRight(q), BytesInv,
           NEW q \in Requests, redisAppendCommand(q)
    PROVE  BytesInv'
<1> DEFINE f == Formatted(q)
<1>1. CASE f.invalid
  <2>1. UNCHANGED <<obuf, received, asked, seen>>
    BY <1>1 DEF redisAppendCommand
  <2> QED BY <2>1 DEF BytesInv
<1>2. CASE ~f.invalid
  <2>1. f.cmd = Command(Meant(q)) /\ f.cmd \in Seq(STRING) /\ Len(f.cmd) = f.totlen
    BY <1>2 DEF FormatsRight
  <2>2. Meant(q) \in Argvs
    BY <1>2 DEF Argvs
  <2>3. \A v \in Argvs : Command(v) \in Seq(STRING)
    BY DEF Argvs, FormatsRight
  <2>4. /\ obuf' = obuf \o f.cmd /\ asked' = Append(asked, Meant(q))
        /\ seen' = seen \cup {} /\ received' = received
    BY <1>2, <2>1 DEF redisAppendCommand
  <2> HIDE DEF f
  <2>5. Wire(asked') = Wire(asked) \o f.cmd
    <3>1. Wire(Append(asked, Meant(q))) = Wire(asked) \o Command(Meant(q))
      BY <2>2, <2>3, WireAppend DEF BytesInv
    <3> QED BY <2>1, <2>4, <3>1
  <2>6. obuf \in Seq(STRING) /\ received \in Seq(STRING)
    BY DEF BytesInv
  <2>7. received \o (obuf \o f.cmd) = (received \o obuf) \o f.cmd
    BY <2>1, <2>6, ConcatAssociative, SMTT(60)
  <2>8. obuf' \in Seq(STRING)
    BY <2>1, <2>4, <2>6, ConcatProperties
  <2>9. asked' \in Seq(Argvs)
    BY <2>2, <2>4, AppendProperties DEF BytesInv
  <2>10. received' \o obuf' = Wire(asked')
    BY <2>4, <2>5, <2>7 DEF BytesInv
  <2> QED BY <2>4, <2>6, <2>8, <2>9, <2>10 DEF BytesInv
<1> QED BY <1>1, <1>2

\* Whatever part of the output the kernel takes, the stream stays in one piece.
LEMMA BufferWriteKeeps ==
    ASSUME BytesInv, redisBufferWrite
    PROVE  BytesInv'
<1>0. obuf \in Seq(STRING) /\ received \in Seq(STRING) /\ UNCHANGED <<asked, seen>>
  BY DEF BytesInv, redisBufferWrite
<1>1. CASE UNCHANGED <<obuf, received>>
  BY <1>0, <1>1 DEF BytesInv
<1>2. CASE \E k \in {0, Min({1, Len(obuf)}), Len(obuf)} :
             received' = received \o SubSeq(obuf, 1, k) /\ obuf' = Unwritten(k)
  <2>1. PICK k \in {0, Min({1, Len(obuf)}), Len(obuf)} :
          received' = received \o SubSeq(obuf, 1, k) /\ obuf' = Unwritten(k)
    BY <1>2
  <2>2. k \in 0..Len(obuf)
    <3>1. Len(obuf) \in Nat
      BY <1>0
    <3>2. Min({1, Len(obuf)}) \in {1, Len(obuf)} /\ Min({1, Len(obuf)}) <= Len(obuf)
      <4> DEFINE Least(m) == \A y \in {1, Len(obuf)} : m <= y
      <4>1. \E m \in {1, Len(obuf)} : Least(m)
        BY <3>1
      <4>2. Min({1, Len(obuf)}) = CHOOSE m \in {1, Len(obuf)} : Least(m)
        BY Zenon DEF Min
      <4> HIDE DEF Least
      <4>3. Min({1, Len(obuf)}) \in {1, Len(obuf)} /\ Least(Min({1, Len(obuf)}))
        BY <4>1, <4>2, Zenon
      <4> QED BY <4>3 DEF Least
    <3>3. Min({1, Len(obuf)}) \in 0..Len(obuf)
      BY <3>1, <3>2
    <3>4. k = 0 \/ k = Min({1, Len(obuf)}) \/ k = Len(obuf)
      BY <2>1, Zenon
    <3>5. 0 \in 0..Len(obuf) /\ Len(obuf) \in 0..Len(obuf)
      BY <3>1
    <3> QED BY <3>3, <3>4, <3>5, Zenon
  <2>3. /\ received \o SubSeq(obuf, 1, k) \in Seq(STRING)
        /\ SubSeq(obuf, k + 1, Len(obuf)) \in Seq(STRING)
        /\ (received \o SubSeq(obuf, 1, k)) \o SubSeq(obuf, k + 1, Len(obuf)) = received \o obuf
    <3>1. SUFFICES ASSUME NEW r \in Seq(STRING), NEW s \in Seq(STRING), NEW j \in 0..Len(s)
                   PROVE  /\ r \o SubSeq(s, 1, j) \in Seq(STRING)
                          /\ SubSeq(s, j + 1, Len(s)) \in Seq(STRING)
                          /\ (r \o SubSeq(s, 1, j)) \o SubSeq(s, j + 1, Len(s)) = r \o s
      BY <1>0, <2>2
    <3> QED BY CutAnywhere, ZenonT(90)
  <2> QED BY <1>0, <2>1, <2>3 DEF BytesInv, Unwritten
<1> QED BY <1>1, <1>2 DEF redisBufferWrite

\* Only appending and writing touch the bytes; reconnecting and freeing empty
\* both sides.
LEMMA BytesStep ==
    ASSUME \A q \in Requests : FormatsRight(q), BytesInv, [Next]_vars
    PROVE  BytesInv'
<1>1. ASSUME NEW q \in Requests, redisAppendCommand(q) PROVE BytesInv'
  BY <1>1, AppendCommandKeeps
<1>2. CASE redisBufferWrite
  BY <1>2, BufferWriteKeeps
<1>3. CASE redisReconnect \/ redisFree
  <2>1. obuf' = << >> /\ received' = << >> /\ asked' = << >> /\ seen' = seen \cup Foreign(fd)
    BY <1>3 DEF redisReconnect, redisFree, Fresh
  <2>2. "assert" \notin Foreign(fd)
    BY DEF Foreign
  <2>3. Wire(<< >>) = << >>
    BY DEF Wire, FlattenSeq
  <2> QED BY <2>1, <2>2, <2>3 DEF BytesInv
<1>4. ASSUME UNCHANGED <<obuf, received, asked>>, "assert" \in seen' => "assert" \in seen
      PROVE  BytesInv'
  BY <1>4 DEF BytesInv
<1>5. CASE Connecting
  <2>1. UNCHANGED <<obuf, received, asked>>
    BY <1>5 DEF Connecting, resolve, createSocket, bind, connect, waitReady, setOptions, io
  <2>2. seen' \in {seen, seen \ {"silent"}, seen \cup {"silent"}}
    BY <1>5, Zenon DEF Connecting, resolve, createSocket, bind, connect, waitReady, setOptions
  <2> QED BY <1>4, <2>1, <2>2
<1>6. CASE otherThread \/ redisGetReply \/ redisBufferRead \/ serve \/ UNCHANGED vars
  <2>1. UNCHANGED <<obuf, received, asked, seen>>
    BY <1>6 DEF otherThread, redisGetReply, redisBufferRead, serve, vars, io, conn
  <2> QED BY <1>4, <2>1
<1> QED BY <1>1, <1>2, <1>3, <1>5, <1>6 DEF Next

\* If every request by itself is turned into the bytes the protocol demands, then
\* what the server has received and what is in c->obuf are those of the commands
\* appended to this connection, in their order, none lost or doubled, wherever
\* the kernel cuts the output and however often the context reconnects; and the
\* assertion on the length of a command holds.
THEOREM CommandsAreIntact ==
    ASSUME \A q \in Requests : FormatsRight(q)
    PROVE  Spec => []CommandsIntact
<1>1. Init => BytesInv
  <2> SUFFICES ASSUME Init PROVE BytesInv
    OBVIOUS
  <2>1. obuf = << >> /\ received = << >> /\ asked = << >> /\ seen = {}
    BY DEF Init
  <2>2. Wire(<< >>) = << >>
    BY DEF Wire, FlattenSeq
  <2> QED BY <2>1, <2>2 DEF BytesInv
<1>2. BytesInv /\ [Next]_vars => BytesInv'
  BY BytesStep
<1>3. BytesInv => CommandsIntact
  BY DEF BytesInv, CommandsIntact, Stream, Wire
<1> QED BY <1>1, <1>2, <1>3, PTL DEF Spec
=============================================================================
