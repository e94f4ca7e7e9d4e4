---------------------------- MODULE AeLoopProofs ----------------------------
(***************************************************************************)
(* The event loop of ae.c for any set sizes, handlers, delays, number of   *)
(* time events and clock: the table of file events and the list of time    *)
(* events keep their invariants through every handler, every registration  *)
(* from another thread and every jump of the clock.                        *)
(***************************************************************************)
EXTENDS AeLoop, SequenceTheorems, FiniteSetTheorems, WellFoundedInduction, TLAPS

------------------------------------------------------------------------------
(* Numbers *)

\* A nonempty set of natural numbers has a least element.
LEMMA LeastNatural ==
    ASSUME NEW S \in SUBSET Nat, S # {}
    PROVE  \E n \in S : \A m \in S : n <= m
<1> DEFINE R == {ss \in Nat \X Nat : ss[1] < ss[2]}
<1>1. IsWellFoundedOn(R, Nat)
  BY NatLessThanWellFounded, Zenon DEF OpToRel
<1>2. PICK n \in S : \A m \in S : <<m, n>> \notin R
  <2> HIDE DEF R
  <2> QED BY <1>1, WFMin
<1>3. \A m \in S : n <= m
  <2> TAKE m \in S
  <2>1. <<m, n>> \notin R /\ m \in Nat /\ n \in Nat
    BY <1>2
  <2> QED BY <2>1
<1> QED BY <1>3

\* Induction over the natural numbers, for a property given as a set.
LEMMA InductiveSet ==
    ASSUME NEW P, 0 \in P, \A n \in Nat : n \in P => n + 1 \in P
    PROVE  \A n \in Nat : n \in P
<1> SUFFICES ASSUME NEW k \in Nat, k \notin P PROVE FALSE
  OBVIOUS
<1> DEFINE U == {n \in Nat : n \notin P}
<1>1. PICK j \in U : \A i \in U : j <= i
  <2>1. U \in SUBSET Nat /\ U # {}
    OBVIOUS
  <2> HIDE DEF U
  <2> QED BY <2>1, LeastNatural
<1>2. j \in Nat /\ j # 0 /\ j \notin P
  OBVIOUS
<1>3. j - 1 \in Nat /\ j - 1 \notin P
  BY <1>2
<1>4. j - 1 \in U
  BY <1>3
<1> QED BY <1>1, <1>2, <1>4

\* Highest finds the largest number of a nonempty set that is bounded.
LEMMA HighestIsLargest ==
    ASSUME NEW S \in SUBSET Int, S # {}, NEW high \in Int,
           \A n \in S : n <= high
    PROVE  Highest(S) \in S /\ \A n \in S : n <= Highest(S)
<1> DEFINE T == {t \in Nat : high - t \in S}
<1>1. T \in SUBSET Nat /\ T # {}
  <2>1. PICK n \in S : TRUE
    OBVIOUS
  <2>2. n \in Int /\ n <= high
    OBVIOUS
  <2>3. high - n \in Nat /\ high - (high - n) = n
    BY <2>2
  <2>4. high - n \in T
    BY <2>3
  <2> QED BY <2>4
<1>2. PICK t \in T : \A u \in T : t <= u
  <2> HIDE DEF T
  <2> QED BY <1>1, LeastNatural
<1> DEFINE n == high - t
<1>3. t \in Nat /\ n \in S
  OBVIOUS
<1>4. ASSUME NEW m \in S PROVE m <= n
  <2>1. m \in Int /\ m <= high
    OBVIOUS
  <2>2. high - m \in Nat /\ high - (high - m) = m
    BY <2>1
  <2>3. t <= high - m
    BY <1>2, <2>2
  <2> QED BY <2>1, <2>3, <1>3
<1> HIDE DEF n
<1> QED BY <1>3, <1>4 DEF Highest

\* A finite set of natural numbers is bounded.
LEMMA FiniteIsBounded ==
    ASSUME NEW S \in SUBSET Nat, IsFiniteSet(S)
    PROVE  \E b \in Nat : \A n \in S : n <= b
<1>1. PICK k \in Nat : ExistsBijection(1..k, S)
  BY FS_CardinalityType
<1>2. PICK f \in [1..k -> S] : \A n \in S : \E i \in 1..k : f[i] = n
  BY <1>1 DEF ExistsBijection, Bijection, Injection, Surjection
<1> DEFINE g == [i \in 1..k |-> f[i]]
           Bounded == {j \in Nat : \E b \in Nat : \A i \in 1..k : i <= j => g[i] <= b}
<1>3. g \in [1..k -> Nat]
  OBVIOUS
<1> HIDE DEF g
<1>4. 0 \in Bounded
  <2>1. \A i \in 1..k : i <= 0 => g[i] <= 0
    OBVIOUS
  <2> QED BY <2>1
<1>5. ASSUME NEW j \in Nat, j \in Bounded PROVE j + 1 \in Bounded
  <2>1. PICK b \in Nat : \A i \in 1..k : i <= j => g[i] <= b
    BY <1>5
  <2> DEFINE c == IF j + 1 <= k THEN b + g[j + 1] ELSE b
  <2>2. c \in Nat /\ b <= c /\ (j + 1 <= k => g[j + 1] <= c)
    BY <1>3, <1>5
  <2> HIDE DEF c
  <2>3. ASSUME NEW i \in 1..k, i <= j + 1 PROVE g[i] <= c
    <3>1. CASE i = j + 1
      BY <3>1, <2>2
    <3>2. CASE i <= j
      BY <3>2, <2>1, <2>2, <1>3
    <3> QED BY <3>1, <3>2, <2>3, <1>5
  <2> QED BY <2>2, <2>3, <1>5, SMTT(60)
<1>6. k \in Bounded
  <2> HIDE DEF Bounded
  <2> QED BY <1>4, <1>5, InductiveSet
<1>7. PICK b \in Nat : \A i \in 1..k : g[i] <= b
  BY <1>6
<1> QED BY <1>2, <1>7 DEF g
------------------------------------------------------------------------------
(* File events: the invariant *)

Handler == Procs \cup {NoProc}
Slot == [mask : SUBSET Dirs, proc : [Dirs -> Handler]]
Handlers == {"before", "rcb", "wcb", "tcb", "fcb"}
Labels == Handlers \cup {"start", "check", "poll", "file", "write", "timers",
                         "scan", "store", "done", "wrong"}
Steps == {"none", "mask", "proc", "maxfd", "store"}

FileTypes ==
    /\ pc \in Labels
    /\ setsize \in Sizes
    /\ events \in [0..(setsize - 1) -> Slot]
    /\ maxfd \in -1..(setsize - 1)
    /\ update \in [j : -1..(setsize - 1), back : Handlers]
    /\ ~Updating => update = NoUpdate
    /\ race \in {"no", "lost", "resized"}
    /\ interest \in [Fds -> SUBSET Dirs]
    /\ wanted \in [Fds -> [Dirs -> Handler]]
    /\ attach \in [step : Steps, fd : Fds, mask : SUBSET Dirs, proc : Handler]

\* The code that the loop's thread is in, or will be back in.
Place == IF Updating THEN update.back ELSE pc

\* The descriptors that epoll can report: those of the table, unless a maxfd
\* that was too low let the table be resized over one.
Reach == IF race = "resized" THEN Fds ELSE 0..(setsize - 1)

\* The entries of fired lie within the table, which is resized only when
\* there are none; once handlers are called they do so in any case.
FiredInv ==
    /\ fired \in Seq([fd : Reach, mask : SUBSET Dirs])
    /\ Place \in {"start", "check", "before", "poll", "timers", "tcb", "fcb", "done"}
          => fired = <<>>
    /\ Place \in {"rcb", "write", "wcb"} => fired # <<>> /\ Head(fired).fd < setsize

\* What the other thread has stored so far.
AttachInv ==
    attach.step # "none" =>
      /\ attach.fd < setsize
      /\ attach.step \in {"mask", "proc"} => attach.mask # {}
      /\ attach.step \in {"maxfd", "store"} =>
            events[attach.fd].mask # {} /\ attach.mask = {}
      /\ attach.step = "proc" =>
            /\ attach.mask \subseteq events[attach.fd].mask
            /\ \A d \in attach.mask : wanted[attach.fd][d] = attach.proc

\* A registered direction has the handler it was given, but for the directions
\* that the other thread has not finished.
HandlersInv ==
    \A fd \in 0..(setsize - 1) : \A d \in events[fd].mask :
        events[fd].proc[d] # wanted[fd][d]
          => attach.step = "proc" /\ attach.fd = fd /\ d \in attach.mask

\* The maxfd that the loop's thread has, or is about to have.
Top == IF Updating THEN update.j ELSE maxfd

\* As long as no store overtook a higher one, Top is registered, or -1, except
\* while the loop still looks for it; nothing is registered above it but by the
\* other thread; and what that thread is about to store raises maxfd.
MaxFdInv ==
    race = "no" =>
        /\ pc # "scan" /\ Top # -1 => events[Top].mask # AE_NONE
        /\ \A fd \in 0..(setsize - 1) :
              events[fd].mask # AE_NONE => fd <= Top \/ Attaching(fd)
        /\ attach.step = "store" => maxfd <= attach.fd

FileInv ==
    /\ FileTypes /\ FiredInv /\ AttachInv /\ HandlersInv
    /\ MaxFdInv /\ EpollMatches /\ CallsRegistered

\* The largest size is one of the sizes.
LEMMA HighestSize ==
    /\ Highest(Sizes) \in Sizes /\ Highest(Sizes) \in Nat \ {0}
    /\ \A n \in Sizes : n <= Highest(Sizes)
<1>1. PICK b \in Nat : \A n \in Sizes : n <= b
  <2>1. Sizes \in SUBSET Nat /\ IsFiniteSet(Sizes)
    BY LoopConstants
  <2> QED BY <2>1, FiniteIsBounded
<1>2. /\ Highest(Sizes) \in Sizes
      /\ \A n \in Sizes : n <= Highest(Sizes)
  <2>1. Sizes \in SUBSET Int /\ Sizes # {} /\ b \in Int
    BY LoopConstants
  <2> QED BY <1>1, <2>1, HighestIsLargest, Zenon
<1> QED BY <1>2, LoopConstants

\* The descriptors of the largest table include those of every table.
LEMMA TableFits ==
    /\ Fds \subseteq Nat /\ 0 \in Fds
    /\ \A n \in Sizes : n \in Nat \ {0} /\ 0..(n - 1) \subseteq Fds
<1> DEFINE h == Highest(Sizes)
<1>3. h \in Nat \ {0} /\ \A n \in Sizes : n \in Nat \ {0} /\ n <= h
  BY HighestSize, LoopConstants
<1>4. Fds = 0..(h - 1)
  BY DEF Fds
<1> HIDE DEF h
<1>5. /\ 0..(h - 1) \subseteq Nat /\ 0 \in 0..(h - 1)
      /\ \A n \in Sizes : n \in Nat \ {0} /\ 0..(n - 1) \subseteq 0..(h - 1)
  BY <1>3
<1> QED BY <1>4, <1>5, Zenon

------------------------------------------------------------------------------
(* File events: the steps *)

\* A handler registers a descriptor.
LEMMA CreateFile ==
    ASSUME FileInv, NEW fd \in Fds, NEW mask \in (SUBSET Dirs) \ {{}}, NEW proc \in Procs,
           aeCreateFileEvent(fd, mask, proc)
    PROVE  FileInv'
<1> USE DEF AE_NONE
<1>1. /\ setsize \in Nat \ {0} /\ 0..(setsize - 1) \subseteq Fds
      /\ fd \in 0..(setsize - 1) /\ proc \in Handler /\ mask \in SUBSET Dirs /\ mask # {}
  <2>1. /\ setsize \in Sizes /\ fd < setsize /\ proc \in Handler
        /\ mask \in SUBSET Dirs /\ mask # {}
    BY DEF FileInv, FileTypes, aeCreateFileEvent, Handler
  <2> QED BY <2>1, TableFits
<1>2. ~Attaching(fd)
  BY DEF aeCreateFileEvent, Known, Attaching
<1>3. /\ setsize' = setsize /\ fired' = fired /\ attach' = attach /\ maxfd' = maxfd
      /\ race' = race /\ pc \in Handlers
  BY DEF aeCreateFileEvent, InHandler, Handlers
<1>4. /\ events[fd] \in Slot /\ wanted[fd] \in [Dirs -> Handler]
      /\ With(events[fd].proc, mask, proc) \in [Dirs -> Handler]
      /\ With(wanted[fd], mask, proc) \in [Dirs -> Handler]
      /\ \A d \in Dirs : /\ With(events[fd].proc, mask, proc)[d]
                             = IF d \in mask THEN proc ELSE events[fd].proc[d]
                         /\ With(wanted[fd], mask, proc)[d]
                             = IF d \in mask THEN proc ELSE wanted[fd][d]
  <2>1. /\ events[fd] \in Slot /\ wanted[fd] \in [Dirs -> Handler]
        /\ events[fd].proc \in [Dirs -> Handler]
    BY <1>1 DEF FileInv, FileTypes, Slot
  <2>2. /\ With(events[fd].proc, mask, proc) \in [Dirs -> Handler]
        /\ \A d \in Dirs : With(events[fd].proc, mask, proc)[d]
                             = IF d \in mask THEN proc ELSE events[fd].proc[d]
    BY <1>1, <2>1 DEF With
  <2>3. /\ With(wanted[fd], mask, proc) \in [Dirs -> Handler]
        /\ \A d \in Dirs : With(wanted[fd], mask, proc)[d]
                             = IF d \in mask THEN proc ELSE wanted[fd][d]
    BY <1>1, <2>1 DEF With
  <2> QED BY <2>1, <2>2, <2>3, Zenon
<1>5. /\ events' \in [0..(setsize - 1) -> Slot]
      /\ events'[fd].mask = events[fd].mask \cup mask
      /\ events'[fd].proc = With(events[fd].proc, mask, proc)
      /\ \A g \in 0..(setsize - 1) : g # fd => events'[g] = events[g]
  BY <1>1, <1>4 DEF FileInv, FileTypes, aeCreateFileEvent, Slot
<1>6. /\ wanted' \in [Fds -> [Dirs -> Handler]]
      /\ wanted'[fd] = With(wanted[fd], mask, proc)
      /\ \A g \in Fds : g # fd => wanted'[g] = wanted[g]
  BY <1>1, <1>4 DEF FileInv, FileTypes, aeCreateFileEvent
<1>7. /\ interest' \in [Fds -> SUBSET Dirs]
      /\ interest'[fd] = events[fd].mask \cup mask
      /\ \A g \in Fds : g # fd => interest'[g] = interest[g]
  BY <1>1, <1>4 DEF FileInv, FileTypes, aeCreateFileEvent, ApiMask, Slot
<1>8. /\ ~Updating /\ Top = maxfd /\ Place' = Place /\ pc' # "wrong" /\ pc' # "scan"
      /\ pc' \in Labels
      /\ update' \in [j : -1..(setsize - 1), back : Handlers]
      /\ (~Updating => update = NoUpdate)'
      /\ Top' = IF fd > maxfd THEN fd ELSE maxfd
  <2>1. ~Updating /\ Top = maxfd /\ Place = pc /\ pc \notin {"wrong", "scan", "store"}
    BY <1>3 DEF Updating, Top, Place, Handlers
  <2>2. update = NoUpdate /\ update \in [j : -1..(setsize - 1), back : Handlers]
    BY <2>1 DEF FileInv, FileTypes
  <2>3. CASE fd > maxfd
    <3>1. pc' = "store" /\ update' = [j |-> fd, back |-> pc]
      BY <2>3 DEF aeCreateFileEvent, Update
    <3>2. Updating' /\ Place' = pc /\ Top' = fd
      BY <3>1 DEF Updating, Place, Top
    <3>3. update' \in [j : -1..(setsize - 1), back : Handlers]
      BY <3>1, <1>1, <1>3
    <3> QED BY <2>1, <2>3, <3>1, <3>2, <3>3 DEF Labels
  <2>4. CASE ~(fd > maxfd)
    <3>1. pc' = pc /\ update' = update
      BY <2>4 DEF aeCreateFileEvent
    <3>2. ~Updating' /\ Place' = pc /\ Top' = maxfd
      BY <3>1, <2>1, <1>3 DEF Updating, Place, Top
    <3> QED BY <2>1, <2>2, <2>4, <3>1, <3>2, <1>3 DEF Labels
  <2> QED BY <2>3, <2>4
<1>9. FileTypes'
  <2>1. /\ setsize \in Sizes /\ maxfd \in -1..(setsize - 1)
        /\ race \in {"no", "lost", "resized"}
        /\ attach \in [step : Steps, fd : Fds, mask : SUBSET Dirs, proc : Handler]
    BY DEF FileInv, FileTypes
  <2> QED BY <2>1, <1>3, <1>5, <1>6, <1>7, <1>8, Zenon DEF FileTypes
<1>10. FiredInv'
  BY <1>3, <1>8 DEF FileInv, FiredInv, Reach
<1>11. AttachInv'
  <2>1. attach.step # "none" => attach.fd # fd
    BY <1>2 DEF Attaching
  <2>2. attach.step # "none" => attach.fd \in 0..(setsize - 1)
    <3>1. attach.fd \in Nat
      BY TableFits DEF FileInv, FileTypes
    <3> QED BY <3>1, <1>1 DEF FileInv, AttachInv
  <2>3. attach.step # "none" => /\ events'[attach.fd] = events[attach.fd]
                                /\ wanted'[attach.fd] = wanted[attach.fd]
    BY <2>1, <2>2, <1>1, <1>5, <1>6
  <2> QED BY <2>3, <1>3 DEF FileInv, AttachInv
<1>12. HandlersInv'
  <2> SUFFICES ASSUME NEW g \in 0..(setsize - 1), NEW d \in events'[g].mask,
                      events'[g].proc[d] # wanted'[g][d]
               PROVE  attach.step = "proc" /\ attach.fd = g /\ d \in attach.mask
    BY <1>3 DEF HandlersInv
  <2>1. CASE g # fd
    BY <2>1, <1>1, <1>5, <1>6 DEF FileInv, HandlersInv
  <2>2. CASE g = fd
    <3>1. d \in Dirs /\ d \in events[fd].mask \cup mask
      BY <2>2, <1>4, <1>5 DEF Slot
    <3>2. d \notin mask
      BY <2>2, <3>1, <1>4, <1>5, <1>6
    <3>3. events[fd].proc[d] # wanted[fd][d]
      BY <2>2, <3>1, <3>2, <1>4, <1>5, <1>6
    <3> QED BY <2>2, <3>1, <3>2, <3>3, <1>1 DEF FileInv, HandlersInv
  <2> QED BY <2>1, <2>2
<1>13. MaxFdInv'
  <2> SUFFICES ASSUME race = "no"
               PROVE  /\ Top' # -1 => events'[Top'].mask # {}
                      /\ \A g \in 0..(setsize - 1) :
                            events'[g].mask # {} => g <= Top' \/ Attaching(g)
                      /\ attach.step = "store" => maxfd <= attach.fd
    BY <1>3 DEF MaxFdInv, Attaching
  <2>1. /\ maxfd # -1 => events[maxfd].mask # {}
        /\ \A g \in 0..(setsize - 1) :
              events[g].mask # {} => g <= maxfd \/ Attaching(g)
        /\ attach.step = "store" => maxfd <= attach.fd
    BY <1>3, <1>8 DEF FileInv, MaxFdInv, Handlers
  <2>2. maxfd \in -1..(setsize - 1) /\ fd \in Nat /\ Top' \in Int /\ fd <= Top' /\ maxfd <= Top'
    BY <1>1, <1>8 DEF FileInv, FileTypes
  <2>3. Top' # -1 => events'[Top'].mask # {}
    <3>1. CASE Top' = fd
      BY <3>1, <1>1, <1>5
    <3>2. CASE Top' = maxfd /\ Top' # fd /\ Top' # -1
      <4>1. maxfd \in 0..(setsize - 1)
        BY <3>2, <2>2
      <4> QED BY <4>1, <3>2, <2>1, <1>5
    <3> QED BY <3>1, <3>2, <1>8
  <2>4. ASSUME NEW g \in 0..(setsize - 1), events'[g].mask # {}
        PROVE  g <= Top' \/ Attaching(g)
    <3>1. CASE g = fd
      BY <2>2, <3>1
    <3>2. CASE g # fd
      <4>1. g <= maxfd \/ Attaching(g)
        BY <2>1, <2>4, <3>2, <1>5
      <4> QED BY <4>1, <2>2
    <3> QED BY <3>1, <3>2
  <2> QED BY <2>1, <2>3, <2>4
<1>14. EpollMatches'
  <2> SUFFICES ASSUME NEW g \in Fds
               PROVE  race # "resized" => interest'[g] = (IF g < setsize THEN events'[g].mask ELSE {})
                                       \cup (IF Attaching(g) THEN attach.mask ELSE {})
    BY <1>3 DEF EpollMatches, Attaching
  <2>1. race # "resized" => interest[g] = (IF g < setsize THEN events[g].mask ELSE {})
                        \cup (IF Attaching(g) THEN attach.mask ELSE {})
    BY DEF FileInv, EpollMatches
  <2>2. g < setsize => g \in 0..(setsize - 1)
    BY <1>1, TableFits
  <2> QED BY <2>1, <2>2, <1>1, <1>2, <1>5, <1>7
<1>15. CallsRegistered'
  BY <1>8 DEF CallsRegistered
<1> QED BY <1>9, <1>10, <1>11, <1>12, <1>13, <1>14, <1>15 DEF FileInv

\* A handler deletes the registration of some directions.
LEMMA DeleteFile ==
    ASSUME FileInv, NEW fd \in Fds, NEW mask \in (SUBSET Dirs) \ {{}},
           aeDeleteFileEvent(fd, mask)
    PROVE  FileInv'
<1> USE DEF AE_NONE
<1>1. /\ setsize \in Nat \ {0} /\ 0..(setsize - 1) \subseteq Fds
      /\ fd \in 0..(setsize - 1) /\ mask \in SUBSET Dirs /\ mask # {}
  <2>1. /\ setsize \in Sizes /\ fd < setsize /\ mask \in SUBSET Dirs /\ mask # {}
    BY DEF FileInv, FileTypes, aeDeleteFileEvent
  <2> QED BY <2>1, TableFits
<1>2. ~Attaching(fd)
  BY DEF aeDeleteFileEvent, Known, Attaching
<1>3. /\ setsize' = setsize /\ fired' = fired /\ attach' = attach /\ maxfd' = maxfd
      /\ race' = race /\ pc \in Handlers /\ events[fd].mask # {}
  BY DEF aeDeleteFileEvent, InHandler, Handlers
<1>4. /\ events[fd] \in Slot /\ wanted[fd] \in [Dirs -> Handler]
      /\ events[fd].proc \in [Dirs -> Handler]
      /\ With(wanted[fd], mask, NoProc) \in [Dirs -> Handler]
      /\ \A d \in Dirs : d \notin mask => With(wanted[fd], mask, NoProc)[d] = wanted[fd][d]
  <2>1. /\ events[fd] \in Slot /\ wanted[fd] \in [Dirs -> Handler]
        /\ events[fd].proc \in [Dirs -> Handler]
    BY <1>1 DEF FileInv, FileTypes, Slot
  <2>2. /\ With(wanted[fd], mask, NoProc) \in [Dirs -> Handler]
        /\ \A d \in Dirs : d \notin mask => With(wanted[fd], mask, NoProc)[d] = wanted[fd][d]
    BY <1>1, <2>1 DEF With, Handler
  <2> QED BY <2>1, <2>2, Zenon
<1>5. /\ events' \in [0..(setsize - 1) -> Slot]
      /\ events'[fd].mask = events[fd].mask \ mask
      /\ events'[fd].proc = events[fd].proc
      /\ \A g \in 0..(setsize - 1) : g # fd => events'[g] = events[g]
  BY <1>1, <1>4 DEF FileInv, FileTypes, aeDeleteFileEvent, Slot
<1>6. /\ wanted' \in [Fds -> [Dirs -> Handler]]
      /\ wanted'[fd] = With(wanted[fd], mask, NoProc)
      /\ \A g \in Fds : g # fd => wanted'[g] = wanted[g]
  BY <1>1, <1>4 DEF FileInv, FileTypes, aeDeleteFileEvent
<1>7. /\ interest' \in [Fds -> SUBSET Dirs]
      /\ \A g \in Fds : g # fd => interest'[g] = interest[g]
      /\ race # "resized" => interest'[fd] = events[fd].mask \ mask
  <2>1. interest \in [Fds -> SUBSET Dirs] /\ events[fd].mask \in SUBSET Dirs
    BY <1>4 DEF FileInv, FileTypes, Slot
  <2>2. interest' = IF CtlSucceeds(fd)
                    THEN [interest EXCEPT ![fd] = events[fd].mask \ mask] ELSE interest
    BY DEF aeDeleteFileEvent, ApiRest
  <2>3. race # "resized" => CtlSucceeds(fd)
    <3>1. fd < setsize
      BY <1>1
    <3>2. race # "resized" => interest[fd] = events[fd].mask
      BY <3>1, <1>1, <1>2 DEF FileInv, EpollMatches
    <3> QED BY <3>2 DEF CtlSucceeds
  <2>4. CASE CtlSucceeds(fd)
    BY <2>1, <2>2, <2>4, <1>1
  <2>5. CASE ~CtlSucceeds(fd)
    BY <2>1, <2>2, <2>3, <2>5
  <2> QED BY <2>4, <2>5
<1>8. /\ ~Updating /\ Top = maxfd /\ Place' = Place /\ pc' # "wrong" /\ pc' \in Labels
      /\ update' \in [j : -1..(setsize - 1), back : Handlers]
      /\ (~Updating => update = NoUpdate)'
      /\ \/ fd = maxfd /\ events'[fd].mask = {} /\ pc' = "scan" /\ Top' = maxfd - 1
         \/ ~(fd = maxfd /\ events'[fd].mask = {}) /\ pc' # "scan" /\ Top' = maxfd
  <2>1. ~Updating /\ Top = maxfd /\ Place = pc /\ pc \notin {"wrong", "scan", "store"}
    BY <1>3 DEF Updating, Top, Place, Handlers
  <2>2. /\ update = NoUpdate /\ update \in [j : -1..(setsize - 1), back : Handlers]
        /\ maxfd \in -1..(setsize - 1)
    BY <2>1 DEF FileInv, FileTypes
  <2>3. CASE fd = maxfd /\ events'[fd].mask = {}
    <3>1. pc' = "scan" /\ update' = [j |-> maxfd - 1, back |-> pc]
      BY <2>3 DEF aeDeleteFileEvent, Update
    <3>2. Updating' /\ Place' = pc /\ Top' = maxfd - 1
      BY <3>1 DEF Updating, Place, Top
    <3>3. maxfd - 1 \in -1..(setsize - 1)
      BY <2>3, <1>1
    <3>4. update' \in [j : -1..(setsize - 1), back : Handlers]
      BY <3>1, <3>3, <1>3
    <3> QED BY <2>1, <2>3, <3>1, <3>2, <3>4 DEF Labels
  <2>4. CASE ~(fd = maxfd /\ events'[fd].mask = {})
    <3>1. pc' = pc /\ update' = update
      BY <2>4 DEF aeDeleteFileEvent
    <3>2. ~Updating' /\ Place' = pc /\ Top' = maxfd
      BY <3>1, <2>1, <1>3 DEF Updating, Place, Top
    <3> QED BY <2>1, <2>2, <2>4, <3>1, <3>2, <1>3 DEF Labels
  <2> QED BY <2>3, <2>4
<1>9. FileTypes'
  <2>1. /\ setsize \in Sizes /\ maxfd \in -1..(setsize - 1)
        /\ race \in {"no", "lost", "resized"}
        /\ attach \in [step : Steps, fd : Fds, mask : SUBSET Dirs, proc : Handler]
    BY DEF FileInv, FileTypes
  <2> QED BY <2>1, <1>3, <1>5, <1>6, <1>7, <1>8, Zenon DEF FileTypes
<1>10. FiredInv'
  BY <1>3, <1>8 DEF FileInv, FiredInv, Reach
<1>11. AttachInv'
  <2>1. attach.step # "none" => attach.fd # fd
    BY <1>2 DEF Attaching
  <2>2. attach.step # "none" => attach.fd \in 0..(setsize - 1)
    <3>1. attach.fd \in Nat
      BY TableFits DEF FileInv, FileTypes
    <3> QED BY <3>1, <1>1 DEF FileInv, AttachInv
  <2>3. attach.step # "none" => /\ events'[attach.fd] = events[attach.fd]
                                /\ wanted'[attach.fd] = wanted[attach.fd]
    BY <2>1, <2>2, <1>1, <1>5, <1>6
  <2> QED BY <2>3, <1>3 DEF FileInv, AttachInv
<1>12. HandlersInv'
  <2> SUFFICES ASSUME NEW g \in 0..(setsize - 1), NEW d \in events'[g].mask,
                      events'[g].proc[d] # wanted'[g][d]
               PROVE  attach.step = "proc" /\ attach.fd = g /\ d \in attach.mask
    BY <1>3 DEF HandlersInv
  <2>1. CASE g # fd
    BY <2>1, <1>1, <1>5, <1>6 DEF FileInv, HandlersInv
  <2>2. CASE g = fd
    <3>1. d \in Dirs /\ d \in events[fd].mask /\ d \notin mask
      BY <2>2, <1>4, <1>5 DEF Slot
    <3>2. events[fd].proc[d] # wanted[fd][d]
      BY <2>2, <3>1, <1>4, <1>5, <1>6
    <3> QED BY <2>2, <3>1, <3>2, <1>1 DEF FileInv, HandlersInv
  <2> QED BY <2>1, <2>2
<1>13. MaxFdInv'
  <2> SUFFICES ASSUME race = "no"
               PROVE  /\ pc' # "scan" /\ Top' # -1 => events'[Top'].mask # {}
                      /\ \A g \in 0..(setsize - 1) :
                            events'[g].mask # {} => g <= Top' \/ Attaching(g)
                      /\ attach.step = "store" => maxfd <= attach.fd
    BY <1>3 DEF MaxFdInv, Attaching
  <2>1. /\ maxfd # -1 => events[maxfd].mask # {}
        /\ \A g \in 0..(setsize - 1) :
              events[g].mask # {} => g <= maxfd \/ Attaching(g)
        /\ attach.step = "store" => maxfd <= attach.fd
    BY <1>3, <1>8 DEF FileInv, MaxFdInv, Handlers
  <2>2. maxfd \in -1..(setsize - 1)
    BY DEF FileInv, FileTypes
  <2>3. pc' # "scan" /\ Top' # -1 => events'[Top'].mask # {}
    BY <2>1, <2>2, <1>1, <1>5, <1>8
  <2>4. ASSUME NEW g \in 0..(setsize - 1), events'[g].mask # {}
        PROVE  g <= Top' \/ Attaching(g)
    <3>1. events[g].mask # {}
      BY <2>4, <1>3, <1>5
    <3> QED BY <2>1, <2>2, <2>4, <3>1, <1>1, <1>8
  <2> QED BY <2>1, <2>3, <2>4
<1>14. EpollMatches'
  <2> SUFFICES ASSUME NEW g \in Fds
               PROVE  race # "resized" => interest'[g] = (IF g < setsize THEN events'[g].mask ELSE {})
                                       \cup (IF Attaching(g) THEN attach.mask ELSE {})
    BY <1>3 DEF EpollMatches, Attaching
  <2>1. race # "resized" => interest[g] = (IF g < setsize THEN events[g].mask ELSE {})
                        \cup (IF Attaching(g) THEN attach.mask ELSE {})
    BY DEF FileInv, EpollMatches
  <2>2. g < setsize => g \in 0..(setsize - 1)
    BY <1>1, TableFits
  <2> QED BY <2>1, <2>2, <1>1, <1>2, <1>5, <1>7
<1>15. CallsRegistered'
  BY <1>8 DEF CallsRegistered
<1> QED BY <1>9, <1>10, <1>11, <1>12, <1>13, <1>14, <1>15 DEF FileInv

\* The loop's thread looks for the new maxfd, slot by slot.
LEMMA ScanFile ==
    ASSUME FileInv, ScanMaxFd
    PROVE  FileInv'
<1> USE DEF AE_NONE
<1>1. /\ setsize \in Nat \ {0} /\ Updating /\ Updating' /\ Top = update.j /\ Top' = update'.j
      /\ update \in [j : -1..(setsize - 1), back : Handlers]
      /\ pc = "scan" /\ pc' \in {"scan", "store"}
      /\ UNCHANGED <<setsize, events, maxfd, race, interest, wanted, fired, attach>>
  BY TableFits DEF FileInv, FileTypes, ScanMaxFd, Updating, Top, tableVars
<1>2. \/ /\ update.j >= 0 /\ events[update.j].mask = {}
         /\ update' = [update EXCEPT !.j = update.j - 1] /\ pc' = "scan"
      \/ /\ ~(update.j >= 0 /\ events[update.j].mask = {})
         /\ update' = update /\ pc' = "store"
  BY <1>1 DEF ScanMaxFd, ScanGoesOn
<1>3. update' \in [j : -1..(setsize - 1), back : Handlers] /\ update'.back = update.back
  <2>1. update.j \in -1..(setsize - 1)
    BY <1>1
  <2>2. update.j >= 0 => update.j - 1 \in -1..(setsize - 1)
    BY <2>1, <1>1
  <2> QED BY <2>2, <1>1, <1>2
<1>4. Place' = Place /\ Reach' = Reach
  BY <1>1, <1>3 DEF Place, Reach
<1>5. FileTypes'
  BY <1>1, <1>3 DEF FileInv, FileTypes, Labels
<1>6. FiredInv' /\ AttachInv' /\ HandlersInv'
  BY <1>1, <1>4 DEF FileInv, FiredInv, AttachInv, HandlersInv
<1>7. MaxFdInv'
  <2> SUFFICES ASSUME race = "no"
               PROVE  /\ pc' # "scan" /\ Top' # -1 => events[Top'].mask # {}
                      /\ \A g \in 0..(setsize - 1) :
                            events[g].mask # {} => g <= Top' \/ Attaching(g)
                      /\ attach.step = "store" => maxfd <= attach.fd
    BY <1>1 DEF MaxFdInv, Attaching
  <2>1. /\ \A g \in 0..(setsize - 1) :
              events[g].mask # {} => g <= update.j \/ Attaching(g)
        /\ attach.step = "store" => maxfd <= attach.fd
    BY <1>1 DEF FileInv, MaxFdInv
  <2>2. update.j \in -1..(setsize - 1)
    BY <1>1
  <2>3. CASE update.j >= 0 /\ events[update.j].mask = {}
    <3>1. pc' = "scan" /\ Top' = update.j - 1
      BY <2>3, <1>1, <1>2
    <3>2. ASSUME NEW g \in 0..(setsize - 1), events[g].mask # {}
          PROVE  g <= update.j - 1 \/ Attaching(g)
      BY <2>1, <2>2, <2>3, <3>2
    <3> QED BY <2>1, <3>1, <3>2
  <2>4. CASE ~(update.j >= 0 /\ events[update.j].mask = {})
    <3>1. Top' = update.j
      BY <2>4, <1>1, <1>2
    <3> QED BY <2>1, <2>2, <2>4, <3>1
  <2> QED BY <2>3, <2>4
<1>8. EpollMatches' /\ CallsRegistered'
  BY <1>1 DEF FileInv, EpollMatches, Attaching, CallsRegistered
<1> QED BY <1>5, <1>6, <1>7, <1>8 DEF FileInv

\* The loop's thread stores its maxfd.
LEMMA StoreFile ==
    ASSUME FileInv, StoreMaxFd
    PROVE  FileInv'
<1> USE DEF AE_NONE
<1>1. /\ setsize \in Nat \ {0} /\ Updating /\ Top = update.j
      /\ update \in [j : -1..(setsize - 1), back : Handlers]
      /\ pc = "store" /\ pc' = update.back /\ maxfd' = update.j /\ update' = NoUpdate
      /\ UNCHANGED <<setsize, events, interest, wanted, fired, attach>>
      /\ race \in {"no", "lost", "resized"}
  BY TableFits DEF FileInv, FileTypes, StoreMaxFd, Updating, Top, tableVars
<1>2. /\ pc' \in Handlers /\ ~Updating' /\ Top' = update.j /\ Place' = Place
  BY <1>1 DEF Updating, Top, Place, Handlers
<1>3. /\ race' \in {"no", "lost", "resized"} /\ (race' = "resized" <=> race = "resized")
      /\ race' = "no" => race = "no" /\ (attach.step = "store" => ~(attach.fd < update.j))
  BY <1>1 DEF StoreMaxFd, Race
<1>4. Reach' = Reach
  BY <1>1, <1>3 DEF Reach
<1>5. FileTypes'
  <2>1. update.j \in -1..(setsize - 1) /\ NoUpdate \in [j : -1..(setsize - 1), back : Handlers]
    BY <1>1 DEF NoUpdate, Handlers
  <2> QED BY <2>1, <1>1, <1>2, <1>3 DEF FileInv, FileTypes, Labels
<1>6. FiredInv' /\ AttachInv' /\ HandlersInv'
  <2>1. FiredInv'
    BY <1>1, <1>2, <1>4 DEF FileInv, FiredInv
  <2>2. AttachInv' /\ HandlersInv'
    BY <1>1 DEF FileInv, AttachInv, HandlersInv
  <2> QED BY <2>1, <2>2
<1>7. MaxFdInv'
  <2>1. attach.fd \in Nat /\ update.j \in Int
    <3>1. attach.fd \in Fds /\ update.j \in -1..(setsize - 1)
      BY <1>1 DEF FileInv, FileTypes
    <3>2. Fds \subseteq Nat
      BY TableFits
    <3>3. attach.fd \in Nat
      BY <3>1, <3>2
    <3>4. setsize - 1 \in Int
      BY <1>1
    <3> QED BY <3>1, <3>3, <3>4
  <2>2. race' = "no" /\ attach.step = "store" => update.j <= attach.fd
    BY <1>3, <2>1
  <2> SUFFICES ASSUME race = "no"
               PROVE  /\ update.j # -1 => events[update.j].mask # {}
                      /\ \A g \in 0..(setsize - 1) :
                            events[g].mask # {} => g <= update.j \/ Attaching(g)
    BY <2>2, <1>1, <1>2, <1>3 DEF MaxFdInv, Attaching
  <2> QED BY <1>1 DEF FileInv, MaxFdInv
<1>8. EpollMatches' /\ CallsRegistered'
  <2>1. EpollMatches'
    BY <1>1, <1>3 DEF FileInv, EpollMatches, Attaching
  <2>2. pc' # "wrong"
    BY <1>2 DEF Handlers
  <2> QED BY <2>1, <2>2 DEF CallsRegistered
<1> QED BY <1>5, <1>6, <1>7, <1>8 DEF FileInv

\* The loop is given a table of another size.
LEMMA ResizeTable ==
    ASSUME FileInv, NEW n \in Sizes, aeResizeSetSize(n)
    PROVE  FileInv'
<1> USE DEF AE_NONE
<1>1. /\ setsize \in Nat \ {0} /\ 0..(setsize - 1) \subseteq Fds
      /\ n \in Nat \ {0} /\ 0..(n - 1) \subseteq Fds /\ Fds \subseteq Nat
      /\ maxfd \in -1..(setsize - 1) /\ maxfd < n
      /\ setsize' = n /\ maxfd' = maxfd /\ attach' = attach /\ attach.step = "none"
      /\ pc = "before" /\ pc' = pc /\ fired = <<>> /\ fired' = fired
      /\ interest' = interest /\ wanted' = wanted /\ update' = update
      /\ race' = (IF race = "no" THEN "no" ELSE "resized")
      /\ ~Updating /\ ~Updating' /\ update = NoUpdate
  <2>1. setsize \in Sizes /\ n \in Sizes
    BY DEF FileInv, FileTypes
  <2>2. /\ setsize \in Nat \ {0} /\ 0..(setsize - 1) \subseteq Fds
        /\ n \in Nat \ {0} /\ 0..(n - 1) \subseteq Fds /\ Fds \subseteq Nat
    BY <2>1, TableFits, Zenon
  <2>3. pc = "before" /\ pc' = pc /\ update' = update
    BY DEF aeResizeSetSize
  <2>4. ~Updating /\ ~Updating' /\ update = NoUpdate /\ fired = <<>>
    BY <2>3 DEF FileInv, FileTypes, FiredInv, Updating, Place
  <2>5. maxfd \in -1..(setsize - 1)
    BY DEF FileInv, FileTypes
  <2> QED BY <2>2, <2>3, <2>4, <2>5 DEF aeResizeSetSize, Fits
<1>2. /\ events' \in [0..(n - 1) -> Slot]
      /\ \A g \in 0..(n - 1) : g > maxfd => events'[g].mask = {}
      /\ \A g \in 0..(n - 1) : g <= maxfd => g \in 0..(setsize - 1) /\ events'[g] = events[g]
  <2> DEFINE kept == [i \in 0..(n - 1) |->
                        IF i < setsize THEN events[i]
                        ELSE [mask |-> Dirs, proc |-> [d \in Dirs |-> NoProc]]]
  <2>1. kept \in [0..(n - 1) -> Slot]
    <3>1. [mask |-> Dirs, proc |-> [d \in Dirs |-> NoProc]] \in Slot
      BY DEF Slot, Handler
    <3>2. events \in [0..(setsize - 1) -> Slot]
      BY DEF FileInv, FileTypes
    <3> QED BY <3>1, <3>2, <1>1
  <2>2. events' = [i \in 0..(n - 1) |->
                     IF i > maxfd THEN [kept[i] EXCEPT !.mask = {}] ELSE kept[i]]
    BY DEF aeResizeSetSize
  <2>3. \A g \in 0..(n - 1) : g <= maxfd => g \in 0..(setsize - 1) /\ kept[g] = events[g]
    BY <1>1
  <2>4. n \in Nat /\ maxfd \in Int
    BY <1>1
  <2> HIDE DEF kept
  <2> QED BY <2>1, <2>2, <2>3, <2>4 DEF Slot
<1>3. race = "no" => /\ maxfd # -1 => events[maxfd].mask # {}
                     /\ \A g \in 0..(setsize - 1) : g > maxfd => events[g].mask = {}
  BY <1>1 DEF FileInv, MaxFdInv, Attaching, Top
<1>4. FileTypes'
  <2>1. maxfd \in -1..(n - 1) /\ NoUpdate \in [j : -1..(n - 1), back : Handlers]
    BY <1>1 DEF NoUpdate, Handlers
  <2> QED BY <2>1, <1>1, <1>2 DEF FileInv, FileTypes
<1>5. FiredInv'
  <2>1. Place' = "before" /\ fired' = <<>>
    BY <1>1 DEF Place
  <2> QED BY <2>1 DEF FiredInv
<1>6. AttachInv'
  BY <1>1 DEF AttachInv
<1>7. HandlersInv'
  BY <1>1, <1>2 DEF FileInv, HandlersInv
<1>8. MaxFdInv'
  <2> SUFFICES ASSUME race = "no"
               PROVE  /\ maxfd # -1 => events'[maxfd].mask # {}
                      /\ \A g \in 0..(n - 1) : events'[g].mask # {} => g <= maxfd
    BY <1>1 DEF MaxFdInv, Top
  <2>1. maxfd # -1 => maxfd \in 0..(n - 1) /\ events[maxfd].mask # {}
    BY <1>1, <1>3
  <2>2. maxfd # -1 => events'[maxfd].mask # {}
    BY <2>1, <1>1, <1>2
  <2>3. \A g \in 0..(n - 1) : events'[g].mask # {} => g <= maxfd
    BY <1>1, <1>2
  <2> QED BY <2>2, <2>3
<1>9. EpollMatches'
  <2> SUFFICES ASSUME race = "no", NEW g \in Fds
               PROVE  interest[g] = IF g < n THEN events'[g].mask ELSE {}
    BY <1>1 DEF EpollMatches, Attaching
  <2>1. interest[g] = IF g < setsize THEN events[g].mask ELSE {}
    BY <1>1 DEF FileInv, EpollMatches, Attaching
  <2>2. g \in Nat
    BY <1>1
  <2>3. CASE g <= maxfd
    BY <2>1, <2>2, <2>3, <1>1, <1>2
  <2>4. CASE g > maxfd
    <3>1. g < setsize => events[g].mask = {}
      BY <2>2, <2>4, <1>1, <1>3
    <3>2. g < n => events'[g].mask = {}
      BY <2>2, <2>4, <1>1, <1>2
    <3> QED BY <2>1, <3>1, <3>2
  <2> QED BY <2>2, <2>3, <2>4, <1>1
<1>10. CallsRegistered'
  BY <1>1 DEF CallsRegistered
<1> QED BY <1>4, <1>5, <1>6, <1>7, <1>8, <1>9, <1>10 DEF FileInv

\* The descriptor that another thread registers lies within the table.
LEMMA AttachedSlot ==
    ASSUME FileInv, attach.step # "none"
    PROVE  attach.fd \in 0..(setsize - 1)
<1>1. attach.fd \in Nat /\ setsize \in Nat
  BY TableFits DEF FileInv, FileTypes
<1> QED BY <1>1 DEF FileInv, AttachInv

\* epoll_ctl in the other thread.
LEMMA AttachCtlFile ==
    ASSUME FileInv, NEW fd \in Fds, NEW mask \in AttachMasks, NEW proc \in Procs,
           AttachCtl(fd, mask, proc)
    PROVE  FileInv'
<1> USE DEF AE_NONE
<1>1. /\ setsize \in Nat \ {0} /\ Fds \subseteq Nat /\ fd \in 0..(setsize - 1)
      /\ mask \in SUBSET Dirs /\ mask # {} /\ proc \in Handler
  <2>1. /\ setsize \in Sizes /\ fd < setsize /\ mask \in SUBSET Dirs /\ mask # {}
        /\ proc \in Handler
    BY LoopConstants DEF FileInv, FileTypes, AttachCtl, Handler
  <2> QED BY <2>1, TableFits
<1>2. /\ pc' = pc /\ setsize' = setsize /\ events' = events /\ maxfd' = maxfd
      /\ wanted' = wanted /\ fired' = fired /\ pc # "wrong" /\ attach.step = "none"
      /\ attach' = [step |-> "mask", fd |-> fd, mask |-> mask, proc |-> proc]
      /\ interest' = [interest EXCEPT ![fd] = events[fd].mask \cup mask]
      /\ update' = update /\ race' = race /\ Updating' = Updating /\ Top' = Top
      /\ Place' = Place /\ Reach' = Reach
  BY DEF AttachCtl, ApiMask, Updating, Top, Place, Reach, Running
<1>3. events[fd] \in Slot
  BY <1>1 DEF FileInv, FileTypes
<1>4. /\ interest' \in [Fds -> SUBSET Dirs]
      /\ interest'[fd] = events[fd].mask \cup mask
      /\ \A g \in Fds : g # fd => interest'[g] = interest[g]
  BY <1>1, <1>2, <1>3 DEF FileInv, FileTypes, Slot
<1>5. FileTypes'
  BY <1>1, <1>2, <1>4 DEF FileInv, FileTypes, Steps
<1>6. FiredInv'
  BY <1>2 DEF FileInv, FiredInv
<1>7. AttachInv'
  BY <1>1, <1>2 DEF AttachInv
<1>8. HandlersInv'
  BY <1>2 DEF FileInv, HandlersInv
<1>9. MaxFdInv'
  BY <1>2 DEF FileInv, MaxFdInv, Attaching
<1>10. EpollMatches'
  <2> SUFFICES ASSUME NEW g \in Fds
               PROVE  race # "resized" => interest'[g] = (IF g < setsize THEN events[g].mask ELSE {})
                                       \cup (IF g = fd THEN mask ELSE {})
    BY <1>2 DEF EpollMatches, Attaching
  <2>1. race # "resized" => interest[g] = IF g < setsize THEN events[g].mask ELSE {}
    BY <1>2 DEF FileInv, EpollMatches, Attaching
  <2> QED BY <2>1, <1>1, <1>4
<1>11. CallsRegistered'
  BY <1>2 DEF CallsRegistered
<1> QED BY <1>5, <1>6, <1>7, <1>8, <1>9, <1>10, <1>11 DEF FileInv

\* The other thread stores the mask.
LEMMA AttachMaskFile ==
    ASSUME FileInv, AttachMask
    PROVE  FileInv'
<1> USE DEF AE_NONE
<1> DEFINE fd == attach.fd
           mask == attach.mask
<1>1. /\ setsize \in Nat \ {0} /\ fd \in 0..(setsize - 1) /\ 0..(setsize - 1) \subseteq Fds
      /\ Fds \subseteq Nat /\ mask \in SUBSET Dirs /\ mask # {} /\ attach.proc \in Handler
  BY AttachedSlot, TableFits DEF FileInv, FileTypes, AttachInv, AttachMask
<1>2. /\ pc' = pc /\ setsize' = setsize /\ maxfd' = maxfd /\ interest' = interest
      /\ fired' = fired /\ pc # "wrong" /\ attach.step = "mask"
      /\ attach' = [attach EXCEPT !.step = "proc"]
      /\ attach'.step = "proc" /\ attach'.fd = fd /\ attach'.mask = mask
      /\ update' = update /\ race' = race /\ Updating' = Updating /\ Top' = Top
      /\ Place' = Place /\ Reach' = Reach
  BY DEF AttachMask, FileInv, FileTypes, Updating, Top, Place, Reach, Running
<1>3. /\ events[fd] \in Slot /\ wanted[fd] \in [Dirs -> Handler]
  BY <1>1 DEF FileInv, FileTypes
<1>4. /\ events' \in [0..(setsize - 1) -> Slot]
      /\ events'[fd].mask = events[fd].mask \cup mask
      /\ events'[fd].proc = events[fd].proc
      /\ \A g \in 0..(setsize - 1) : g # fd => events'[g] = events[g]
  BY <1>1, <1>3 DEF FileInv, FileTypes, AttachMask, Slot
<1>5. /\ wanted' \in [Fds -> [Dirs -> Handler]]
      /\ \A g \in Fds : g # fd => wanted'[g] = wanted[g]
      /\ \A d \in Dirs : wanted'[fd][d] = IF d \in mask THEN attach.proc ELSE wanted[fd][d]
  <2>1. /\ With(wanted[fd], mask, attach.proc) \in [Dirs -> Handler]
        /\ \A d \in Dirs : With(wanted[fd], mask, attach.proc)[d]
                             = IF d \in mask THEN attach.proc ELSE wanted[fd][d]
    BY <1>1, <1>3 DEF With
  <2> QED BY <2>1, <1>1 DEF FileInv, FileTypes, AttachMask
<1>6. FileTypes'
  BY <1>2, <1>4, <1>5 DEF FileInv, FileTypes, Steps
<1>7. FiredInv'
  BY <1>2 DEF FileInv, FiredInv
<1>8. AttachInv'
  BY <1>1, <1>2, <1>4, <1>5 DEF AttachInv
<1>9. HandlersInv'
  <2> SUFFICES ASSUME NEW g \in 0..(setsize - 1), NEW d \in events'[g].mask,
                      events'[g].proc[d] # wanted'[g][d]
               PROVE  g = fd /\ d \in mask
    BY <1>2 DEF HandlersInv
  <2>1. CASE g # fd
    BY <2>1, <1>1, <1>2, <1>4, <1>5 DEF FileInv, HandlersInv
  <2>2. CASE g = fd /\ d \notin mask
    <3>1. d \in Dirs /\ d \in events[fd].mask
      BY <2>2, <1>3, <1>4 DEF Slot
    <3> QED BY <2>2, <3>1, <1>1, <1>2, <1>4, <1>5 DEF FileInv, HandlersInv
  <2> QED BY <2>1, <2>2
<1>10. MaxFdInv'
  <2> SUFFICES ASSUME race = "no"
               PROVE  /\ pc # "scan" /\ Top # -1 => events'[Top].mask # {}
                      /\ \A g \in 0..(setsize - 1) :
                            events'[g].mask # {} => g <= Top \/ g = fd
    BY <1>2 DEF MaxFdInv, Attaching
  <2>1. /\ pc # "scan" /\ Top # -1 => events[Top].mask # {}
        /\ \A g \in 0..(setsize - 1) : events[g].mask # {} => g <= Top \/ g = fd
    BY <1>2 DEF FileInv, MaxFdInv, Attaching
  <2>2. Top \in -1..(setsize - 1)
    BY DEF FileInv, FileTypes, Top
  <2>3. pc # "scan" /\ Top # -1 => Top \in 0..(setsize - 1) /\ events[Top].mask # {}
    BY <2>1, <2>2, <1>1
  <2>4. pc # "scan" /\ Top # -1 => events'[Top].mask # {}
    BY <2>3, <1>1, <1>4
  <2>5. ASSUME NEW g \in 0..(setsize - 1), events'[g].mask # {}
        PROVE  g <= Top \/ g = fd
    BY <2>5, <2>1, <1>4
  <2> QED BY <2>4, <2>5
<1>11. EpollMatches'
  <2> SUFFICES ASSUME NEW g \in Fds
               PROVE  race # "resized" => interest[g] = (IF g < setsize THEN events'[g].mask ELSE {})
                                       \cup (IF g = fd THEN mask ELSE {})
    BY <1>2 DEF EpollMatches, Attaching
  <2>1. race # "resized" => interest[g] = (IF g < setsize THEN events[g].mask ELSE {})
                        \cup (IF g = fd THEN mask ELSE {})
    BY <1>2 DEF FileInv, EpollMatches, Attaching
  <2>2. g < setsize => g \in 0..(setsize - 1)
    BY <1>1
  <2> QED BY <2>1, <2>2, <1>1, <1>4
<1>12. CallsRegistered'
  BY <1>2 DEF CallsRegistered
<1> QED BY <1>6, <1>7, <1>8, <1>9, <1>10, <1>11, <1>12 DEF FileInv

\* The other thread stores the handler.
LEMMA AttachProcFile ==
    ASSUME FileInv, AttachProc
    PROVE  FileInv'
<1> USE DEF AE_NONE
<1> DEFINE fd == attach.fd
           mask == attach.mask
<1>1. /\ setsize \in Nat \ {0} /\ fd \in 0..(setsize - 1) /\ 0..(setsize - 1) \subseteq Fds
      /\ Fds \subseteq Nat /\ mask \in SUBSET Dirs /\ mask # {} /\ attach.proc \in Handler
      /\ mask \subseteq events[fd].mask /\ 0 \in Fds
  BY AttachedSlot, TableFits DEF FileInv, FileTypes, AttachInv, AttachProc
<1>2. /\ pc' = pc /\ setsize' = setsize /\ interest' = interest /\ wanted' = wanted
      /\ fired' = fired /\ pc # "wrong" /\ attach.step = "proc"
      /\ maxfd' = maxfd
      /\ attach' = [step |-> "maxfd", fd |-> fd, mask |-> {}, proc |-> NoProc]
      /\ update' = update /\ race' = race /\ Updating' = Updating /\ Top' = Top
      /\ Place' = Place /\ Reach' = Reach
  BY DEF AttachProc, NoAttach, Updating, Top, Place, Reach, Running
<1>3. /\ events[fd] \in Slot /\ wanted[fd] \in [Dirs -> Handler]
      /\ events[fd].proc \in [Dirs -> Handler]
      /\ With(events[fd].proc, mask, attach.proc) \in [Dirs -> Handler]
      /\ \A d \in Dirs : With(events[fd].proc, mask, attach.proc)[d]
                           = IF d \in mask THEN attach.proc ELSE events[fd].proc[d]
  <2>1. /\ events[fd] \in Slot /\ wanted[fd] \in [Dirs -> Handler]
        /\ events[fd].proc \in [Dirs -> Handler]
    BY <1>1 DEF FileInv, FileTypes, Slot
  <2> QED BY <2>1, <1>1 DEF With
<1>4. /\ events' \in [0..(setsize - 1) -> Slot]
      /\ events'[fd].mask = events[fd].mask
      /\ events'[fd].proc = With(events[fd].proc, mask, attach.proc)
      /\ \A g \in 0..(setsize - 1) : g # fd => events'[g] = events[g]
  BY <1>1, <1>3 DEF FileInv, FileTypes, AttachProc, Slot
<1>6. FileTypes'
  BY <1>1, <1>2, <1>4 DEF FileInv, FileTypes, Handler, Steps
<1>7. FiredInv'
  BY <1>2 DEF FileInv, FiredInv
<1>8. AttachInv'
  BY <1>1, <1>2, <1>4 DEF AttachInv
<1>9. HandlersInv'
  <2> SUFFICES ASSUME NEW g \in 0..(setsize - 1), NEW d \in events'[g].mask
               PROVE  events'[g].proc[d] = wanted[g][d]
    BY <1>2 DEF HandlersInv
  <2>1. CASE g # fd
    BY <2>1, <1>4 DEF FileInv, HandlersInv
  <2>2. CASE g = fd
    <3>1. d \in Dirs /\ d \in events[fd].mask
      BY <2>2, <1>3, <1>4 DEF Slot
    <3>2. CASE d \in mask
      <4>1. wanted[fd][d] = attach.proc
        BY <3>2, <1>2 DEF FileInv, AttachInv
      <4> QED BY <4>1, <2>2, <3>1, <3>2, <1>3, <1>4
    <3>3. CASE d \notin mask
      <4>1. events[fd].proc[d] = wanted[fd][d]
        BY <3>1, <3>3, <1>1 DEF FileInv, HandlersInv
      <4> QED BY <4>1, <2>2, <3>1, <3>3, <1>3, <1>4
    <3> QED BY <3>2, <3>3
  <2> QED BY <2>1, <2>2
<1>10. MaxFdInv'
  <2> SUFFICES ASSUME race = "no"
               PROVE  /\ pc # "scan" /\ Top # -1 => events'[Top].mask # {}
                      /\ \A g \in 0..(setsize - 1) :
                            events'[g].mask # {} => g <= Top \/ g = fd
    BY <1>2 DEF MaxFdInv, Attaching
  <2>1. /\ pc # "scan" /\ Top # -1 => events[Top].mask # {}
        /\ \A g \in 0..(setsize - 1) : events[g].mask # {} => g <= Top \/ g = fd
    BY <1>2 DEF FileInv, MaxFdInv, Attaching
  <2>2. Top \in -1..(setsize - 1)
    BY DEF FileInv, FileTypes, Top
  <2>3. pc # "scan" /\ Top # -1 => Top \in 0..(setsize - 1) /\ events[Top].mask # {}
    BY <2>1, <2>2, <1>1
  <2>4. \A g \in 0..(setsize - 1) : events'[g].mask = events[g].mask
    BY <1>4
  <2> QED BY <2>1, <2>3, <2>4
<1>11. EpollMatches'
  <2> SUFFICES ASSUME NEW g \in Fds
               PROVE  race # "resized" => interest[g] = IF g < setsize THEN events'[g].mask ELSE {}
    BY <1>2 DEF EpollMatches, Attaching
  <2>1. race # "resized" => interest[g] = (IF g < setsize THEN events[g].mask ELSE {})
                        \cup (IF g = fd THEN mask ELSE {})
    BY <1>2 DEF FileInv, EpollMatches, Attaching
  <2>2. g < setsize => g \in 0..(setsize - 1)
    BY <1>1
  <2>3. g < setsize => events'[g].mask = events[g].mask
    BY <2>2, <1>4
  <2>4. CASE g = fd
    <3>1. fd < setsize /\ mask \subseteq events[fd].mask
      BY <1>1
    <3> QED BY <2>1, <2>3, <2>4, <3>1
  <2>5. CASE g # fd
    BY <2>1, <2>3, <2>5
  <2> QED BY <2>4, <2>5
<1>12. CallsRegistered'
  BY <1>2 DEF CallsRegistered
<1> QED BY <1>6, <1>7, <1>8, <1>9, <1>10, <1>11, <1>12 DEF FileInv

\* The other thread looks at maxfd.
LEMMA AttachMaxFdFile ==
    ASSUME FileInv, AttachMaxFd
    PROVE  FileInv'
<1> USE DEF AE_NONE
<1> DEFINE fd == attach.fd
<1>1. /\ setsize \in Nat \ {0} /\ fd \in 0..(setsize - 1) /\ maxfd \in -1..(setsize - 1)
      /\ attach.step = "maxfd" /\ 0 \in Fds
      /\ attach \in [step : Steps, fd : Fds, mask : SUBSET Dirs, proc : Handler]
      /\ race \in {"no", "lost", "resized"}
  BY AttachedSlot, TableFits DEF FileInv, FileTypes, AttachMaxFd
<1>2. /\ UNCHANGED <<pc, setsize, events, maxfd, update, interest, wanted, fired>>
      /\ Updating' = Updating /\ Top' = Top /\ Place' = Place /\ pc # "wrong"
  BY DEF AttachMaxFd, tableVars, Updating, Top, Place, Running
<1>3. \/ /\ fd > maxfd /\ attach' = [attach EXCEPT !.step = "store"] /\ race' = race
      \/ /\ ~(fd > maxfd) /\ attach' = NoAttach
         /\ race' = IF Lowering /\ race = "no" THEN "lost" ELSE race
  BY DEF AttachMaxFd, Race
<1>4. /\ race' \in {"no", "lost", "resized"} /\ (race' = "resized" <=> race = "resized")
      /\ attach' \in [step : Steps, fd : Fds, mask : SUBSET Dirs, proc : Handler]
  BY <1>1, <1>3 DEF NoAttach, Steps, Handler
<1>5. FileTypes'
  BY <1>2, <1>4 DEF FileInv, FileTypes
<1>6. FiredInv'
  BY <1>2, <1>4 DEF FileInv, FiredInv, Reach
<1>7. AttachInv'
  BY <1>1, <1>2, <1>3 DEF FileInv, AttachInv, NoAttach
<1>8. HandlersInv'
  BY <1>1, <1>2, <1>3 DEF FileInv, HandlersInv
<1>9. MaxFdInv'
  <2> SUFFICES ASSUME race' = "no"
               PROVE  /\ pc # "scan" /\ Top # -1 => events[Top].mask # {}
                      /\ \A g \in 0..(setsize - 1) :
                            events[g].mask # {} => g <= Top \/ Attaching(g)'
                      /\ attach'.step = "store" => maxfd <= attach'.fd
    BY <1>2 DEF MaxFdInv
  <2>1. race = "no"
    BY <1>3
  <2>2. /\ pc # "scan" /\ Top # -1 => events[Top].mask # {}
        /\ \A g \in 0..(setsize - 1) : events[g].mask # {} => g <= Top \/ g = fd
    BY <2>1 DEF FileInv, MaxFdInv, Attaching
  <2>3. CASE fd > maxfd
    <3>1. attach'.step = "store" /\ attach'.fd = fd
      BY <2>3, <1>1, <1>3
    <3> QED BY <2>2, <2>3, <3>1, <1>1 DEF Attaching
  <2>4. CASE ~(fd > maxfd)
    <3>1. attach'.step = "none" /\ ~Lowering
      BY <2>1, <2>4, <1>3 DEF NoAttach
    <3>2. fd <= Top
      <4>1. CASE Updating
        <5>1. update.j \in -1..(setsize - 1)
          BY DEF FileInv, FileTypes
        <5> QED BY <4>1, <5>1, <3>1, <1>1 DEF Lowering, Top
      <4>2. CASE ~Updating
        BY <4>2, <2>4, <1>1 DEF Top
      <4> QED BY <4>1, <4>2
    <3> QED BY <2>2, <3>1, <3>2
  <2> QED BY <2>3, <2>4
<1>10. EpollMatches'
  <2>1. attach.mask = {}
    BY <1>1 DEF FileInv, AttachInv
  <2>2. attach'.step = "none" \/ attach'.mask = {}
    BY <2>1, <1>1, <1>3 DEF NoAttach
  <2>3. ASSUME NEW g \in Fds
        PROVE  (IF Attaching(g)' THEN attach'.mask ELSE {})
                 = (IF Attaching(g) THEN attach.mask ELSE {})
    BY <2>1, <2>2 DEF Attaching
  <2> QED BY <2>3, <1>2, <1>4 DEF FileInv, EpollMatches
<1>11. CallsRegistered'
  BY <1>2 DEF CallsRegistered
<1> QED BY <1>5, <1>6, <1>7, <1>8, <1>9, <1>10, <1>11 DEF FileInv

\* The other thread stores its maxfd.
LEMMA AttachStoreFile ==
    ASSUME FileInv, AttachStore
    PROVE  FileInv'
<1> USE DEF AE_NONE
<1> DEFINE fd == attach.fd
<1>1. /\ setsize \in Nat \ {0} /\ fd \in 0..(setsize - 1) /\ maxfd \in -1..(setsize - 1)
      /\ attach.step = "store" /\ 0 \in Fds /\ events[fd].mask # {} /\ attach.mask = {}
      /\ race \in {"no", "lost", "resized"}
  BY AttachedSlot, TableFits DEF FileInv, FileTypes, AttachInv, AttachStore
<1>2. /\ UNCHANGED <<pc, setsize, events, update, interest, wanted, fired>>
      /\ maxfd' = fd /\ attach' = NoAttach /\ attach'.step = "none"
      /\ Updating' = Updating /\ Place' = Place /\ pc # "wrong"
      /\ race' = IF Lowering /\ race = "no" THEN "lost" ELSE race
  BY DEF AttachStore, tableVars, Updating, Place, Running, Race, NoAttach
<1>3. race' \in {"no", "lost", "resized"} /\ (race' = "resized" <=> race = "resized")
  BY <1>1, <1>2
<1>4. FileTypes'
  <2>1. NoAttach \in [step : Steps, fd : Fds, mask : SUBSET Dirs, proc : Handler]
    BY <1>1 DEF NoAttach, Steps, Handler
  <2>2. fd \in -1..(setsize - 1)
    BY <1>1
  <2> QED BY <2>1, <2>2, <1>2, <1>3 DEF FileInv, FileTypes
<1>5. FiredInv'
  BY <1>2, <1>3 DEF FileInv, FiredInv, Reach
<1>6. AttachInv'
  BY <1>2 DEF AttachInv
<1>7. HandlersInv'
  BY <1>1, <1>2 DEF FileInv, HandlersInv
<1>8. MaxFdInv'
  <2> SUFFICES ASSUME race' = "no"
               PROVE  /\ pc # "scan" /\ Top' # -1 => events[Top'].mask # {}
                      /\ \A g \in 0..(setsize - 1) : events[g].mask # {} => g <= Top'
    BY <1>2 DEF MaxFdInv
  <2>1. race = "no" /\ ~Lowering
    BY <1>2
  <2>2. /\ pc # "scan" /\ Top # -1 => events[Top].mask # {}
        /\ \A g \in 0..(setsize - 1) : events[g].mask # {} => g <= Top \/ g = fd
        /\ maxfd <= fd
    BY <2>1, <1>1 DEF FileInv, MaxFdInv, Attaching
  <2>3. CASE Updating
    <3>1. Top = update.j /\ Top' = update.j /\ ~(update.j < fd)
      BY <2>1, <2>3, <1>2 DEF Top, Lowering
    <3>2. update.j \in -1..(setsize - 1)
      BY DEF FileInv, FileTypes
    <3> QED BY <2>2, <3>1, <3>2, <1>1
  <2>4. CASE ~Updating
    <3>1. Top = maxfd /\ Top' = fd
      BY <2>4, <1>2 DEF Top
    <3> QED BY <2>2, <3>1, <1>1
  <2> QED BY <2>3, <2>4
<1>9. EpollMatches'
  <2>1. ASSUME NEW g \in Fds
        PROVE  (IF Attaching(g)' THEN attach'.mask ELSE {})
                 = (IF Attaching(g) THEN attach.mask ELSE {})
    BY <1>1, <1>2 DEF Attaching
  <2> QED BY <2>1, <1>2, <1>3 DEF FileInv, EpollMatches
<1>10. CallsRegistered'
  BY <1>2 DEF CallsRegistered
<1> QED BY <1>4, <1>5, <1>6, <1>7, <1>8, <1>9, <1>10 DEF FileInv

\* Steps that leave the table alone: the position in the loop and the entries
\* of fired are all that matters.
LEMMA FileFrame ==
    ASSUME FileInv, UNCHANGED <<fileVars, attach>>, pc' \in Labels,
           pc' = pc \/ (~Updating /\ ~Updating'), FiredInv', CallsRegistered'
    PROVE  FileInv'
<1>1. /\ setsize' = setsize /\ events' = events /\ maxfd' = maxfd
      /\ interest' = interest /\ wanted' = wanted /\ attach' = attach
      /\ update' = update /\ race' = race
  BY DEF fileVars, tableVars
<1>2. /\ Updating' = Updating /\ Top' = Top /\ (pc' # "scan" => pc # "scan")
  BY <1>1 DEF Updating, Top
<1>3. FileTypes' /\ AttachInv' /\ HandlersInv'
  BY <1>1, <1>2 DEF FileInv, FileTypes, AttachInv, HandlersInv
<1>4. MaxFdInv' /\ EpollMatches'
  BY <1>1, <1>2 DEF FileInv, MaxFdInv, EpollMatches, Attaching
<1> QED BY <1>3, <1>4 DEF FileInv

\* epoll_wait reports descriptors within reach.
LEMMA PollFile ==
    ASSUME FileInv, aeApiPoll
    PROVE  FileInv'
<1>1. PICK ready \in (SUBSET {fd \in Fds : interest[fd] # {}}) \ {{}} :
        \E order \in SetToSeqs(ready), mask \in [ready -> SUBSET Dirs] :
          fired' = [i \in DOMAIN order |-> [fd |-> order[i], mask |-> mask[order[i]]]]
  BY DEF aeApiPoll, AE_NONE
<1>2. PICK order \in SetToSeqs(ready), mask \in [ready -> SUBSET Dirs] :
        fired' = [i \in DOMAIN order |-> [fd |-> order[i], mask |-> mask[order[i]]]]
  BY <1>1
<1>3. ready \subseteq Reach
  <2> SUFFICES ASSUME NEW fd \in ready, race # "resized" PROVE fd \in 0..(setsize - 1)
    BY DEF Reach
  <2>1. fd \in Fds /\ interest[fd] # {} /\ fd \in Nat /\ setsize \in Nat
    BY TableFits DEF FileInv, FileTypes
  <2>2. CASE Attaching(fd)
    BY <2>2, AttachedSlot DEF Attaching
  <2>3. CASE ~Attaching(fd)
    BY <2>1, <2>3 DEF FileInv, EpollMatches, AE_NONE
  <2> QED BY <2>2, <2>3
<1>4. IsFiniteSet(ready)
  <2>1. Highest(Sizes) - 1 \in Int
    BY HighestSize
  <2>2. IsFiniteSet(Fds)
    BY <2>1, FS_Interval DEF Fds
  <2> QED BY <2>2, FS_Subset
<1>5. Cardinality(ready) \in Nat
  BY <1>4, FS_CardinalityType
<1>6. order \in [1..Cardinality(ready) -> ready]
  BY DEF SetToSeqs
<1>7. fired' \in Seq([fd : Reach, mask : SUBSET Dirs])
  <2>1. ASSUME NEW i \in 1..Cardinality(ready)
        PROVE  [fd |-> order[i], mask |-> mask[order[i]]]
                  \in [fd : Reach, mask : SUBSET Dirs]
    <3>1. order[i] \in ready
      BY <1>6
    <3>2. mask[order[i]] \in SUBSET Dirs
      BY <3>1
    <3> QED BY <3>1, <3>2, <1>3
  <2>2. fired' \in [1..Cardinality(ready) -> [fd : Reach, mask : SUBSET Dirs]]
    BY <1>2, <1>6, <2>1
  <2> DEFINE E == [fd : Reach, mask : SUBSET Dirs]
             n == Cardinality(ready)
  <2>3. n \in Nat /\ fired' \in [1..n -> E]
    BY <1>5, <2>2
  <2>4. fired' \in Seq(E)
    <3> HIDE DEF E, n
    <3> QED BY <2>3
  <2> QED BY <2>4
<1>8. pc' = "file" /\ pc = "poll" /\ UNCHANGED <<fileVars, attach>>
  BY DEF aeApiPoll
<1>9. ~Updating /\ ~Updating' /\ Place' = "file" /\ Reach' = Reach
  BY <1>8 DEF Updating, Place, Reach, fileVars, tableVars
<1>10. FiredInv' /\ CallsRegistered'
  BY <1>7, <1>8, <1>9 DEF FiredInv, CallsRegistered
<1> QED BY <1>8, <1>9, <1>10, FileFrame DEF Labels

\* The handlers of a fired descriptor are called. What goes wrong is a slot
\* that the other thread has half written, or one beyond the table.
LEMMA FiredStep ==
    ASSUME FileInv, FileRead \/ FileWrite \/ WriteReturn
    PROVE  FileInv'
<1> DEFINE E == [fd : Reach, mask : SUBSET Dirs]
           h == Head(fired)
<1>1. /\ pc \in {"file", "write", "wcb"} /\ UNCHANGED <<fileVars, attach>>
      /\ setsize' = setsize /\ Reach' = Reach
  BY DEF FileRead, FileWrite, WriteReturn, fileVars, tableVars, Reach
<1>2. ~Updating /\ Place = pc
  BY <1>1 DEF Updating, Place
<1>3. fired \in Seq(E) /\ fired # <<>> /\ (pc # "file" => h.fd < setsize)
  <2>1. pc = "file" => fired # <<>>
    BY <1>1 DEF FileRead, FileWrite, WriteReturn
  <2>2. FiredInv
    BY DEF FileInv
  <2> QED BY <2>1, <2>2, <1>1, <1>2 DEF FiredInv
<1>4. h \in E /\ Tail(fired) \in Seq(E)
  <2> HIDE DEF E
  <2> QED BY <1>3
<1>5. pc' \in {"rcb", "write", "wcb", "file", "wrong"}
  BY DEF FileRead, FileWrite, WriteReturn, Call
<1>6. fired' \in Seq(E) /\ (pc' # "file" => fired' = fired)
  BY <1>1, <1>3, <1>4 DEF FileRead, FileWrite, WriteReturn, Call
<1>7. pc' \in {"rcb", "write", "wcb"} => h.fd < setsize
  <2>1. h.fd \in Int /\ setsize \in Int
    <3>1. setsize \in Sizes
      BY DEF FileInv, FileTypes
    <3>2. setsize \in Nat /\ Reach \subseteq Nat
      BY <3>1, TableFits DEF Reach
    <3>3. h.fd \in Reach
      BY <1>4
    <3>4. h.fd \in Nat
      <4> HIDE DEF h
      <4> QED BY <3>2, <3>3
    <3> QED BY <3>2, <3>4
  <2> QED BY <2>1, <1>1, <1>3 DEF FileRead, FileWrite, WriteReturn
<1>8. ~Updating' /\ Place' = pc'
  BY <1>5 DEF Updating, Place
<1>9. FiredInv'
  BY <1>1, <1>3, <1>5, <1>6, <1>7, <1>8 DEF FiredInv
<1>10. ASSUME pc' = "wrong", race # "resized"
       PROVE  attach.step = "proc" /\ attach.fd = h.fd
  <2>1. h.fd \in 0..(setsize - 1) /\ setsize \in Nat
    BY <1>4, <1>10, TableFits DEF Reach, FileInv, FileTypes
  <2>2. PICK d \in Valid : events[h.fd].proc[d] # wanted[h.fd][d]
    BY <2>1, <1>10 DEF FileRead, FileWrite, WriteReturn, Call
  <2>3. d \in events[h.fd].mask
    BY <2>2 DEF Valid
  <2> QED BY <2>1, <2>2, <2>3 DEF FileInv, HandlersInv
<1>11. CallsRegistered'
  <2>1. attach' = attach /\ race' = race
    BY <1>1 DEF fileVars
  <2> QED BY <2>1, <1>6, <1>10 DEF CallsRegistered
<1>12. pc' \in Labels
  BY <1>5 DEF Labels, Handlers
<1> QED BY <1>1, <1>2, <1>8, <1>9, <1>11, <1>12, FileFrame

\* Steps that leave the entries of fired alone as well.
LEMMA FiredFrame ==
    ASSUME FileInv, UNCHANGED <<fileVars, attach, fired>>, pc' \in Labels,
           pc' # "wrong" \/ pc' = pc,
           \/ pc' = pc
           \/ /\ ~Updating /\ ~Updating'
              /\ fired = <<>> /\ pc' \notin {"rcb", "write", "wcb"}
           \/ pc = "rcb" /\ pc' = "write"
    PROVE  FileInv'
<1>1. /\ setsize' = setsize /\ update' = update /\ race' = race
      /\ attach' = attach /\ fired' = fired /\ Reach' = Reach
  BY DEF fileVars, tableVars, Reach
<1>2. pc' = pc \/ (~Updating /\ ~Updating')
  BY DEF Updating
<1>3. FiredInv
  BY DEF FileInv
<1>4. FiredInv'
  <2>1. CASE pc' = pc
    <3>1. Place' = Place
      BY <2>1, <1>1 DEF Place, Updating
    <3> QED BY <3>1, <1>1, <1>3 DEF FiredInv
  <2>2. CASE pc' # pc
    <3>1. Place = pc /\ Place' = pc'
      BY <2>2, <1>2 DEF Place
    <3> QED BY <2>2, <3>1, <1>1, <1>3 DEF FiredInv
  <2> QED BY <2>1, <2>2
<1>5. CallsRegistered'
  BY <1>1 DEF FileInv, CallsRegistered
<1> QED BY <1>2, <1>4, <1>5, FileFrame

\* The file part is kept by every step.
LEMMA FileStep == FileInv /\ [Next]_vars => FileInv'
<1> SUFFICES ASSUME FileInv, [Next]_vars PROVE FileInv'
  OBVIOUS
<1>1. pc \in Labels /\ FiredInv
  BY DEF FileInv, FileTypes
<1>2. CASE UNCHANGED vars \/ Over
  <2>1. UNCHANGED <<fileVars, attach, fired>> /\ pc' = pc
    BY <1>2 DEF vars, Over
  <2> QED BY <2>1, <1>1, FiredFrame
<1>3. CASE LoopStep
  <2>1. CASE MainStart \/ MainCheck \/ Sleep \/ PollTimeout \/ WalkStart \/ WalkRemove \/ WalkVisit \/ WalkEnd
    <3>1. /\ UNCHANGED <<fileVars, attach, fired>>
          /\ pc \in {"start", "check", "before", "poll", "file", "timers"}
          /\ (pc = "file" => fired = <<>>)
          /\ pc' \in {"check", "done", "before", "poll", "file", "timers", "fcb", "tcb"}
      BY <2>1 DEF MainStart, MainCheck, Sleep, PollTimeout, WalkStart,
         WalkRemove, WalkVisit, WalkEnd, AtEvent
    <3>2. ~Updating /\ ~Updating' /\ Place = pc
      BY <3>1 DEF Updating, Place
    <3>3. fired = <<>>
      BY <3>1, <3>2, <1>1 DEF FiredInv
    <3> QED BY <3>1, <3>2, <3>3, FiredFrame DEF Labels, Handlers
  <2>2. CASE FileRead \/ FileWrite
    BY <2>2, FiredStep
  <2>3. CASE ScanMaxFd \/ StoreMaxFd
    BY <2>3, ScanFile, StoreFile
  <2> QED BY <1>3, <2>1, <2>2, <2>3 DEF LoopStep
<1>4. CASE HandlerReturn
  <2>1. CASE WriteReturn
    BY <2>1, FiredStep
  <2>2. CASE ReadReturn \/ FinalizerReturn \/ TimeProcNoMore \/ \E d \in Delays : TimeProcAgain(d)
    <3>1. /\ UNCHANGED <<fileVars, attach, fired>>
          /\ \/ pc = "rcb" /\ pc' = "write"
             \/ pc \in {"fcb", "tcb"} /\ pc' = "timers"
      BY <2>2 DEF ReadReturn, FinalizerReturn, TimeProcNoMore, TimeProcAgain
    <3>2. ~Updating /\ ~Updating' /\ Place = pc
      BY <3>1 DEF Updating, Place
    <3>3. pc' = "timers" => fired = <<>>
      BY <3>1, <3>2, <1>1 DEF FiredInv
    <3> QED BY <3>1, <3>2, <3>3, FiredFrame DEF Labels, Handlers
  <2> QED BY <1>4, <2>1, <2>2 DEF HandlerReturn
<1>5. CASE aeApiPoll
  BY <1>5, PollFile
<1>6. CASE PollInterrupted
  <2>1. /\ UNCHANGED <<fileVars, attach, fired>> /\ pc = "poll" /\ pc' = "file"
    BY <1>6 DEF PollInterrupted
  <2>2. ~Updating /\ ~Updating' /\ Place = pc
    BY <2>1 DEF Updating, Place
  <2>3. fired = <<>>
    BY <2>1, <2>2, <1>1 DEF FiredInv
  <2> QED BY <2>1, <2>2, <2>3, FiredFrame DEF Labels, Handlers
<1>7. CASE Api
  <2>1. ASSUME NEW fd \in Fds, NEW mask \in (SUBSET Dirs) \ {{}}, NEW proc \in Procs,
               aeCreateFileEvent(fd, mask, proc)
        PROVE  FileInv'
    BY <2>1, CreateFile
  <2>2. ASSUME NEW fd \in Fds, NEW mask \in (SUBSET Dirs) \ {{}}, aeDeleteFileEvent(fd, mask)
        PROVE  FileInv'
    BY <2>2, DeleteFile
  <2>3. ASSUME NEW n \in Sizes, aeResizeSetSize(n) PROVE FileInv'
    BY <2>3, ResizeTable
  <2>4. CASE \/ \E d \in Delays : aeCreateTimeEvent(d)
             \/ \E k \in DOMAIN timers : aeDeleteTimeEvent(k)
             \/ aeStop
    <3>1. UNCHANGED <<fileVars, attach, fired>> /\ pc' = pc
      BY <2>4 DEF aeCreateTimeEvent, aeDeleteTimeEvent, aeStop
    <3> QED BY <3>1, <1>1, FiredFrame
  <2> QED BY <1>7, <2>1, <2>2, <2>3, <2>4 DEF Api
<1>8. CASE Attach
  BY <1>8, AttachCtlFile, AttachMaskFile, AttachProcFile, AttachMaxFdFile,
     AttachStoreFile DEF Attach
<1>9. CASE Tick \/ (\E t \in MsPerSec..MaxTime : SetClock(t))
  <2>1. UNCHANGED <<fileVars, attach, fired>> /\ pc' = pc
    BY <1>9 DEF Tick, SetClock
  <2> QED BY <2>1, <1>1, FiredFrame
<1> QED BY <1>2, <1>3, <1>4, <1>5, <1>6, <1>7, <1>8, <1>9 DEF Next

\* It holds when the loop is created.
LEMMA FileStart == Init => FileInv
<1> SUFFICES ASSUME Init PROVE FileInv
  OBVIOUS
<1>1. setsize \in Nat \ {0} /\ 0 \in Fds /\ Fds \subseteq Nat /\ 0..(setsize - 1) \subseteq Fds
  BY TableFits DEF Init
<1>2. pc = "start" /\ ~Updating /\ Top = -1 /\ Place = "start"
  BY DEF Init, Updating, Top, Place
<1>3. FileTypes
  <2>1. update \in [j : -1..(setsize - 1), back : Handlers] /\ maxfd \in -1..(setsize - 1)
    BY <1>1 DEF Init, NoUpdate, Handlers
  <2>2. attach \in [step : Steps, fd : Fds, mask : SUBSET Dirs, proc : Handler]
    BY <1>1 DEF Init, NoAttach, Steps, Handler
  <2> QED BY <2>1, <2>2, <1>1 DEF Init, FileTypes, Labels, Slot, Handler, AE_NONE
<1>4. FiredInv /\ AttachInv /\ HandlersInv
  BY <1>1, <1>2 DEF Init, FiredInv, AttachInv, HandlersInv, NoAttach, AE_NONE
<1>5. MaxFdInv /\ EpollMatches /\ CallsRegistered
  BY <1>1, <1>2 DEF Init, MaxFdInv, EpollMatches, CallsRegistered, Attaching, NoAttach, AE_NONE
<1> QED BY <1>3, <1>4, <1>5 DEF FileInv

\* The invariant of the table of file events, as the loop's thread and another
\* one store into it one field at a time.
THEOREM LoopFileInvariant == Spec => []FileInv
  BY FileStart, FileStep, PTL DEF Spec

\* maxfd is exact, the highest registered descriptor or -1, but for a
\* registration another thread has not finished and a store that the loop's
\* thread is about to make, until one thread overwrites a higher maxfd of the
\* other.
THEOREM LoopMaxFd == Spec => []MaxFdExact
<1>1. FileInv => MaxFdExact
  BY DEF FileInv, MaxFdInv, MaxFdExact, Top, Updating
<1> QED BY <1>1, LoopFileInvariant, PTL

\* epoll watches exactly what the table of file events says, unless the table
\* was resized by a maxfd that a lost store left too low.
THEOREM LoopEpoll == Spec => []EpollMatches
<1>1. FileInv => EpollMatches
  BY DEF FileInv
<1> QED BY <1>1, LoopFileInvariant, PTL

\* The loop calls the handler registered last, unless another thread has half
\* written the slot or the table was resized by a maxfd that a lost store left
\* too low.
THEOREM LoopCalls == Spec => []CallsRegistered
<1>1. FileInv => CallsRegistered
  BY DEF FileInv
<1> QED BY <1>1, LoopFileInvariant, PTL

------------------------------------------------------------------------------
(* Time: milliseconds, seconds and their order *)

Times == [sec : Nat, ms : 0..(MsPerSec - 1)]

\* A time in milliseconds.
Total(t) == t.sec * MsPerSec + t.ms

\* Multiplication by a number of milliseconds, as far as the clock needs it.
LEMMA Products ==
    ASSUME NEW m \in Nat \ {0}
    PROVE  /\ \A a, b \in Int : (a - b) * m = a * m - b * m
           /\ \A a, b \in Int : a < b => a * m + m <= b * m
           /\ \A a \in Nat : a * m \in Nat
<1>1. \A a, b \in Int : (a - b) * m = a * m - b * m
  OBVIOUS
<1>2. ASSUME NEW a \in Int, NEW b \in Int, a < b PROVE a * m + m <= b * m
  <2>1. b - a - 1 \in Nat /\ (b - a - 1) * m >= 0
    BY <1>2
  <2>2. (b - a - 1) * m = b * m - a * m - m
    OBVIOUS
  <2>3. a * m \in Int /\ b * m \in Int
    OBVIOUS
  <2> QED BY <2>1, <2>2, <2>3
<1>3. \A a \in Nat : a * m \in Nat
  OBVIOUS
<1> QED BY <1>1, <1>2, <1>3

\* aeGetTime splits the clock, and the first second is never 0.
LEMMA GetTime ==
    ASSUME now \in Nat
    PROVE  /\ aeGetTime \in Times /\ Total(aeGetTime) = now
           /\ now >= MsPerSec => aeGetTime.sec >= 1
<1> DEFINE m == MsPerSec
           q == now \div m
           r == now % m
<1>1. m \in Nat \ {0}
  BY LoopConstants
<1> HIDE DEF m
<1>2. q \in Nat /\ r \in 0..(m - 1) /\ now = m * q + r
  BY <1>1
<1>3. q * m = m * q
  BY <1>1, <1>2
<1>4. now >= m => q >= 1
  <2> HIDE DEF q, r
  <2>1. q = 0 => m * q = 0
    BY <1>1
  <2> QED BY <1>1, <1>2, <2>1
<1>5. aeGetTime = [sec |-> q, ms |-> r]
  BY DEF aeGetTime, m
<1> HIDE DEF q, r
<1>6. Total(aeGetTime) = q * m + r
  BY <1>5 DEF Total, m
<1> QED BY <1>1, <1>2, <1>3, <1>4, <1>5, <1>6 DEF Times, m

\* A delay added to the clock is a time: the milliseconds stay below a second.
LEMMA AddMilliseconds ==
    ASSUME now \in Nat, NEW d \in Nat
    PROVE  aeAddMillisecondsToNow(d) \in Times
<1> DEFINE m == MsPerSec
           dq == d \div m
           dr == d % m
           g == aeGetTime
<1>1. m \in Nat \ {0}
  BY LoopConstants
<1>2. g.sec \in Nat /\ g.ms \in 0..(m - 1)
  BY GetTime DEF Times
<1> HIDE DEF m, g
<1>3. dq \in Nat /\ dr \in 0..(m - 1)
  BY <1>1
<1>4. aeAddMillisecondsToNow(d) =
        IF g.ms + dr >= m THEN [sec |-> (g.sec + dq) + 1, ms |-> (g.ms + dr) - m]
                          ELSE [sec |-> g.sec + dq, ms |-> g.ms + dr]
  BY Zenon DEF aeAddMillisecondsToNow, m, g
<1> HIDE DEF dq, dr
<1> QED BY <1>1, <1>2, <1>3, <1>4 DEF Times, m

\* Before is the order of the totals.
LEMMA BeforeTotal ==
    ASSUME NEW a \in Times, NEW b \in Times
    PROVE  /\ Total(a) \in Nat
           /\ Before(a, b) <=> Total(a) < Total(b)
<1> DEFINE m == MsPerSec
<1>1. /\ m \in Nat \ {0} /\ a.sec \in Nat /\ b.sec \in Nat
      /\ a.ms \in 0..(m - 1) /\ b.ms \in 0..(m - 1)
  BY LoopConstants DEF Times
<1> DEFINE x == a.sec * m
           y == b.sec * m
<1>2. /\ x \in Nat /\ y \in Nat
      /\ a.sec < b.sec => x + m <= y
      /\ b.sec < a.sec => y + m <= x
      /\ a.sec = b.sec => x = y
  BY <1>1, Products
<1>3. Total(a) = x + a.ms /\ Total(b) = y + b.ms
  BY DEF Total
<1> HIDE DEF m, x, y
<1> QED BY <1>1, <1>2, <1>3 DEF Before

------------------------------------------------------------------------------
(* Lists of time events *)

\* A new event at the head moves the others back by one.
LEMMA LinkedList ==
    ASSUME NEW S, NEW s \in Seq(S), NEW e \in S
    PROVE  /\ <<e>> \o s \in Seq(S) /\ Len(<<e>> \o s) = Len(s) + 1
           /\ (<<e>> \o s)[1] = e
           /\ \A k \in 1..Len(s) : (<<e>> \o s)[k + 1] = s[k]
  OBVIOUS

\* Taking one event out, as the walk does it, moves what follows forward by one.
LEMMA RemovedList ==
    ASSUME NEW S, NEW s \in Seq(S), NEW i \in 1..Len(s)
    PROVE  LET r == RemoveAt(s, i)
           IN  /\ r \in Seq(S) /\ Len(r) = Len(s) - 1
               /\ \A k \in 1..(Len(s) - 1) : r[k] = IF k < i THEN s[k] ELSE s[k + 1]
<1> DEFINE a == SubSeq(s, 1, i - 1)
           b == SubSeq(s, i + 1, Len(s))
<1>1. /\ a \in Seq(S) /\ Len(a) = i - 1
      /\ \A k \in 1..(i - 1) : a[k] = s[k]
  OBVIOUS
<1>2. /\ b \in Seq(S) /\ Len(b) = Len(s) - i
      /\ \A k \in 1..(Len(s) - i) : b[k] = s[i + k]
  OBVIOUS
<1>3. RemoveAt(s, i) = a \o b
  BY DEF RemoveAt
<1> HIDE DEF a, b
<1>4. a \o b \in Seq(S) /\ Len(a \o b) = Len(s) - 1
  <2>1. a \o b \in Seq(S) /\ Len(a \o b) = Len(a) + Len(b)
    BY <1>1, <1>2, ConcatProperties
  <2>2. i \in Nat /\ Len(s) \in Nat
    OBVIOUS
  <2> QED BY <2>1, <2>2, <1>1, <1>2
<1>5. ASSUME NEW k \in 1..(Len(s) - 1)
      PROVE  (a \o b)[k] = IF k < i THEN s[k] ELSE s[k + 1]
  <2>1. CASE k < i
    BY <2>1, <1>1, <1>2
  <2>2. CASE k >= i
    <3>1. (a \o b)[k] = b[k - Len(a)]
      BY <2>2, <1>1, <1>2
    <3>2. k - Len(a) = k - i + 1 /\ k - i + 1 \in 1..(Len(s) - i) /\ i + (k - i + 1) = k + 1
      BY <2>2, <1>1
    <3>3. b[k - i + 1] = s[i + (k - i + 1)]
      BY <3>2, <1>2
    <3>4. (a \o b)[k] = s[k + 1]
      BY <3>1, <3>2, <3>3
    <3>5. ~(k < i)
      BY <2>2
    <3> QED BY <3>4, <3>5
  <2>3. k < i \/ k >= i
    OBVIOUS
  <2> QED BY <2>1, <2>2, <2>3
<1> QED BY <1>3, <1>4, <1>5

\* The same when the list is made to start behind one of its events.
LEMMA BeheadedList ==
    ASSUME NEW S, NEW s \in Seq(S), NEW i \in 1..Len(s)
    PROVE  LET r == SubSeq(s, i + 1, Len(s))
           IN  /\ r \in Seq(S) /\ Len(r) = Len(s) - i
               /\ \A k \in 1..(Len(s) - i) : r[k] = s[k + i]
  OBVIOUS

------------------------------------------------------------------------------
(* Time events: the invariant *)

TimeEvent == [node : Nat, id : Int, when : Times]
Walks == [te : Nat \ {0}, prevNull : BOOLEAN, maxId : Int, skew : BOOLEAN,
          early : SUBSET Nat]

TimeTypes ==
    /\ nextId \in Nat /\ now \in Nat /\ now >= MsPerSec /\ timeout \in Int
    /\ walk \in Walks
    /\ timers \in Seq(TimeEvent)
    /\ \A k \in 1..Len(timers) : timers[k].id \in {timers[k].node, AE_DELETED_EVENT_ID}

\* Events that are off the list for good.
Away == gone \cup leaked

\* Every event created is on the list, once, or gone, or lost.
NodesInv ==
    /\ \A k \in 1..Len(timers) : timers[k].node < nextId /\ timers[k].node \notin Away
    /\ \A n \in Away : n \in Nat /\ n < nextId
    /\ \A n \in Nat : n < nextId => n \in Away \/ \E k \in 1..Len(timers) : timers[k].node = n
    /\ gone \cap leaked = {}
    /\ \A i, j \in 1..Len(timers) : timers[i].node = timers[j].node => i = j

InWalk == Place \in {"timers", "tcb", "fcb"}

\* The events the walk has still to come to.
Todo(k) == IF Place = "tcb" THEN k > walk.te ELSE k >= walk.te

\* What lies ahead of the walk was there when it began, has not run, and is due
\* if the clock went backwards; while prev is NULL, only the events that a
\* finalizer created lie behind it.
WalkInv ==
    InWalk =>
      /\ walk.te <= Len(timers) + 1 /\ (Place = "tcb" => walk.te <= Len(timers))
      /\ walk.prevNull /\ Place # "tcb" =>
            /\ \A k \in 1..(walk.te - 1) : timers[k].node \in walk.early
            /\ \A n \in walk.early : \E k \in 1..(walk.te - 1) : timers[k].node = n
      /\ walk.maxId < nextId
      /\ \A k \in 1..Len(timers) : Todo(k) =>
            /\ timers[k].node <= walk.maxId /\ timers[k].node \notin ran
            /\ walk.skew => timers[k].when.sec = 0

\* What lies behind it has run, if the clock went backwards.
SkewInv ==
    /\ walk.skew => InWalk
    /\ walk.skew => \A k \in 1..Len(timers) :
          ~Todo(k) /\ timers[k].node <= walk.maxId => timers[k].node \in ran

TimeInv == TimeTypes /\ NodesInv /\ WalkInv /\ SkewInv /\ NeverOversleeps

\* The types of the list, its events and the walk, field by field.
LEMMA ListTypes ==
    ASSUME TimeTypes
    PROVE  /\ timers \in Seq(TimeEvent)
           /\ DOMAIN timers = 1..Len(timers) /\ Len(timers) \in Nat
           /\ \A k \in 1..Len(timers) :
                 /\ timers[k] \in TimeEvent /\ timers[k].node \in Nat
                 /\ timers[k].id \in Int /\ timers[k].when \in Times
                 /\ timers[k].when.sec \in Nat /\ timers[k].when.ms \in Int
           /\ nextId \in Nat /\ now \in Nat
           /\ walk.te \in Nat \ {0} /\ walk.prevNull \in BOOLEAN
           /\ walk.maxId \in Int /\ walk.skew \in BOOLEAN /\ walk.early \in SUBSET Nat
<1>1. timers \in Seq(TimeEvent)
  BY DEF TimeTypes
<1>2. DOMAIN timers = 1..Len(timers) /\ Len(timers) \in Nat
  BY <1>1, LenProperties
<1>3. \A k \in 1..Len(timers) : timers[k] \in TimeEvent
  BY <1>1, ElementOfSeq
<1>4. \A k \in 1..Len(timers) :
        /\ timers[k].node \in Nat /\ timers[k].id \in Int /\ timers[k].when \in Times
  BY <1>3 DEF TimeEvent
<1>5. MsPerSec \in Nat
  BY LoopConstants
<1>6. \A k \in 1..Len(timers) : timers[k].when.sec \in Nat /\ timers[k].when.ms \in Int
  BY <1>4, <1>5 DEF Times
<1>7. /\ nextId \in Nat /\ now \in Nat
      /\ walk.te \in Nat \ {0} /\ walk.prevNull \in BOOLEAN
      /\ walk.maxId \in Int /\ walk.skew \in BOOLEAN /\ walk.early \in SUBSET Nat
  BY DEF TimeTypes, Walks
<1> QED BY <1>1, <1>2, <1>3, <1>4, <1>6, <1>7

\* The parts imply the properties.
LEMMA TimeInvImplies ==
    TimeInv => TimersAccounted /\ SkewForcesAll /\ NeverOversleeps
<1> SUFFICES ASSUME TimeInv PROVE TimersAccounted /\ SkewForcesAll
  BY DEF TimeInv
<1>1. /\ DOMAIN timers = 1..Len(timers) /\ Len(timers) \in Nat
      /\ nextId \in Nat /\ walk.te \in Nat /\ walk.maxId \in Int
  BY ListTypes DEF TimeInv
<1>2. \A k \in 1..Len(timers) : timers[k].node \in Nat
  BY ListTypes DEF TimeInv
<1>3. Listed \cup gone \cup leaked = 0..(nextId - 1)
  <2>1. ASSUME NEW n \in Listed \cup Away PROVE n \in 0..(nextId - 1)
    BY <2>1, <1>1, <1>2 DEF Listed, TimeInv, NodesInv
  <2>2. ASSUME NEW n \in 0..(nextId - 1) PROVE n \in Listed \cup Away
    BY <2>2, <1>1 DEF Listed, TimeInv, NodesInv
  <2> QED BY <2>1, <2>2 DEF Away
<1>4. Listed \cap (gone \cup leaked) = {} /\ gone \cap leaked = {}
  BY <1>1 DEF Listed, TimeInv, NodesInv, Away
<1>5. \A i, j \in DOMAIN timers : timers[i].node = timers[j].node => i = j
  BY <1>1 DEF TimeInv, NodesInv
<1>6. ASSUME AtEvent
      PROVE  timers[walk.te].id <= walk.maxId /\ timers[walk.te].node \notin ran
  <2>1. /\ pc = "timers" /\ walk.te \in 1..Len(timers) /\ Todo(walk.te) /\ InWalk
    BY <1>1, <1>6 DEF AtEvent, Todo, InWalk, Place, Updating
  <2>2. timers[walk.te].node <= walk.maxId /\ timers[walk.te].node \notin ran
    BY <2>1 DEF TimeInv, WalkInv
  <2>3. timers[walk.te].id \in {timers[walk.te].node, -1}
    BY <2>1 DEF TimeInv, TimeTypes, AE_DELETED_EVENT_ID
  <2> QED BY <1>1, <1>2, <2>1, <2>2, <2>3
<1>7. SkewForcesAll
  BY <1>1 DEF SkewForcesAll, TimeInv, SkewInv, Todo
<1> QED BY <1>3, <1>4, <1>5, <1>6, <1>7 DEF TimersAccounted

------------------------------------------------------------------------------
(* Time events: the steps *)

\* Steps that touch neither the list nor the walk.
LEMMA TimeFrame ==
    ASSUME TimeInv, UNCHANGED timeVars,
           now' \in Nat, now' >= MsPerSec, timeout' \in Int, NeverOversleeps',
           \/ Place' = Place
           \/ ~InWalk /\ ~InWalk'
           \/ Place = "fcb" /\ Place' = "timers"
    PROVE  TimeInv'
<1>1. /\ timers' = timers /\ nextId' = nextId /\ walk' = walk /\ gone' = gone /\ ran' = ran
      /\ leaked' = leaked
  BY DEF timeVars
<1>2. TimeTypes' /\ NodesInv'
  BY <1>1 DEF TimeInv, TimeTypes, NodesInv, Away
<1>3. WalkInv' /\ SkewInv'
  <2>1. CASE ~InWalk'
    BY <1>1, <2>1 DEF TimeInv, WalkInv, SkewInv, InWalk
  <2>2. CASE InWalk'
    <3>1. InWalk /\ (Place' = "tcb" <=> Place = "tcb")
      BY <2>2 DEF InWalk
    <3>2. \A k \in 1..Len(timers) : Todo(k)' <=> Todo(k)
      BY <1>1, <3>1 DEF Todo
    <3> QED BY <1>1, <2>2, <3>1, <3>2 DEF TimeInv, WalkInv, SkewInv
  <2> QED BY <2>1, <2>2
<1> QED BY <1>2, <1>3 DEF TimeInv

\* Steps that leave the sleep and the clock alone as well.
LEMMA QuietStep ==
    ASSUME TimeInv, UNCHANGED <<timeVars, clockVars>>, pc' = pc \/ pc' # "poll",
           \/ Place' = Place
           \/ ~InWalk /\ ~InWalk'
           \/ Place = "fcb" /\ Place' = "timers"
    PROVE  TimeInv'
<1>1. /\ now' = now /\ timeout' = timeout /\ delay' = delay /\ skipped' = skipped
      /\ timers' = timers /\ UNCHANGED timeVars
  BY DEF clockVars, sleepVars, timeVars
<1>2. NeverOversleeps'
  BY <1>1 DEF TimeInv, NeverOversleeps
<1> QED BY <1>1, <1>2, TimeFrame DEF TimeInv, TimeTypes

\* The loop's thread is awake after epoll_wait.
LEMMA WakeStep ==
    ASSUME TimeInv, aeApiPoll \/ PollTimeout \/ PollInterrupted
    PROVE  TimeInv'
<1>1. UNCHANGED timeVars /\ pc = "poll" /\ pc' = "file" /\ now' = now /\ timeout' = 0
  BY DEF aeApiPoll, PollTimeout, PollInterrupted, Awake
<1>2. ~InWalk /\ ~InWalk' /\ NeverOversleeps'
  BY <1>1 DEF InWalk, Place, Updating, NeverOversleeps
<1> QED BY <1>1, <1>2, TimeFrame DEF TimeInv, TimeTypes

\* While it stores to the table and to maxfd it stays where it was.
LEMMA UpdateStep ==
    ASSUME FileInv, TimeInv,
           \/ \E fd \in Fds, mask \in (SUBSET Dirs) \ {{}}, proc \in Procs :
                 aeCreateFileEvent(fd, mask, proc)
           \/ \E fd \in Fds, mask \in (SUBSET Dirs) \ {{}} : aeDeleteFileEvent(fd, mask)
           \/ ScanMaxFd \/ StoreMaxFd
    PROVE  TimeInv'
<1>1. UNCHANGED <<timeVars, clockVars>>
  BY DEF aeCreateFileEvent, aeDeleteFileEvent, ScanMaxFd, StoreMaxFd
<1>2. update \in [j : -1..(setsize - 1), back : Handlers] /\ update.back \in Handlers
  BY DEF FileInv, FileTypes
<1>3. CASE \/ \E fd \in Fds, mask \in (SUBSET Dirs) \ {{}}, proc \in Procs :
                 aeCreateFileEvent(fd, mask, proc)
           \/ \E fd \in Fds, mask \in (SUBSET Dirs) \ {{}} : aeDeleteFileEvent(fd, mask)
  <2>1. /\ pc \in Handlers
        /\ \/ pc' \in {"scan", "store"} /\ update'.back = pc
           \/ pc' = pc
    BY <1>3 DEF aeCreateFileEvent, aeDeleteFileEvent, InHandler, Handlers, Update
  <2>2. Place' = Place /\ (pc' = pc \/ pc' # "poll")
    BY <2>1 DEF Place, Updating, Handlers
  <2> QED BY <2>2, <1>1, QuietStep
<1>4. CASE ScanMaxFd \/ StoreMaxFd
  <2>1. /\ pc \in {"scan", "store"}
        /\ \/ pc' \in {"scan", "store"} /\ update'.back = update.back
           \/ pc' = update.back
    BY <1>2, <1>4 DEF ScanMaxFd, StoreMaxFd
  <2>2. Place' = Place /\ pc' # "poll"
    BY <2>1, <1>2 DEF Place, Updating, Handlers
  <2> QED BY <2>2, <1>1, QuietStep
<1> QED BY <1>3, <1>4

\* Changing events without moving them accounts for the same nodes.
LEMMA SameNodes ==
    ASSUME NodesInv, nextId' = nextId, gone' = gone, leaked' = leaked,
           Len(timers') = Len(timers),
           \A k \in 1..Len(timers) : timers'[k].node = timers[k].node
    PROVE  NodesInv'
  BY DEF NodesInv, Away

\* An update of one event.
LEMMA OneEvent ==
    ASSUME TimeTypes, NEW i \in 1..Len(timers), NEW e \in TimeEvent, e.node = timers[i].node,
           e.id \in {e.node, AE_DELETED_EVENT_ID}, timers' = [timers EXCEPT ![i] = e]
    PROVE  /\ timers' \in Seq(TimeEvent) /\ Len(timers') = Len(timers)
           /\ timers'[i] = e
           /\ \A k \in 1..Len(timers) : k # i => timers'[k] = timers[k]
           /\ \A k \in 1..Len(timers) : timers'[k].node = timers[k].node
           /\ \A k \in 1..Len(timers') : timers'[k].id \in {timers'[k].node, AE_DELETED_EVENT_ID}
<1>1. timers \in Seq(TimeEvent) /\ DOMAIN timers = 1..Len(timers) /\ Len(timers) \in Nat
  BY ListTypes
<1>2. /\ timers' \in Seq(TimeEvent) /\ Len(timers') = Len(timers)
      /\ timers'[i] = e
      /\ \A k \in 1..Len(timers) : k # i => timers'[k] = timers[k]
  BY <1>1
<1>3. \A k \in 1..Len(timers) : timers[k].id \in {timers[k].node, AE_DELETED_EVENT_ID}
  BY DEF TimeTypes
<1>4. \A k \in 1..Len(timers) : timers'[k].id \in {timers'[k].node, AE_DELETED_EVENT_ID}
  BY <1>2, <1>3
<1> QED BY <1>2, <1>4

\* aeCreateTimeEvent, called by any handler: the new event is behind the walk.
LEMMA CreateTime ==
    ASSUME TimeInv, NEW d \in Delays, aeCreateTimeEvent(d)
    PROVE  TimeInv'
<1> DEFINE e == [node |-> nextId, id |-> nextId, when |-> aeAddMillisecondsToNow(d)]
<1>1. /\ timers \in Seq(TimeEvent) /\ Len(timers) \in Nat /\ nextId \in Nat /\ now \in Nat
      /\ walk.te \in Nat \ {0} /\ walk.maxId \in Int
      /\ \A k \in 1..Len(timers) : timers[k].node \in Nat
      /\ walk.early \in SUBSET Nat
  BY ListTypes DEF TimeInv
<1>2. e \in TimeEvent
  <2>1. d \in Nat
    BY LoopConstants
  <2> QED BY <2>1, <1>1, AddMilliseconds DEF TimeEvent
<1>3. timers' = <<e>> \o timers
  BY DEF aeCreateTimeEvent, Linked
<1>4. /\ pc' = pc /\ pc \in Handlers /\ Place = pc /\ Place' = pc /\ nextId' = nextId + 1
      /\ gone' = gone /\ leaked' = leaked /\ Away' = Away /\ ran' = ran
      /\ now' = now /\ timeout' = timeout
      /\ e.node = nextId /\ e.id = nextId
  BY DEF aeCreateTimeEvent, InHandler, Handlers, clockVars, sleepVars, Place, Updating, Away
<1> HIDE DEF e
<1>5. /\ timers' \in Seq(TimeEvent) /\ Len(timers') = Len(timers) + 1
      /\ timers'[1] = e
      /\ \A k \in 1..Len(timers) : timers'[k + 1] = timers[k]
  BY <1>1, <1>2, <1>3, LinkedList
<1>6. \A k \in 2..(Len(timers) + 1) : k - 1 \in 1..Len(timers) /\ timers'[k] = timers[k - 1]
  <2> TAKE k \in 2..(Len(timers) + 1)
  <2>1. k - 1 \in 1..Len(timers) /\ (k - 1) + 1 = k
    BY <1>1
  <2>2. timers'[(k - 1) + 1] = timers[k - 1]
    BY <2>1, <1>5
  <2> QED BY <2>1, <2>2
<1>7. /\ walk' \in Walks
      /\ walk'.maxId = walk.maxId /\ walk'.skew = walk.skew
      /\ pc \in {"tcb", "fcb"} => walk'.te = walk.te + 1
      /\ pc = "fcb" /\ walk'.prevNull => /\ walk.prevNull
                                        /\ walk'.early = walk.early \cup {nextId}
  <2>1. walk \in Walks
    BY DEF TimeInv, TimeTypes
  <2>2. CASE pc \notin {"tcb", "fcb"}
    BY <2>1, <2>2 DEF aeCreateTimeEvent
  <2>3. CASE pc \in {"tcb", "fcb"}
    <3> DEFINE early == IF pc = "fcb" /\ walk.prevNull THEN walk.early \cup {nextId}
                                                       ELSE walk.early
    <3>1. walk' = [walk EXCEPT !.te = walk.te + 1, !.early = early]
      BY <2>3 DEF aeCreateTimeEvent
    <3>2. early \in SUBSET Nat /\ walk.te + 1 \in Nat \ {0}
      BY <1>1
    <3>3. pc = "fcb" /\ walk.prevNull => early = walk.early \cup {nextId}
      OBVIOUS
    <3> HIDE DEF early
    <3> QED BY <2>1, <2>3, <3>1, <3>2, <3>3 DEF Walks
  <2> QED BY <2>2, <2>3
<1>8. TimeTypes'
  <2>1. ASSUME NEW k \in 1..(Len(timers) + 1)
        PROVE  timers'[k].id \in {timers'[k].node, AE_DELETED_EVENT_ID}
    <3>1. CASE k = 1
      BY <3>1, <1>4, <1>5
    <3>2. CASE k \in 2..(Len(timers) + 1)
      BY <3>2, <1>6 DEF TimeInv, TimeTypes
    <3> QED BY <3>1, <3>2, <1>1
  <2> QED BY <2>1, <1>1, <1>4, <1>5, <1>7 DEF TimeInv, TimeTypes
<1>9. NodesInv'
  <2>1. ASSUME NEW k \in 1..(Len(timers) + 1)
        PROVE  timers'[k].node < nextId + 1 /\ timers'[k].node \notin Away
    <3>1. CASE k = 1
      <4>1. nextId \notin Away
        BY <1>1 DEF TimeInv, NodesInv
      <4> QED BY <4>1, <3>1, <1>1, <1>4, <1>5
    <3>2. CASE k \in 2..(Len(timers) + 1)
      BY <3>2, <1>1, <1>6 DEF TimeInv, NodesInv
    <3> QED BY <3>1, <3>2, <1>1
  <2>2. \A n \in Away : n \in Nat /\ n < nextId + 1
    BY <1>1 DEF TimeInv, NodesInv
  <2>3. ASSUME NEW n \in Nat, n < nextId + 1, n \notin Away
        PROVE  \E k \in 1..(Len(timers) + 1) : timers'[k].node = n
    <3>1. CASE n = nextId
      BY <3>1, <1>1, <1>4, <1>5
    <3>2. CASE n < nextId
      <4>1. PICK j \in 1..Len(timers) : timers[j].node = n
        BY <2>3, <3>2 DEF TimeInv, NodesInv
      <4>2. j + 1 \in 1..(Len(timers) + 1) /\ timers'[j + 1].node = n
        BY <4>1, <1>1, <1>5
      <4> QED BY <4>2
    <3> QED BY <2>3, <3>1, <3>2, <1>1
  <2>4. ASSUME NEW i \in 1..(Len(timers) + 1), NEW j \in 1..(Len(timers) + 1),
               timers'[i].node = timers'[j].node
        PROVE  i = j
    <3>1. \A k \in 2..(Len(timers) + 1) : timers'[k].node # nextId
      BY <1>1, <1>6, SMTT(60) DEF TimeInv, NodesInv
    <3>2. (i = 1 /\ j = 1) \/ (i \in 2..(Len(timers) + 1) /\ j \in 2..(Len(timers) + 1))
      BY <2>4, <3>1, <1>1, <1>4, <1>5
    <3>3. CASE i \in 2..(Len(timers) + 1) /\ j \in 2..(Len(timers) + 1)
      <4>1. i - 1 \in 1..Len(timers) /\ j - 1 \in 1..Len(timers)
            /\ timers[i - 1].node = timers[j - 1].node
        BY <2>4, <3>3, <1>6
      <4>2. \A p, q \in 1..Len(timers) : timers[p].node = timers[q].node => p = q
        BY DEF TimeInv, NodesInv
      <4>3. i - 1 = j - 1
        BY <4>1, <4>2
      <4> QED BY <4>3, <3>3, <1>1
    <3> QED BY <3>2, <3>3
  <2>5. gone \cap leaked = {}
    BY DEF TimeInv, NodesInv
  <2> QED BY <2>1, <2>2, <2>3, <2>4, <2>5, <1>4, <1>5 DEF NodesInv
<1>10. ASSUME pc \in {"tcb", "fcb"}, NEW k \in 1..(Len(timers) + 1), Todo(k)'
       PROVE  k \in 2..(Len(timers) + 1) /\ Todo(k - 1)
  BY <1>1, <1>4, <1>7, <1>10 DEF Todo
<1>11. WalkInv'
  <2>1. CASE pc \notin {"tcb", "fcb"}
    BY <2>1, <1>4 DEF WalkInv, InWalk, Handlers
  <2>2. CASE pc \in {"tcb", "fcb"}
    <3>1. /\ walk.te <= Len(timers) + 1 /\ (pc = "tcb" => walk.te <= Len(timers))
          /\ walk.maxId < nextId
      BY <2>2, <1>4 DEF TimeInv, WalkInv, InWalk
    <3>2. ASSUME NEW k \in 1..(Len(timers) + 1), Todo(k)'
          PROVE  /\ timers'[k].node <= walk.maxId /\ timers'[k].node \notin ran
                 /\ walk.skew => timers'[k].when.sec = 0
      <4>1. k \in 2..(Len(timers) + 1) /\ Todo(k - 1) /\ k - 1 \in 1..Len(timers)
            /\ timers'[k] = timers[k - 1]
        BY <2>2, <3>2, <1>6, <1>10
      <4> QED BY <4>1, <2>2, <1>4 DEF TimeInv, WalkInv, InWalk
    <3>3. /\ walk'.te <= Len(timers') + 1 /\ (pc = "tcb" => walk'.te <= Len(timers'))
          /\ walk'.maxId < nextId'
      BY <3>1, <2>2, <1>1, <1>4, <1>5, <1>7
    <3>4. ASSUME walk'.prevNull, pc = "fcb"
          PROVE  /\ \A k \in 1..(walk'.te - 1) : timers'[k].node \in walk'.early
                 /\ \A m \in walk'.early : \E k \in 1..(walk'.te - 1) : timers'[k].node = m
      <4>1. walk'.te = walk.te + 1 /\ walk'.early = walk.early \cup {nextId}
        BY <3>4, <1>7
      <4>2. /\ \A k \in 1..(walk.te - 1) : timers[k].node \in walk.early
            /\ \A m \in walk.early : \E k \in 1..(walk.te - 1) : timers[k].node = m
        BY <3>4, <1>4, <1>7 DEF TimeInv, WalkInv, InWalk
      <4>3. ASSUME NEW k \in 1..walk.te PROVE timers'[k].node \in walk'.early
        <5>1. CASE k = 1
          BY <5>1, <4>1, <1>4, <1>5
        <5>2. CASE k # 1
          <6>1. k - 1 \in 1..(walk.te - 1) /\ k \in 2..(Len(timers) + 1)
            BY <5>2, <3>1, <1>1
          <6> QED BY <6>1, <4>1, <4>2, <1>6
        <5> QED BY <5>1, <5>2
      <4>4. ASSUME NEW m \in walk'.early PROVE \E k \in 1..walk.te : timers'[k].node = m
        <5>1. CASE m = nextId
          BY <5>1, <1>1, <1>4, <1>5
        <5>2. CASE m \in walk.early
          <6>1. PICK k \in 1..(walk.te - 1) : timers[k].node = m
            BY <5>2, <4>2
          <6>2. k + 1 \in 1..walk.te /\ k \in 1..Len(timers)
            BY <3>1, <1>1
          <6> QED BY <6>1, <6>2, <1>5
        <5> QED BY <5>1, <5>2, <4>1
      <4>5. walk'.te - 1 = walk.te
        BY <4>1, <1>1
      <4> QED BY <4>3, <4>4, <4>5
    <3> QED BY <2>2, <3>2, <3>3, <3>4, <1>4, <1>5, <1>7 DEF WalkInv
  <2> QED BY <2>1, <2>2
<1>12. SkewInv'
  <2>1. CASE pc \notin {"tcb", "fcb"}
    BY <2>1, <1>4, <1>7 DEF TimeInv, SkewInv, InWalk, Handlers
  <2>2. CASE pc \in {"tcb", "fcb"}
    <3>1. ASSUME walk.skew, NEW k \in 1..(Len(timers) + 1), ~Todo(k)',
                 timers'[k].node <= walk.maxId
          PROVE  timers'[k].node \in ran
      <4>1. k # 1
        <5>1. walk.maxId < nextId
          BY <2>2, <1>4 DEF TimeInv, WalkInv, InWalk
        <5>2. timers'[1].node = nextId
          BY <1>4, <1>5
        <5> QED BY <3>1, <5>1, <5>2, <1>1
      <4>2. k \in 2..(Len(timers) + 1) /\ k - 1 \in 1..Len(timers) /\ timers'[k] = timers[k - 1]
        BY <4>1, <1>1, <1>6
      <4>3. ~Todo(k - 1)
        BY <2>2, <3>1, <4>2, <1>1, <1>4, <1>7 DEF Todo
      <4> QED BY <3>1, <4>2, <4>3 DEF TimeInv, SkewInv
    <3> QED BY <2>2, <3>1, <1>4, <1>5, <1>7 DEF SkewInv, InWalk
  <2> QED BY <2>1, <2>2
<1>13. NeverOversleeps'
  BY <1>4 DEF NeverOversleeps, Handlers
<1> QED BY <1>8, <1>9, <1>11, <1>12, <1>13 DEF TimeInv

\* aeDeleteTimeEvent marks an event.
LEMMA DeleteTime ==
    ASSUME TimeInv, NEW i \in DOMAIN timers, aeDeleteTimeEvent(i)
    PROVE  TimeInv'
<1> DEFINE e == [timers[i] EXCEPT !.id = AE_DELETED_EVENT_ID]
<1>1. /\ timers \in Seq(TimeEvent) /\ Len(timers) \in Nat /\ i \in 1..Len(timers)
      /\ timers[i] \in TimeEvent
  BY ListTypes DEF TimeInv
<1>2. /\ e \in TimeEvent /\ e.node = timers[i].node /\ e.id \in {e.node, AE_DELETED_EVENT_ID}
      /\ e.when = timers[i].when
  BY <1>1, SMTT(60) DEF TimeEvent, AE_DELETED_EVENT_ID
<1>3. timers' = [timers EXCEPT ![i] = e]
  BY DEF aeDeleteTimeEvent
<1>4. /\ pc' = pc /\ InHandler /\ nextId' = nextId /\ walk' = walk
      /\ gone' = gone /\ leaked' = leaked /\ ran' = ran /\ now' = now /\ timeout' = timeout
      /\ Place' = Place
  BY DEF aeDeleteTimeEvent, clockVars, sleepVars, fileVars, Place, Updating
<1> HIDE DEF e
<1>5. /\ timers' \in Seq(TimeEvent) /\ Len(timers') = Len(timers)
      /\ timers'[i] = e
      /\ \A k \in 1..Len(timers) : k # i => timers'[k] = timers[k]
      /\ \A k \in 1..Len(timers) : timers'[k].node = timers[k].node
      /\ \A k \in 1..Len(timers') : timers'[k].id \in {timers'[k].node, AE_DELETED_EVENT_ID}
  BY <1>1, <1>2, <1>3, OneEvent DEF TimeInv
<1>6. \A k \in 1..Len(timers) : timers'[k].when = timers[k].when
  BY <1>2, <1>5
<1>7. TimeTypes'
  BY <1>4, <1>5 DEF TimeInv, TimeTypes
<1>8. NodesInv'
  BY <1>4, <1>5, SameNodes DEF TimeInv
<1>9. \A k \in 1..Len(timers) : Todo(k)' <=> Todo(k)
  BY <1>4 DEF Todo
<1>10. WalkInv'
  <2> SUFFICES ASSUME InWalk PROVE WalkInv'
    BY <1>4 DEF WalkInv, InWalk
  <2>1. walk.te <= Len(timers) + 1 /\ walk.te \in Nat
    BY ListTypes DEF TimeInv, WalkInv
  <2>2. \A k \in 1..(walk.te - 1) : timers'[k].node = timers[k].node
    BY <2>1, <1>1, <1>5
  <2>3. /\ Place = "tcb" => walk.te <= Len(timers)
        /\ walk.maxId < nextId
        /\ \A k \in 1..Len(timers) : Todo(k)' =>
              /\ timers'[k].node <= walk.maxId /\ timers'[k].node \notin ran
              /\ walk.skew => timers'[k].when.sec = 0
    BY <1>5, <1>6, <1>9 DEF TimeInv, WalkInv
  <2>4. walk.prevNull /\ Place # "tcb" =>
            /\ \A k \in 1..(walk.te - 1) : timers'[k].node \in walk.early
            /\ \A m \in walk.early : \E k \in 1..(walk.te - 1) : timers'[k].node = m
    BY <2>2, SMTT(60) DEF TimeInv, WalkInv
  <2> QED BY <2>1, <2>3, <2>4, <1>4, <1>5 DEF WalkInv
<1>11. SkewInv'
  BY <1>4, <1>5, <1>9 DEF TimeInv, SkewInv, InWalk
<1>12. NeverOversleeps'
  BY <1>4 DEF NeverOversleeps, InHandler
<1> QED BY <1>7, <1>8, <1>10, <1>11, <1>12 DEF TimeInv

\* processTimeEvents begins: if the clock went backwards, every event is due.
LEMMA WalkStartTime ==
    ASSUME TimeInv, WalkStart
    PROVE  TimeInv'
<1> DEFINE skew == aeGetTime.sec < lastTime
<1>1. /\ timers \in Seq(TimeEvent) /\ DOMAIN timers = 1..Len(timers) /\ Len(timers) \in Nat
      /\ \A k \in 1..Len(timers) : timers[k] \in TimeEvent /\ timers[k].node \in Nat
      /\ nextId \in Nat
  BY ListTypes DEF TimeInv
<1>2. /\ pc' = "timers" /\ nextId' = nextId /\ gone' = gone /\ leaked' = leaked /\ ran' = {}
      /\ now' = now /\ timeout' = timeout /\ Place' = "timers"
      /\ walk' = [te |-> 1, prevNull |-> TRUE, maxId |-> nextId - 1, skew |-> skew,
                  early |-> {}]
      /\ timers' = IF skew THEN [k \in 1..Len(timers) |-> Forced(timers[k])] ELSE timers
  BY <1>1 DEF WalkStart, clockVars, sleepVars, Place, Updating
<1>3. skew \in BOOLEAN
  OBVIOUS
<1> HIDE DEF skew
<1>4. ASSUME NEW k \in 1..Len(timers)
      PROVE  /\ Forced(timers[k]) \in TimeEvent /\ Forced(timers[k]).node = timers[k].node
             /\ Forced(timers[k]).id = timers[k].id /\ Forced(timers[k]).when.sec = 0
  BY <1>1 DEF Forced, TimeEvent, Times
<1>5. /\ timers' \in Seq(TimeEvent) /\ Len(timers') = Len(timers)
      /\ \A k \in 1..Len(timers) : /\ timers'[k].node = timers[k].node
                                   /\ timers'[k].id = timers[k].id
                                   /\ skew => timers'[k].when.sec = 0
  <2>1. CASE skew
    <3>1. timers' = [k \in 1..Len(timers) |-> Forced(timers[k])]
      BY <2>1, <1>2
    <3>2. timers' \in [1..Len(timers) -> TimeEvent]
      BY <3>1, <1>4
    <3>3. timers' \in Seq(TimeEvent) /\ Len(timers') = Len(timers)
      BY <3>2, <1>1
    <3> QED BY <3>1, <3>3, <1>4
  <2>2. CASE ~skew
    BY <2>2, <1>1, <1>2
  <2> QED BY <2>1, <2>2
<1>6. /\ walk' \in Walks
      /\ walk'.te = 1 /\ walk'.maxId = nextId - 1 /\ walk'.skew = skew /\ walk'.early = {}
  BY <1>1, <1>2, <1>3 DEF Walks
<1>7. TimeTypes'
  BY <1>2, <1>5, <1>6 DEF TimeInv, TimeTypes
<1>8. NodesInv'
  BY <1>2, <1>5, SameNodes DEF TimeInv
<1>9. WalkInv'
  <2>1. \A k \in 1..Len(timers') : timers'[k].node <= walk'.maxId
    BY <1>1, <1>5, <1>6 DEF TimeInv, NodesInv
  <2> QED BY <2>1, <1>1, <1>2, <1>5, <1>6 DEF WalkInv
<1>10. SkewInv'
  BY <1>2, <1>6 DEF SkewInv, InWalk, Todo
<1>11. NeverOversleeps'
  BY <1>2 DEF NeverOversleeps
<1> QED BY <1>7, <1>8, <1>9, <1>10, <1>11 DEF TimeInv

\* A deleted event is taken off the list. With prev NULL what lies before it
\* goes as well, and that is what finalizers created in this walk.
LEMMA WalkRemoveTime ==
    ASSUME TimeInv, WalkRemove
    PROVE  TimeInv'
<1> DEFINE te == walk.te
           n == Len(timers)
           first == IF walk.prevNull THEN 1 ELSE te
           cut == te + 1 - first
<1>1. /\ timers \in Seq(TimeEvent) /\ DOMAIN timers = 1..n /\ n \in Nat
      /\ \A k \in 1..n : timers[k] \in TimeEvent /\ timers[k].node \in Nat
      /\ nextId \in Nat /\ te \in Nat \ {0} /\ walk.prevNull \in BOOLEAN
  BY ListTypes DEF TimeInv
<1>2. /\ pc = "timers" /\ te \in 1..n /\ pc' = "fcb" /\ nextId' = nextId /\ ran' = ran
      /\ gone' = gone \cup {timers[te].node} /\ now' = now /\ timeout' = timeout
      /\ timers' = Unlinked /\ Place = "timers" /\ Place' = "fcb"
      /\ leaked' = IF walk.prevNull THEN leaked \cup walk.early ELSE leaked
      /\ walk' = IF walk.prevNull THEN [walk EXCEPT !.te = 1, !.early = {}] ELSE walk
  BY <1>1 DEF WalkRemove, AtEvent, clockVars, sleepVars, Place, Updating
<1>3. /\ first \in Nat /\ first >= 1 /\ first <= te /\ cut \in Nat /\ cut >= 1
      /\ te \in Nat /\ te <= n /\ first + cut = te + 1
  BY <1>1, <1>2
<1>4. /\ walk' \in Walks /\ walk'.te = first /\ walk'.maxId = walk.maxId
      /\ walk'.skew = walk.skew /\ walk'.prevNull = walk.prevNull
      /\ walk.prevNull => walk'.early = {}
  <2>1. walk \in Walks
    BY DEF TimeInv, TimeTypes
  <2>2. CASE walk.prevNull
    <3>1. walk' = [walk EXCEPT !.te = 1, !.early = {}]
      BY <2>2, <1>2
    <3>2. first = 1
      BY <2>2
    <3> HIDE DEF first
    <3>4. walk' \in Walks
      <4>1. PICK i \in Nat \ {0}, none \in SUBSET Nat : i = 1 /\ none = {}
        BY 1 \in Nat \ {0}, {} \in SUBSET Nat
      <4>2. walk' = [walk EXCEPT !.te = i, !.early = none]
        BY <3>1, <4>1
      <4> QED BY <2>1, <4>2 DEF Walks
    <3>3. /\ walk'.te = 1 /\ walk'.maxId = walk.maxId /\ walk'.skew = walk.skew
          /\ walk'.prevNull = walk.prevNull /\ walk'.early = {}
      BY <2>1, <3>1 DEF Walks
    <3> QED BY <3>2, <3>3, <3>4
  <2>3. CASE ~walk.prevNull
    <3>1. first = te /\ walk' = walk
      BY <2>3, <1>2
    <3> QED BY <2>1, <2>3, <3>1
  <2> QED BY <2>2, <2>3
<1>5. /\ timers' \in Seq(TimeEvent) /\ Len(timers') = n - cut
      /\ \A k \in 1..(n - cut) : timers'[k] = IF k < first THEN timers[k] ELSE timers[k + cut]
  <2>1. CASE walk.prevNull
    <3>1. first = 1 /\ cut = te
      <4>1. first = 1 /\ te + 1 - 1 = te
        BY <2>1, <1>1
      <4> QED BY <4>1
    <3>4. timers' = SubSeq(timers, te + 1, Len(timers))
      BY <2>1, <1>2 DEF Unlinked
    <3>2. /\ SubSeq(timers, te + 1, Len(timers)) \in Seq(TimeEvent)
          /\ Len(SubSeq(timers, te + 1, Len(timers))) = Len(timers) - te
          /\ \A k \in 1..(Len(timers) - te) :
                SubSeq(timers, te + 1, Len(timers))[k] = timers[k + te]
      BY <1>1, <1>2, BeheadedList
    <3>3. \A k \in 1..(n - te) : ~(k < 1)
      BY <1>1
    <3> HIDE DEF first, cut
    <3> QED BY <3>1, <3>2, <3>3, <3>4
  <2>2. CASE ~walk.prevNull
    <3>1. first = te /\ cut = 1
      <4>1. first = te /\ te + 1 - te = 1
        BY <2>2, <1>1
      <4> QED BY <4>1
    <3>2. timers' = RemoveAt(timers, te)
      BY <2>2, <1>2 DEF Unlinked
    <3>3. /\ RemoveAt(timers, te) \in Seq(TimeEvent)
          /\ Len(RemoveAt(timers, te)) = Len(timers) - 1
          /\ \A k \in 1..(Len(timers) - 1) :
                RemoveAt(timers, te)[k] = IF k < te THEN timers[k] ELSE timers[k + 1]
      <4>1. timers \in Seq(TimeEvent) /\ te \in 1..Len(timers)
        BY <1>1, <1>2
      <4> HIDE DEF te, first, cut, n
      <4> QED BY <4>1, RemovedList
    <3> HIDE DEF first, cut
    <3> QED BY <3>1, <3>2, <3>3
  <2> QED BY <2>1, <2>2
<1>6. /\ \A k \in first..(te - 1) : timers[k].node \in leaked'
      /\ \A m \in leaked' : m \in leaked \/ \E k \in first..(te - 1) : timers[k].node = m
      /\ leaked \subseteq leaked'
  <2>1. CASE walk.prevNull
    <3>1. /\ \A k \in 1..(te - 1) : timers[k].node \in walk.early
          /\ \A m \in walk.early : \E k \in 1..(te - 1) : timers[k].node = m
      BY <2>1, <1>2 DEF TimeInv, WalkInv, InWalk
    <3>2. first = 1 /\ leaked' = leaked \cup walk.early
      BY <2>1, <1>2
    <3> HIDE DEF first
    <3> QED BY <3>1, <3>2
  <2>2. CASE ~walk.prevNull
    BY <2>2, <1>1, <1>2
  <2> QED BY <2>1, <2>2
<1> HIDE DEF first, cut
<1>7. \A k \in 1..(n - cut) :
         \/ k \in 1..n /\ timers'[k] = timers[k] /\ k < first
         \/ k + cut \in 1..n /\ timers'[k] = timers[k + cut] /\ k >= first /\ k + cut > te
  BY <1>1, <1>3, <1>5
<1>8. TimeTypes'
  <2>1. \A k \in 1..(n - cut) : timers'[k].id \in {timers'[k].node, AE_DELETED_EVENT_ID}
    BY <1>7 DEF TimeInv, TimeTypes
  <2> QED BY <2>1, <1>2, <1>4, <1>5 DEF TimeInv, TimeTypes
<1>9. /\ \A k \in 1..n : timers[k].node < nextId /\ timers[k].node \notin Away
      /\ \A m \in Away : m \in Nat /\ m < nextId
      /\ \A m \in Nat : m < nextId => m \in Away \/ \E k \in 1..n : timers[k].node = m
      /\ gone \cap leaked = {}
      /\ \A i, j \in 1..n : timers[i].node = timers[j].node => i = j
  BY DEF TimeInv, NodesInv
<1>10. \A m \in Away' : m \in Away \/ \E k \in first..te : k \in 1..n /\ timers[k].node = m
  <2> SUFFICES ASSUME NEW m \in Away', m \notin Away
               PROVE  \E k \in first..te : k \in 1..n /\ timers[k].node = m
    OBVIOUS
  <2>1. CASE m = timers[te].node
    BY <2>1, <1>2, <1>3
  <2>2. CASE m # timers[te].node
    <3>1. PICK k \in first..(te - 1) : timers[k].node = m
      BY <2>2, <1>2, <1>6 DEF Away
    <3>2. k \in first..te /\ k \in 1..n
      BY <1>1, <1>3
    <3> QED BY <3>1, <3>2
  <2> QED BY <2>1, <2>2
<1>11. NodesInv'
  <2>1. ASSUME NEW k \in 1..(n - cut)
        PROVE  timers'[k].node < nextId /\ timers'[k].node \notin Away'
    <3>1. PICK j \in 1..n : timers'[k] = timers[j] /\ (j < first \/ j > te)
      BY <1>7
    <3>2. ASSUME NEW i \in first..te, i \in 1..n PROVE timers[j].node # timers[i].node
      <4>1. i # j
        BY <3>1, <3>2, <1>3
      <4> QED BY <4>1, <3>2, <1>9
    <3>3. timers[j].node \notin Away'
      BY <3>2, <1>9, <1>10
    <3> QED BY <3>1, <3>3, <1>9
  <2>2. \A m \in Away' : m \in Nat /\ m < nextId
    BY <1>1, <1>9, <1>10
  <2>3. ASSUME NEW m \in Nat, m < nextId, m \notin Away'
        PROVE  \E k \in 1..(n - cut) : timers'[k].node = m
    <3>1. m \notin Away
      BY <2>3, <1>2, <1>6 DEF Away
    <3>2. PICK j \in 1..n : timers[j].node = m
      BY <2>3, <3>1, <1>9
    <3>3. j # te /\ ~(j \in first..(te - 1))
      BY <2>3, <3>2, <1>2, <1>6 DEF Away
    <3>4. CASE j < first
      <4>1. j \in 1..(n - cut)
        BY <3>4, <1>1, <1>3
      <4>2. timers'[j] = timers[j]
        BY <3>4, <4>1, <1>5
      <4> QED BY <3>2, <4>1, <4>2
    <3>5. CASE j > te
      <4>1. j - cut \in 1..(n - cut) /\ ~(j - cut < first) /\ (j - cut) + cut = j
        BY <3>5, <1>1, <1>3
      <4>2. timers'[j - cut] = timers[j]
        BY <4>1, <1>5
      <4> QED BY <3>2, <4>1, <4>2
    <3>6. j < first \/ j > te
      BY <3>3, <1>3
    <3> QED BY <3>4, <3>5, <3>6
  <2>4. ASSUME NEW i \in 1..(n - cut), NEW j \in 1..(n - cut), timers'[i].node = timers'[j].node
        PROVE  i = j
    <3> DEFINE from(k) == IF k < first THEN k ELSE k + cut
    <3>1. ASSUME NEW k \in 1..(n - cut)
          PROVE  from(k) \in 1..n /\ timers'[k] = timers[from(k)]
      <4>1. CASE k < first
        BY <4>1, <1>1, <1>3, <1>5
      <4>2. CASE ~(k < first)
        <5>1. k + cut \in 1..n
          BY <4>2, <1>1, <1>3
        <5> QED BY <4>2, <5>1, <1>5
      <4> QED BY <4>1, <4>2
    <3>2. from(i) = from(j)
      <4> HIDE DEF from
      <4> QED BY <2>4, <3>1, <1>9
    <3> QED BY <3>2, <1>1, <1>3
  <2>5. gone' \cap leaked' = {}
    <3>1. timers[te].node \notin leaked'
      <4>1. timers[te].node \notin leaked
        BY <1>2, <1>9 DEF Away
      <4>2. ASSUME NEW k \in first..(te - 1) PROVE timers[k].node # timers[te].node
        <5>1. k \in 1..n /\ k # te
          BY <1>3
        <5> QED BY <5>1, <1>2, <1>9
      <4> QED BY <4>1, <4>2, <1>6
    <3>2. ASSUME NEW m \in gone PROVE m \notin leaked'
      <4>1. m \notin leaked
        BY <1>9
      <4>2. ASSUME NEW k \in first..(te - 1) PROVE timers[k].node # m
        <5>1. k \in 1..n
          BY <1>3
        <5> QED BY <5>1, <1>9 DEF Away
      <4> QED BY <4>1, <4>2, <1>6
    <3> QED BY <3>1, <3>2, <1>2
  <2> QED BY <2>1, <2>2, <2>3, <2>4, <2>5, <1>2, <1>5 DEF NodesInv
<1>12. \A k \in 1..n : Todo(k) <=> k >= te
  BY <1>2 DEF Todo
<1>13. \A k \in 1..(n - cut) : Todo(k)' <=> k >= first
  BY <1>2, <1>4 DEF Todo
<1>14. WalkInv'
  <2>1. ASSUME NEW k \in 1..(n - cut), k >= first
        PROVE  /\ timers'[k].node <= walk.maxId /\ timers'[k].node \notin ran
               /\ walk.skew => timers'[k].when.sec = 0
    <3>1. k + cut \in 1..n /\ timers'[k] = timers[k + cut] /\ Todo(k + cut)
      BY <2>1, <1>3, <1>7, <1>12
    <3> QED BY <3>1, <1>2 DEF TimeInv, WalkInv, InWalk
  <2>2. walk.maxId < nextId
    BY <1>2 DEF TimeInv, WalkInv, InWalk
  <2>3. first <= Len(timers') + 1
    BY <1>1, <1>3, <1>5
  <2>4. walk.prevNull => first = 1
    BY DEF first
  <2>5. walk'.prevNull =>
            /\ \A k \in 1..(walk'.te - 1) : timers'[k].node \in walk'.early
            /\ \A m \in walk'.early : \E k \in 1..(walk'.te - 1) : timers'[k].node = m
    BY <2>4, <1>4
  <2> QED BY <2>1, <2>2, <2>3, <2>5, <1>2, <1>4, <1>5, <1>13 DEF WalkInv
<1>15. SkewInv'
  <2>1. ASSUME walk.skew, NEW k \in 1..(n - cut), k < first, timers'[k].node <= walk.maxId
        PROVE  timers'[k].node \in ran
    <3>1. k \in 1..n /\ timers'[k] = timers[k] /\ ~Todo(k)
      BY <2>1, <1>3, <1>7, <1>12
    <3> QED BY <2>1, <3>1 DEF TimeInv, SkewInv
  <2>2. \A k \in 1..(n - cut) : ~Todo(k)' => k < first
    BY <1>3, <1>13
  <2> QED BY <2>1, <2>2, <1>2, <1>4, <1>5 DEF SkewInv, InWalk
<1>16. NeverOversleeps'
  BY <1>2 DEF NeverOversleeps
<1> QED BY <1>8, <1>11, <1>14, <1>15, <1>16 DEF TimeInv

\* The walk goes on to the next event.
LEMMA WalkGoesOn ==
    ASSUME TimeTypes, walk' = [walk EXCEPT !.te = walk.te + 1, !.prevNull = FALSE]
    PROVE  /\ walk' \in Walks
           /\ walk'.te = walk.te + 1 /\ walk'.maxId = walk.maxId /\ walk'.skew = walk.skew
           /\ ~walk'.prevNull
<1>1. /\ walk \in Walks
      /\ walk.te + 1 \in Nat \ {0}
  BY DEF TimeTypes, Walks
<1> DEFINE next == walk.te + 1
<1>2. next \in Nat \ {0} /\ walk' = [walk EXCEPT !.te = next, !.prevNull = FALSE]
  BY <1>1
<1> HIDE DEF next
<1>3. /\ walk' \in Walks
      /\ walk'.te = next /\ walk'.maxId = walk.maxId /\ walk'.skew = walk.skew
      /\ walk'.prevNull = FALSE
  BY <1>1, <1>2 DEF Walks
<1> QED BY <1>3 DEF next

\* An event that is not deleted is run if it is due, passed over otherwise.
LEMMA WalkVisitTime ==
    ASSUME TimeInv, WalkVisit
    PROVE  TimeInv'
<1> DEFINE te == walk.te
           n == Len(timers)
           e == timers[te]
<1>1. /\ DOMAIN timers = 1..n /\ n \in Nat
      /\ \A k \in 1..n : timers[k].node \in Nat
      /\ nextId \in Nat /\ te \in Nat \ {0} /\ walk.maxId \in Int
  BY ListTypes DEF TimeInv
<1>2. /\ pc = "timers" /\ te \in 1..n /\ timers' = timers /\ nextId' = nextId
      /\ gone' = gone /\ leaked' = leaked /\ now' = now /\ timeout' = timeout
      /\ e.id # AE_DELETED_EVENT_ID /\ Place = "timers"
  BY <1>1 DEF WalkVisit, AtEvent, clockVars, sleepVars, Place, Updating
<1>3. /\ walk.maxId < nextId
      /\ e.node <= walk.maxId /\ e.id = e.node /\ e.node \notin ran
      /\ walk.skew => e.when.sec = 0
      /\ \A k \in 1..n : k >= te =>
            /\ timers[k].node <= walk.maxId /\ timers[k].node \notin ran
            /\ walk.skew => timers[k].when.sec = 0
  <2>1. \A k \in 1..n : k >= te => Todo(k)
    BY <1>2 DEF Todo
  <2>2. /\ walk.maxId < nextId
        /\ \A k \in 1..n : k >= te =>
            /\ timers[k].node <= walk.maxId /\ timers[k].node \notin ran
            /\ walk.skew => timers[k].when.sec = 0
    BY <2>1, <1>2 DEF TimeInv, WalkInv, InWalk
  <2>3. e.id = e.node
    BY <1>2 DEF TimeInv, TimeTypes
  <2> QED BY <2>2, <2>3, <1>1, <1>2
<1>4. walk.skew => \A k \in 1..n :
        k < te /\ timers[k].node <= walk.maxId => timers[k].node \in ran
  <2>1. \A k \in 1..n : k < te => ~Todo(k)
    BY <1>1, <1>2 DEF Todo
  <2> QED BY <2>1 DEF TimeInv, SkewInv
<1>5. NodesInv'
  BY <1>2 DEF TimeInv, NodesInv, Away
<1>6. CASE e.id <= walk.maxId /\ ~Before(aeGetTime, e.when)
  <2>1. pc' = "tcb" /\ ran' = ran \cup {e.node} /\ walk' = walk
        /\ Place' = "tcb"
    BY <1>6 DEF WalkVisit, Place, Updating
  <2>2. TimeTypes'
    BY <2>1, <1>2 DEF TimeInv, TimeTypes
  <2>3. \A k \in 1..n : Todo(k)' <=> k > te
    BY <2>1 DEF Todo
  <2>4. WalkInv'
    <3>1. \A k \in 1..n : k > te => timers[k].node # e.node
      BY <1>1, <1>2 DEF TimeInv, NodesInv
    <3>2. \A k \in 1..n : k > te => k >= te
      BY <1>1
    <3>3. te <= n /\ te <= n + 1
      BY <1>1, <1>2
    <3> QED BY <2>1, <2>3, <3>1, <3>2, <3>3, <1>2, <1>3 DEF WalkInv
  <2>5. SkewInv'
    <3>1. \A k \in 1..n : ~(k > te) => k < te \/ k = te
      BY <1>1
    <3> QED BY <2>1, <2>3, <3>1, <1>2, <1>4 DEF SkewInv, InWalk
  <2>6. NeverOversleeps'
    BY <2>1 DEF NeverOversleeps
  <2> QED BY <2>2, <2>4, <2>5, <2>6, <1>5 DEF TimeInv
<1>7. CASE ~(e.id <= walk.maxId /\ ~Before(aeGetTime, e.when))
  <2>1. /\ pc' = "timers" /\ Place' = "timers" /\ ran' = ran
        /\ walk' = [walk EXCEPT !.te = te + 1,
                                !.prevNull = walk.prevNull /\ e.id > walk.maxId]
    BY <1>2, <1>7 DEF WalkVisit, Place, Updating
  <2>2. ~(e.id > walk.maxId)
    BY <1>1, <1>2, <1>3
  <2>11. walk' = [walk EXCEPT !.te = walk.te + 1, !.prevNull = FALSE]
    BY <2>1, <2>2
  <2>3. /\ walk' \in Walks
        /\ walk'.te = te + 1 /\ walk'.maxId = walk.maxId /\ walk'.skew = walk.skew
    BY <2>11, WalkGoesOn DEF TimeInv
  <2>4. ~walk'.prevNull
    BY <2>11, WalkGoesOn DEF TimeInv
  <2>5. ~walk.skew
    <3> SUFFICES ASSUME walk.skew PROVE FALSE
      OBVIOUS
    <3>1. aeGetTime.sec \in Nat /\ aeGetTime.sec >= 1
      BY GetTime DEF TimeInv, TimeTypes, Times
    <3>2. e.when.sec = 0
      BY <1>3
    <3>3. ~Before(aeGetTime, e.when)
      BY <3>1, <3>2 DEF Before
    <3> QED BY <3>3, <1>3, <1>7
  <2>6. TimeTypes'
    BY <2>3, <1>2 DEF TimeInv, TimeTypes
  <2>7. \A k \in 1..n : Todo(k)' => k >= te
    BY <2>1, <2>3, <1>1 DEF Todo
  <2>8. WalkInv'
    <3>1. te + 1 <= n + 1
      BY <1>1, <1>2
    <3> QED BY <2>1, <2>3, <2>4, <2>7, <3>1, <1>2, <1>3 DEF WalkInv
  <2>9. SkewInv'
    BY <2>3, <2>5 DEF SkewInv
  <2>10. NeverOversleeps'
    BY <2>1 DEF NeverOversleeps
  <2> QED BY <2>6, <2>8, <2>9, <2>10, <1>5 DEF TimeInv
<1> QED BY <1>6, <1>7

\* A time event's handler returns: its event is due later or marked.
LEMMA TimeProcReturns ==
    ASSUME TimeInv, TimeProcNoMore \/ \E d \in Delays : TimeProcAgain(d)
    PROVE  TimeInv'
<1> DEFINE te == walk.te
           n == Len(timers)
<1>1. /\ n \in Nat /\ te \in Nat \ {0} /\ Place = "tcb" /\ te \in 1..n
      /\ timers[te] \in TimeEvent /\ DOMAIN timers = 1..n
  <2>1. n \in Nat /\ te \in Nat \ {0} /\ \A k \in 1..n : timers[k] \in TimeEvent
    BY ListTypes DEF TimeInv
  <2>2. DOMAIN timers = 1..n
    BY ListTypes DEF TimeInv
  <2>3. Place = "tcb"
    BY DEF TimeProcNoMore, TimeProcAgain, Place, Updating
  <2>4. te <= n
    BY <2>3 DEF TimeInv, WalkInv, InWalk
  <2> QED BY <2>1, <2>2, <2>3, <2>4
<1>2. PICK e \in TimeEvent : /\ e.node = timers[te].node
                             /\ e.id \in {e.node, AE_DELETED_EVENT_ID}
                             /\ timers' = [timers EXCEPT ![te] = e]
  <2>1. CASE TimeProcNoMore
    <3> DEFINE f == [timers[te] EXCEPT !.id = AE_DELETED_EVENT_ID]
    <3>1. /\ f \in TimeEvent /\ f.node = timers[te].node /\ f.id = AE_DELETED_EVENT_ID
      BY <1>1 DEF TimeEvent, AE_DELETED_EVENT_ID
    <3>2. timers' = [timers EXCEPT ![te] = f]
      BY <2>1 DEF TimeProcNoMore
    <3> HIDE DEF f
    <3> QED BY <3>1, <3>2
  <2>2. ASSUME NEW d \in Delays, TimeProcAgain(d)
        PROVE  \E f \in TimeEvent : /\ f.node = timers[te].node
                                    /\ f.id \in {f.node, AE_DELETED_EVENT_ID}
                                    /\ timers' = [timers EXCEPT ![te] = f]
    <3> DEFINE f == [timers[te] EXCEPT !.when = aeAddMillisecondsToNow(d)]
    <3>1. aeAddMillisecondsToNow(d) \in Times
      BY AddMilliseconds, LoopConstants DEF TimeInv, TimeTypes
    <3>2. f \in TimeEvent /\ f.node = timers[te].node /\ f.id = timers[te].id
      BY <1>1, <3>1 DEF TimeEvent
    <3>3. timers[te].id \in {timers[te].node, AE_DELETED_EVENT_ID}
      BY <1>1 DEF TimeInv, TimeTypes
    <3>4. timers' = [timers EXCEPT ![te] = f]
      BY <2>2 DEF TimeProcAgain
    <3> HIDE DEF f
    <3> QED BY <3>2, <3>3, <3>4
  <2> QED BY <2>1, <2>2
<1>3. /\ timers' \in Seq(TimeEvent) /\ Len(timers') = n
      /\ \A k \in 1..n : k # te => timers'[k] = timers[k]
      /\ \A k \in 1..n : timers'[k].node = timers[k].node
      /\ \A k \in 1..Len(timers') : timers'[k].id \in {timers'[k].node, AE_DELETED_EVENT_ID}
  BY <1>1, <1>2, OneEvent DEF TimeInv
<1>4. /\ pc' = "timers" /\ Place' = "timers" /\ nextId' = nextId /\ gone' = gone
      /\ leaked' = leaked /\ ran' = ran /\ now' = now /\ timeout' = timeout
      /\ walk' = [walk EXCEPT !.te = te + 1, !.prevNull = FALSE]
  BY DEF TimeProcNoMore, TimeProcAgain, clockVars, sleepVars, Place, Updating
<1>5. /\ walk' \in Walks
      /\ walk'.te = te + 1 /\ walk'.maxId = walk.maxId /\ walk'.skew = walk.skew
      /\ ~walk'.prevNull
  BY <1>4, WalkGoesOn DEF TimeInv
<1>6. TimeTypes'
  BY <1>3, <1>4, <1>5 DEF TimeInv, TimeTypes
<1>7. NodesInv'
  BY <1>3, <1>4, SameNodes DEF TimeInv
<1>8. \A k \in 1..n : (Todo(k)' <=> Todo(k)) /\ (Todo(k) => k # te)
  BY <1>1, <1>4, <1>5 DEF Todo
<1>9. WalkInv'
  <2>1. te + 1 <= n + 1
    BY <1>1
  <2>2. InWalk
    BY <1>1 DEF InWalk
  <2> QED BY <2>1, <2>2, <1>3, <1>4, <1>5, <1>8 DEF TimeInv, WalkInv
<1>10. SkewInv'
  BY <1>3, <1>4, <1>5, <1>8 DEF TimeInv, SkewInv, InWalk
<1>11. NeverOversleeps'
  BY <1>4 DEF NeverOversleeps
<1> QED BY <1>6, <1>7, <1>9, <1>10, <1>11 DEF TimeInv

\* The walk ends.
LEMMA WalkEndTime ==
    ASSUME TimeInv, WalkEnd
    PROVE  TimeInv'
<1>1. /\ pc' = "check" /\ Place' = "check" /\ walk' = NoWalk /\ timers' = timers
      /\ nextId' = nextId /\ gone' = gone /\ leaked' = leaked
      /\ now' = now /\ timeout' = timeout
  BY DEF WalkEnd, clockVars, sleepVars, Place, Updating
<1>2. TimeTypes' /\ NodesInv'
  BY <1>1 DEF TimeInv, TimeTypes, NodesInv, NoWalk, Walks, Away
<1>3. WalkInv' /\ SkewInv' /\ NeverOversleeps'
  BY <1>1 DEF WalkInv, SkewInv, InWalk, NoWalk, NeverOversleeps
<1> QED BY <1>2, <1>3 DEF TimeInv

\* aeSearchNearestTimer finds an event that no other precedes.
LEMMA NearestTimer ==
    ASSUME TimeTypes, timers # <<>>
    PROVE  /\ aeSearchNearestTimer \in 1..Len(timers)
           /\ \A i \in 1..Len(timers) :
                 Total(timers[aeSearchNearestTimer].when) <= Total(timers[i].when)
<1> DEFINE n == Len(timers)
           w(i) == Total(timers[i].when)
           S == {x \in Nat : \E i \in 1..n : x = w(i)}
<1>1. /\ n \in Nat /\ DOMAIN timers = 1..n /\ timers \in Seq(TimeEvent)
      /\ \A i \in 1..n : timers[i].when \in Times
  BY ListTypes
<1>2. 1 \in 1..n
  BY <1>1
<1>3. \A i \in 1..n : w(i) \in Nat
  BY <1>1, BeforeTotal
<1>4. \A i, j \in 1..n : Before(timers[i].when, timers[j].when) <=> w(i) < w(j)
  BY <1>1, BeforeTotal
<1> HIDE DEF n, w
<1>5. S \in SUBSET Nat /\ S # {}
  BY <1>2, <1>3
<1>6. PICK x \in S : \A y \in S : x <= y
  <2> HIDE DEF S
  <2> QED BY <1>5, LeastNatural
<1>7. PICK k \in 1..n : x = w(k)
  BY <1>6
<1>8. \A i \in 1..n : w(k) <= w(i)
  BY <1>3, <1>6, <1>7
<1>9. \A i \in 1..n : ~Before(timers[i].when, timers[k].when)
  BY <1>3, <1>4, <1>8
<1>10. /\ aeSearchNearestTimer \in 1..n
       /\ \A i \in 1..n : ~Before(timers[i].when, timers[aeSearchNearestTimer].when)
  BY <1>1, <1>9 DEF aeSearchNearestTimer
<1>11. \A i \in 1..n : w(aeSearchNearestTimer) <= w(i)
  BY <1>3, <1>4, <1>10
<1> QED BY <1>10, <1>11 DEF n, w

\* A number that an int holds is not changed by its conversion to int.
LEMMA IntOf ==
    ASSUME NEW n \in Int
    PROVE  ToInt(n) \in Int /\ (n <= IntMax => ToInt(n) = n)
<1>1. IntWidth \in Nat \ {0}
  BY IntMaxAssumption DEF IntWidth
<1>2. n % IntWidth \in Int
  BY <1>1
<1> QED BY <1>1, <1>2, IntMaxAssumption DEF ToInt

\* aeProcessEvents goes to sleep, for no longer than until the nearest event if
\* an int holds the delay.
LEMMA SleepStep ==
    ASSUME TimeInv, Sleep
    PROVE  TimeInv'
<1>1. /\ pc = "before" /\ pc' = "poll" /\ now' = now /\ ~skipped'
      /\ delay' = Delay /\ timeout' = SleepTime(delay')
      /\ UNCHANGED timeVars /\ timers' = timers /\ ~InWalk /\ ~InWalk'
  BY DEF Sleep, timeVars, InWalk, Place, Updating
<1>2. CASE timers = <<>>
  <2>1. timeout' = -1
    <3>1. delay' = -1
      BY <1>1, <1>2 DEF Delay, Forever
    <3>2. ToInt(-1) = -1
      BY IntOf, IntMaxAssumption
    <3> QED BY <3>1, <3>2, <1>1 DEF SleepTime, Forever
  <2>2. NeverOversleeps'
    BY <1>1, <1>2 DEF NeverOversleeps
  <2> QED BY <2>1, <2>2, <1>1, TimeFrame DEF TimeInv, TimeTypes
<1>3. CASE timers # <<>>
  <2> DEFINE t == timers[aeSearchNearestTimer].when
             g == aeGetTime
             m == MsPerSec
  <2>1. /\ aeSearchNearestTimer \in 1..Len(timers)
        /\ \A i \in 1..Len(timers) : Total(t) <= Total(timers[i].when)
    BY <1>3, NearestTimer DEF TimeInv
  <2>2. t \in Times /\ now \in Nat /\ DOMAIN timers = 1..Len(timers)
        /\ \A i \in 1..Len(timers) : timers[i].when \in Times
    BY <2>1, ListTypes DEF TimeInv
  <2>3. g \in Times /\ Total(g) = now
    BY <2>2, GetTime
  <2>4. delay' = AtLeastZero((t.sec - g.sec) * m + t.ms - g.ms)
    BY <1>1, <1>3 DEF Delay
  <2>5. (t.sec - g.sec) * m + t.ms - g.ms = Total(t) - now
    <3>1. /\ m \in Nat \ {0} /\ t.sec \in Int /\ g.sec \in Int /\ t.ms \in Int /\ g.ms \in Int
      BY <2>2, <2>3, LoopConstants DEF Times
    <3>2. Total(t) = t.sec * m + t.ms /\ now = g.sec * m + g.ms
      BY <2>3 DEF Total
    <3> HIDE DEF m, g, t
    <3>3. (t.sec - g.sec) * m = t.sec * m - g.sec * m
      BY <3>1
    <3>4. t.sec * m \in Int /\ g.sec * m \in Int
      BY <3>1
    <3> QED BY <3>1, <3>2, <3>3, <3>4
  <2>6. Total(t) \in Nat /\ \A i \in 1..Len(timers) : Total(timers[i].when) \in Nat
    BY <2>2, BeforeTotal
  <2>7. delay' \in Nat /\ (delay' > 0 => now + delay' = Total(t))
    BY <2>2, <2>4, <2>5, <2>6 DEF AtLeastZero
  <2>8. timeout' \in Int /\ (delay' <= IntMax => timeout' = delay')
    <3>1. ToInt(delay') \in Int /\ (delay' <= IntMax => ToInt(delay') = delay')
      BY <2>7, IntOf
    <3> QED BY <3>1, <2>7, <1>1 DEF SleepTime, Forever
  <2>9. NeverOversleeps'
    <3> SUFFICES ASSUME delay' <= IntMax, NEW k \in 1..Len(timers)
                 PROVE  /\ timeout' # -1
                        /\ timeout' > 0 => now + timeout' <= Total(timers[k].when)
      BY <1>1, <2>2 DEF NeverOversleeps, Total, Forever
    <3> QED BY <2>1, <2>6, <2>7, <2>8
  <2> QED BY <2>2, <2>8, <2>9, <1>1, TimeFrame DEF TimeInv, TimeTypes
<1> QED BY <1>2, <1>3

\* The clock moves: a sleep ends no later than before, unless it is set forward.
LEMMA ClockStep ==
    ASSUME TimeInv, Tick \/ \E t \in MsPerSec..MaxTime : SetClock(t)
    PROVE  TimeInv'
<1>1. /\ UNCHANGED timeVars /\ timers' = timers /\ pc' = pc /\ Place' = Place /\ delay' = delay
  BY DEF Tick, SetClock, timeVars, fileVars, Place, Updating
<1>2. /\ now \in Nat /\ now >= MsPerSec /\ timeout \in Int /\ MsPerSec \in Nat \ {0}
      /\ MaxTime \in Nat /\ DOMAIN timers = 1..Len(timers)
  BY ListTypes, LoopConstants DEF TimeInv, TimeTypes
<1>3. /\ now' \in Nat /\ now' >= MsPerSec /\ timeout' \in Int
      /\ timeout = -1 <=> timeout' = -1
      /\ pc = "poll" /\ ~skipped' => ~skipped
      /\ pc = "poll" /\ ~skipped' /\ timeout' > 0
            => timeout > 0 /\ now' + timeout' <= now + timeout
  <2>1. CASE Tick
    BY <2>1, <1>2 DEF Tick
  <2>2. CASE \E t \in MsPerSec..MaxTime : SetClock(t)
    <3>1. PICK t \in MsPerSec..MaxTime : SetClock(t)
      BY <2>2
    <3>2. now' = t /\ timeout' = timeout /\ (skipped' <=> skipped \/ (pc = "poll" /\ t > now))
      BY <3>1 DEF SetClock
    <3> QED BY <3>2, <1>2
  <2> QED BY <2>1, <2>2
<1>4. NeverOversleeps'
  <2> SUFFICES ASSUME pc = "poll", delay <= IntMax, NEW k \in 1..Len(timers)
               PROVE  /\ timeout' # -1
                      /\ timeout' > 0 /\ timers[k].id # AE_DELETED_EVENT_ID /\ ~skipped'
                            => now' + timeout' <= Total(timers[k].when)
    BY <1>1, <1>2 DEF NeverOversleeps, Total, Forever
  <2>1. /\ timeout # -1
        /\ timeout > 0 /\ timers[k].id # AE_DELETED_EVENT_ID /\ ~skipped
              => now + timeout <= Total(timers[k].when)
    BY <1>2 DEF TimeInv, NeverOversleeps, Total, Forever
  <2>2. Total(timers[k].when) \in Nat
    BY ListTypes, BeforeTotal DEF TimeInv
  <2> DEFINE due == Total(timers[k].when)
             id == timers[k].id
  <2>3. timeout # -1 /\ (timeout > 0 /\ id # AE_DELETED_EVENT_ID /\ ~skipped => now + timeout <= due)
    BY <2>1
  <2>4. due \in Nat
    BY <2>2
  <2> HIDE DEF due, id
  <2>5. timeout' # -1
    BY <2>3, <1>3
  <2>6. ASSUME timeout' > 0, id # AE_DELETED_EVENT_ID, ~skipped' PROVE now' + timeout' <= due
    <3>1. timeout > 0 /\ now' + timeout' <= now + timeout /\ ~skipped
      BY <2>6, <1>3
    <3>2. now + timeout <= due
      BY <2>3, <2>6, <3>1
    <3>3. now + timeout \in Int /\ now' + timeout' \in Int /\ due \in Int
      BY <2>4, <1>2, <1>3
    <3>4. \A a, b, c \in Int : a <= b /\ b <= c => a <= c
      OBVIOUS
    <3> QED BY <3>1, <3>2, <3>3, <3>4, Zenon
  <2> QED BY <2>5, <2>6 DEF due, id
<1> QED BY <1>1, <1>3, <1>4, TimeFrame

\* The list of time events keeps its invariant through every step.
LEMMA TimeStep == FileInv /\ TimeInv /\ [Next]_vars => TimeInv'
<1> SUFFICES ASSUME FileInv, TimeInv, [Next]_vars PROVE TimeInv'
  OBVIOUS
<1>1. CASE UNCHANGED vars \/ Over
  <2>1. UNCHANGED <<timeVars, clockVars>> /\ pc' = pc /\ Place' = Place
    BY <1>1 DEF vars, fileVars, Over, Place, Updating
  <2> QED BY <2>1, QuietStep
<1>2. CASE LoopStep
  <2>1. CASE MainStart \/ MainCheck \/ FileRead \/ FileWrite
    <3>1. /\ UNCHANGED <<timeVars, clockVars>> /\ pc \in {"start", "check", "file", "write"}
          /\ pc' \in {"check", "done", "before", "rcb", "write", "wcb", "file", "wrong"}
      BY <2>1 DEF MainStart, MainCheck, FileRead, FileWrite, Call
    <3>2. ~InWalk /\ ~InWalk'
      BY <3>1 DEF InWalk, Place, Updating
    <3> QED BY <3>1, <3>2, QuietStep
  <2>2. CASE PollTimeout
    BY <2>2, WakeStep
  <2>3. CASE ScanMaxFd \/ StoreMaxFd
    BY <2>3, UpdateStep
  <2> QED BY <1>2, <2>1, <2>2, <2>3, SleepStep, WalkStartTime, WalkRemoveTime, WalkVisitTime,
         WalkEndTime DEF LoopStep
<1>3. CASE HandlerReturn
  <2>1. CASE ReadReturn \/ WriteReturn \/ FinalizerReturn
    <3>1. /\ UNCHANGED <<timeVars, clockVars>>
          /\ \/ pc \in {"rcb", "wcb"} /\ pc' \in {"write", "file"}
             \/ pc = "fcb" /\ pc' = "timers"
      BY <2>1 DEF ReadReturn, WriteReturn, FinalizerReturn
    <3>2. (~InWalk /\ ~InWalk') \/ (Place = "fcb" /\ Place' = "timers")
      BY <3>1 DEF InWalk, Place, Updating
    <3> QED BY <3>1, <3>2, QuietStep
  <2> QED BY <1>3, <2>1, TimeProcReturns DEF HandlerReturn
<1>4. CASE aeApiPoll \/ PollInterrupted
  BY <1>4, WakeStep
<1>5. CASE Api
  <2>1. CASE \/ \E fd \in Fds, mask \in (SUBSET Dirs) \ {{}}, proc \in Procs :
                  aeCreateFileEvent(fd, mask, proc)
             \/ \E fd \in Fds, mask \in (SUBSET Dirs) \ {{}} : aeDeleteFileEvent(fd, mask)
    BY <2>1, UpdateStep
  <2>2. CASE aeStop \/ \E n \in Sizes : aeResizeSetSize(n)
    <3>1. UNCHANGED <<timeVars, clockVars>> /\ pc' = pc /\ update' = update
      BY <2>2 DEF aeStop, aeResizeSetSize, fileVars
    <3>2. Place' = Place
      BY <3>1 DEF Place, Updating
    <3> QED BY <3>1, <3>2, QuietStep
  <2> QED BY <1>5, <2>1, <2>2, CreateTime, DeleteTime DEF Api
<1>6. CASE Attach
  <2>1. UNCHANGED <<timeVars, clockVars>> /\ pc' = pc /\ update' = update
    BY <1>6 DEF Attach, AttachCtl, AttachMask, AttachProc, AttachMaxFd, AttachStore
  <2>2. Place' = Place
    BY <2>1 DEF Place, Updating
  <2> QED BY <2>1, <2>2, QuietStep
<1>7. CASE Tick \/ \E t \in MsPerSec..MaxTime : SetClock(t)
  BY <1>7, ClockStep
<1> QED BY <1>1, <1>2, <1>3, <1>4, <1>5, <1>6, <1>7 DEF Next

\* It holds when the loop is created.
LEMMA TimeStart == Init => TimeInv
<1> SUFFICES ASSUME Init PROVE TimeInv
  OBVIOUS
<1>1. timers = <<>> /\ Len(timers) = 0 /\ timers \in Seq(TimeEvent)
  BY DEF Init
<1>2. TimeTypes
  BY <1>1, LoopConstants DEF Init, TimeTypes, NoWalk, Walks
<1>3. NodesInv
  BY <1>1 DEF Init, NodesInv, Away
<1>4. WalkInv /\ SkewInv /\ NeverOversleeps
  BY DEF Init, WalkInv, SkewInv, NeverOversleeps, InWalk, NoWalk, Place, Updating
<1> QED BY <1>2, <1>3, <1>4 DEF TimeInv

\* The invariant of the list of time events and of the walk over it.
THEOREM LoopTimeInvariant == Spec => []TimeInv
  BY TimeStart, TimeStep, LoopFileInvariant, PTL DEF Spec

\* Every time event created, also by a finalizer, is on the list, freed, or lost
\* by the one removal that does not see what a finalizer put before it, and only
\* one of these; the walk meets none that is newer than itself or has run in it.
THEOREM LoopTimers == Spec => []TimersAccounted
  BY LoopTimeInvariant, TimeInvImplies, PTL

\* epoll_wait never sleeps past the due time of an event, if an int holds the
\* delay and the clock is not set forward during the sleep.
THEOREM LoopSleep == Spec => []NeverOversleeps
  BY LoopTimeInvariant, TimeInvImplies, PTL

\* After the clock was set back, a walk runs every event it passes.
THEOREM LoopSkew == Spec => []SkewForcesAll
  BY LoopTimeInvariant, TimeInvImplies, PTL
==============================================================================
