---------------------- MODULE XRedisLifecycleProofs ----------------------
(***************************************************************************)
(* Proofs about XRedisLifecycle: who holds which mutex, where undefined    *)
(* behaviour comes from and which cycles of waiting threads there can be,  *)
(* for any number of application threads and of contexts.                  *)
(***************************************************************************)
EXTENDS XRedisLifecycle, TLAPS

Cause2 == "down" \in causes \/ "attach" \in causes
Cause4 == Cause2 \/ "loss" \in causes \/ "stop" \in causes
CauseEnd == "stop" \in causes \/ "threads" \in causes

Ids == 1..MaxAc

AppLabels == {"idle", "register", "wait", "up", "free2", "freeNow", "freeLock",
              "freeWait", "done", "clear2"}
BusyLabels == {"dealFree", "connOK", "connErr", "disc1", "disc2", "disc3", "acFree"}
AelLabels == BusyLabels \cup {"off", "start", "deal", "dealNext", "poll", "clear",
                              "clear1", "clear2"}
RcnLabels == {"off", "check", "lock", "visit", "raw", "register", "wait", "end"}
States == {"none", "new", "connecting", "connected", "dead"}
Status == {"zero", "connected", "disconnecting"}

Connections == [mem : {"none", "live", "freed"}, status : Status,
                ctx : 0..RAW, last : 0..MaxAc]
Contexts == [st : States, freed : BOOLEAN]

LoopStates == [mem : {"none", "live", "freed"}, stop : BOOLEAN]

Places ==
    /\ pc \in [Threads -> AppLabels \cup AelLabels \cup RcnLabels]
    /\ \A a \in Apps : pc[a] \in AppLabels
    /\ pc[Ael] \in AelLabels
    /\ pc[Rcn] \in RcnLabels
    /\ pc[Ael] \in BusyLabels => cur \in Apps \X Ids
    /\ pc[Rcn] \in {"raw", "register", "wait"} => visited \in Apps

Lists ==
    /\ reconn_list = NULL \/ reconn_list \in SUBSET Apps
    /\ free_ac_list \subseteq Apps \X Ids
    /\ todo \subseteq Apps

Types ==
    /\ Places
    /\ Lists
    /\ owner \in [Locks -> Threads \cup {NULL}]
    /\ aeloop \in LoopStates
    /\ xc \in [Apps -> Connections]
    /\ ac \in [Apps -> [Ids -> Contexts]]
    /\ woken \subseteq Threads

-----------------------------------------------------------------------------
(* Contexts *)

Listed(x) == reconn_list # NULL /\ x \in reconn_list
CurIs(x, i) == cur = <<x, i>>
\* The event loop takes this context apart: its socket is gone.
Torn(x, i) == pc[Ael] \in {"disc1", "disc2", "disc3", "acFree"} /\ CurIs(x, i)
Live(x, i) == ac[x][i].st \in {"new", "connecting", "connected"} /\ ~Torn(x, i)
Marked(x, i) == ac[x][i].freed
Tearing(x, i) == pc[Ael] \in {"disc1", "disc2", "disc3"} /\ CurIs(x, i)
\* The reconnect thread works on this context.
Renewing(x, i) ==
    pc[Rcn] \in {"register", "wait"} /\ visited = x /\ i = xc[x].last

LoopInv ==
    /\ aeloop.mem = "none" =>
         pc[Ael] = "off" /\ pc[Rcn] = "off" /\ \A a \in Apps : pc[a] = "idle"
    /\ pc[Ael] \in BusyLabels \cup {"deal", "dealNext", "poll", "clear"} => LoopLive
    /\ pc[Ael] \in {"clear1", "clear2"} => aeloop.mem = "freed"
    /\ pc[Ael] \in {"clear", "clear1", "clear2"} => "stop" \in causes
    /\ aeloop.mem = "freed" => CauseEnd
    /\ LoopLive /\ aeloop.stop => "stop" \in causes
    /\ reconn_list = NULL => CauseEnd /\ aeloop.mem = "freed" /\ pc[Ael] # "clear1"
    /\ \A a \in Apps : pc[a] = "clear2" => "threads" \in causes

NumberInv ==
    \A x \in Apps :
      /\ \A i \in Ids : ac[x][i].st = "none" <=> i > xc[x].last
      /\ \A i \in Ids : i > xc[x].last => ~Marked(x, i)
      /\ xc[x].ctx # RAW => xc[x].ctx <= xc[x].last
      /\ xc[x].ctx = RAW => pc[Rcn] = "raw" /\ visited = x
      /\ pc[Rcn] = "raw" /\ visited = x => xc[x].last < MaxAc /\ xc[x].ctx = RAW
      /\ pc[Rcn] \in {"register", "wait"} /\ visited = x => xc[x].last >= 1
      /\ xc[x].ctx = 0 => xc[x].mem = "none" \/ "attach" \in causes \/ "stop" \in causes

AppOK(a) ==
    /\ pc[a] \in {"idle", "clear2"} => xc[a].mem = "none" /\ xc[a].last = 0
    /\ pc[a] \in {"register", "wait", "up", "free2", "freeNow", "freeLock",
                  "freeWait", "done"} => xc[a].mem # "none" /\ xc[a].last >= 1
    /\ pc[a] \in {"idle", "clear2"} => ~Listed(a)
    /\ pc[a] = "register" =>
         /\ xc[a].status = "zero" /\ xc[a].last = 1 /\ xc[a].ctx = 1
         /\ xc[a].mem = "live" /\ ac[a][1].st = "new" /\ ~Marked(a, 1)
         /\ ~Listed(a)
    /\ pc[a] = "freeNow" => Cause4
    /\ xc[a].mem = "freed" => pc[a] = "done" \/ "stop" \in causes
    /\ a \in woken => pc[a] \in {"wait", "freeWait"}

AppInv == \A a \in Apps : AppOK(a)

CurInv ==
    \A x \in Apps, i \in Ids :
      CurIs(x, i) =>
        /\ pc[Ael] \in {"connOK", "connErr"} => ac[x][i].st = "connecting"
        /\ pc[Ael] \in {"disc1", "disc2", "disc3"} => ac[x][i].st = "connected"
        /\ pc[Ael] = "acFree" => ac[x][i].st \in {"connecting", "connected"}
        /\ pc[Ael] = "dealFree" =>
             /\ ac[x][i].st \in {"new", "connecting", "connected"}
             /\ Marked(x, i) /\ <<x, i>> \notin free_ac_list
        /\ pc[Ael] \in {"disc2", "disc3"} => xc[x].status = "disconnecting" \/ Cause4
        /\ pc[Ael] = "connErr" => "attach" \in causes
        /\ pc[Ael] = "acFree" /\ ac[x][i].st = "connecting" => "attach" \in causes
        /\ Torn(x, i) /\ Marked(x, i) => Cause4

StateInv ==
    \A x \in Apps, i \in Ids :
      /\ ac[x][i].st = "new" =>
           (i = 1 /\ pc[x] = "register") \/ (pc[Rcn] = "register" /\ Renewing(x, i))
      /\ pc[Rcn] = "register" /\ Renewing(x, i) => ac[x][i].st = "new"
      /\ ac[x][i].st = "connecting" =>
           (i = 1 /\ pc[x] = "wait") \/ (pc[Rcn] = "wait" /\ Renewing(x, i)) \/ Cause4
      /\ ac[x][i].st = "connecting" /\ xc[x].status = "connected" => Cause4
      /\ Listed(x) /\ xc[x].status = "connected" =>
           Cause4 \/ (pc[Rcn] = "wait" /\ visited = x)

RoundInv ==
    /\ pc[Rcn] \in {"visit", "raw", "register", "wait"} =>
         reconn_list # NULL /\ todo \subseteq reconn_list
    /\ pc[Rcn] \in {"raw", "register", "wait"} =>
         visited \in reconn_list /\ visited \notin todo

\* At most one context of a connection is in use, and none while it is scheduled.
SingleInv ==
    \A x \in Apps, i \in Ids : Live(x, i) =>
      /\ \A k \in Ids : k # i /\ Live(x, k) => Cause2
      /\ Listed(x) => Cause2 \/ Renewing(x, i)
      /\ \A k \in Ids : Tearing(x, k) => Cause2
TornInv ==
    \A x \in Apps, k \in Ids :
      /\ Tearing(x, k) /\ Listed(x) => Cause2 \/ (pc[Rcn] = "wait" /\ Renewing(x, k))
      /\ Torn(x, k) /\ pc[x] = "wait" /\ k = 1 => Cause4
      /\ Torn(x, k) /\ pc[Rcn] = "wait" /\ Renewing(x, k) => Cause4
      /\ pc[x] = "wait" /\ ac[x][1].st = "dead" => Cause4
      /\ pc[Rcn] = "wait" /\ Renewing(x, k) /\ ac[x][k].st = "dead" => Cause4
      /\ Listed(x) /\ pc[x] = "wait" => Cause4

\* What xRedisFree has handed to the event loop, until it is freed.
FreeListInv ==
    \A x \in Apps, i \in Ids :
      <<x, i>> \in free_ac_list =>
        Marked(x, i) /\ (ac[x][i].st = "dead" => Cause4)

MarkInv ==
    \A x \in Apps, i \in Ids : Marked(x, i) =>
      /\ pc[x] \in {"free2", "freeLock", "freeWait", "done"}
      /\ ac[x][i].st \in {"new", "connecting"} => Cause4
      /\ (x \in woken /\ pc[x] = "freeWait") \/ pc[x] = "done" =>
           Cause4 \/ ac[x][i].st = "dead"
      /\ \A k \in Ids : k # i => ~Marked(x, k) /\ (Live(x, k) => Cause4)

MarkListInv ==
    \A x \in Apps, i \in Ids : Marked(x, i) /\ Listed(x) =>
      /\ Cause4
      /\ ac[x][i].st # "dead" => Cause2 \/ (pc[Ael] = "acFree" /\ CurIs(x, i))

MarkTearInv ==
    \A x \in Apps, i \in Ids, k \in Ids : Marked(x, i) /\ Tearing(x, k) /\ k # i =>
      Cause4 /\ (ac[x][i].st # "dead" => Cause2)

WaitInv ==
    \A a \in Apps :
      /\ pc[a] \in {"free2", "freeLock", "freeWait"} => \E i \in Ids : Marked(a, i)
      /\ pc[a] = "done" => Cause4 \/ \E i \in Ids : Marked(a, i)

Inv ==
    /\ Types /\ LocksHeld /\ LoopInv /\ NumberInv /\ AppInv /\ CurInv /\ StateInv
    /\ RoundInv /\ SingleInv /\ TornInv /\ FreeListInv /\ MarkInv /\ MarkListInv
    /\ MarkTearInv /\ WaitInv

-----------------------------------------------------------------------------
(* Steps *)

\* Undefined behaviour is only recorded.
LEMMA UndefinedKeeps ==
    ASSUME Inv, NEW what, Undefined(what)
    PROVE  Inv'
<1>a. UNCHANGED <<pc, owner, aeloop, xc, ac, reconn_list, free_ac_list, cur, todo,
                  visited, woken, causes>>
  BY DEF Undefined, round
<1>1. Types'
  BY <1>a DEF Inv, Types, Places, Lists
<1>2. LocksHeld'
  BY <1>a DEF Inv, LocksHeld, Holds
<1>3. LoopInv'
  BY <1>a DEF Inv, LoopInv, CauseEnd, LoopLive
<1>4. NumberInv'
  BY <1>a DEF Inv, NumberInv, Marked
<1>5. AppInv'
  BY <1>a DEF Inv, AppInv, AppOK, Cause2, Cause4, Listed, Marked
<1>6. CurInv'
  BY <1>a DEF Inv, CurInv, Cause2, Cause4, CurIs, Torn, Marked
<1>7. StateInv'
  BY <1>a DEF Inv, StateInv, Cause2, Cause4, Renewing, Listed
<1>8. RoundInv'
  BY <1>a DEF Inv, RoundInv
<1>9. SingleInv'
  BY <1>a DEF Inv, SingleInv, Live, Torn, Tearing, Renewing, CurIs, Cause2, Listed
<1>10. TornInv'
  BY <1>a DEF Inv, TornInv, Torn, Tearing, Renewing, CurIs, Cause2, Cause4, Listed
<1>11. FreeListInv'
  BY <1>a DEF Inv, FreeListInv, Marked, Cause2, Cause4
<1>12. MarkInv'
  BY <1>a DEF Inv, MarkInv, Live, Torn, CurIs, Marked, Cause2, Cause4
<1>13. MarkListInv'
  BY <1>a DEF Inv, MarkListInv, CurIs, Marked, Cause2, Cause4, Listed
<1>14. MarkTearInv'
  BY <1>a DEF Inv, MarkTearInv, Tearing, CurIs, Marked, Cause2, Cause4
<1>15. WaitInv'
  BY <1>a DEF Inv, WaitInv, Cause2, Cause4, Marked, Ids
<1> QED BY <1>1, <1>2, <1>3, <1>4, <1>5, <1>6, <1>7, <1>8, <1>9, <1>10, <1>11, <1>12, <1>13,
      <1>14, <1>15 DEF Inv

\* A step that leaves the connections and their contexts alone.
QuietStep ==
    /\ UNCHANGED <<xc, ac, reconn_list, free_ac_list, cur, visited, woken>>
    /\ causes \subseteq causes'
    /\ \A a \in Apps : pc'[a] = pc[a]
    /\ \/ pc[Ael] \notin BusyLabels /\ pc'[Ael] \notin BusyLabels
       \/ pc'[Ael] = pc[Ael]
    /\ \/ {pc[Rcn], pc'[Rcn]} \cap {"raw", "register", "wait"} = {}
       \/ pc'[Rcn] = pc[Rcn]

\* A step that moves threads between positions the connection's invariants do not
\* tell apart, and takes or gives up a mutex, keeps them.
LEMMA QuietKeeps ==
    ASSUME Inv, QuietStep
    PROVE  /\ NumberInv' /\ AppInv' /\ CurInv' /\ StateInv' /\ SingleInv' /\ TornInv'
           /\ FreeListInv' /\ MarkInv' /\ MarkListInv' /\ MarkTearInv' /\ WaitInv'
<1>1. /\ Cause2 => Cause2'
      /\ Cause4 => Cause4'
      /\ \A x \in Apps : Listed(x)' = Listed(x)
      /\ \A x \in Apps, i \in Ids :
           /\ Torn(x, i)' = Torn(x, i) /\ Tearing(x, i)' = Tearing(x, i)
           /\ Live(x, i)' = Live(x, i) /\ Renewing(x, i)' = Renewing(x, i)
           /\ Marked(x, i)' = Marked(x, i) /\ CurIs(x, i)' = CurIs(x, i)
  <2>1. (Cause2 => Cause2') /\ (Cause4 => Cause4')
    BY DEF QuietStep, Cause2, Cause4
  <2>2. /\ \A x \in Apps : Listed(x)' = Listed(x)
        /\ \A x \in Apps, i \in Ids : Marked(x, i)' = Marked(x, i) /\ CurIs(x, i)' = CurIs(x, i)
    BY DEF QuietStep, Listed, Marked, CurIs
  <2>3. \A x \in Apps, i \in Ids : Renewing(x, i)' = Renewing(x, i)
    BY DEF QuietStep, Renewing
  <2>4. \A x \in Apps, i \in Ids :
          Torn(x, i)' = Torn(x, i) /\ Tearing(x, i)' = Tearing(x, i)
    BY <2>2 DEF QuietStep, Torn, Tearing, BusyLabels
  <2>5. \A x \in Apps, i \in Ids : Live(x, i)' = Live(x, i)
    BY <2>4 DEF QuietStep, Live
  <2> QED BY <2>1, <2>2, <2>3, <2>4, <2>5
<1>r. /\ pc'[Rcn] = "register" <=> pc[Rcn] = "register"
      /\ pc'[Rcn] = "wait" <=> pc[Rcn] = "wait"
      /\ \A y \in Apps : pc'[y] = pc[y]
      /\ UNCHANGED <<xc, ac, visited>>
  BY DEF QuietStep
<1>2. NumberInv'
  BY <1>1 DEF Inv, NumberInv, QuietStep
<1>3. AppInv'
  <2>1. 1 \in Ids
    BY AcAssumption DEF Ids
  <2> QED BY <1>1, <2>1 DEF Inv, AppInv, AppOK, QuietStep
<1>4. CurInv'
  BY <1>1 DEF Inv, CurInv, QuietStep, BusyLabels
<1>5. StateInv'
  BY <1>1, <1>r DEF Inv, StateInv
<1>6. SingleInv'
  BY <1>1 DEF Inv, SingleInv
<1>7. TornInv'
  BY <1>1, <1>r DEF Inv, TornInv
<1>8. FreeListInv'
  BY <1>1 DEF Inv, FreeListInv, QuietStep
<1>9. MarkInv'
  BY <1>1 DEF Inv, MarkInv, QuietStep
<1>10. MarkListInv'
  BY <1>1 DEF Inv, MarkListInv, QuietStep, BusyLabels
<1>11. MarkTearInv'
  BY <1>1 DEF Inv, MarkTearInv, QuietStep
<1>12. WaitInv'
  BY <1>1 DEF Inv, WaitInv, QuietStep
<1> QED BY <1>2, <1>3, <1>4, <1>5, <1>6, <1>7, <1>8, <1>9, <1>10, <1>11, <1>12

\* One xRedisContext changes.
LEMMA XcStep ==
    ASSUME xc \in [Apps -> Connections], NEW x \in Apps, NEW r \in Connections,
           xc' = [xc EXCEPT ![x] = r]
    PROVE  /\ xc' \in [Apps -> Connections]
           /\ \A y \in Apps : xc'[y] = IF y = x THEN r ELSE xc[y]
OBVIOUS

\* The fields of an xRedisAsyncContext record, and what assigning one keeps.
LEMMA ConnectionFields ==
    ASSUME NEW c \in Connections
    PROVE  /\ c.mem \in {"none", "live", "freed"} /\ c.status \in Status
           /\ c.ctx \in 0..RAW /\ c.last \in 0..MaxAc
           /\ \A m \in {"none", "live", "freed"} : [c EXCEPT !.mem = m] \in Connections
           /\ \A s \in Status : [c EXCEPT !.status = s] \in Connections
           /\ \A i \in 0..RAW : [c EXCEPT !.ctx = i] \in Connections
           /\ \A j \in 0..MaxAc : [c EXCEPT !.last = j] \in Connections
<1>1. /\ c.mem \in {"none", "live", "freed"} /\ c.status \in Status
      /\ c.ctx \in 0..RAW /\ c.last \in 0..MaxAc
  BY DEF Connections
<1>2. ASSUME NEW m \in {"none", "live", "freed"} PROVE [c EXCEPT !.mem = m] \in Connections
  BY DEF Connections
<1>3. ASSUME NEW s \in Status PROVE [c EXCEPT !.status = s] \in Connections
  BY DEF Connections
<1>4. ASSUME NEW i \in 0..RAW PROVE [c EXCEPT !.ctx = i] \in Connections
  BY DEF Connections
<1>5. ASSUME NEW j \in 0..MaxAc PROVE [c EXCEPT !.last = j] \in Connections
  BY DEF Connections
<1> QED BY <1>1, <1>2, <1>3, <1>4, <1>5

\* Assigning xRedisAsyncContext.ctx the raw allocation or NULL keeps the record's type.
LEMMA SetCtx ==
    ASSUME NEW c \in Connections
    PROVE  [c EXCEPT !.ctx = RAW] \in Connections /\ [c EXCEPT !.ctx = 0] \in Connections
<1>1. RAW \in 0..RAW /\ 0 \in 0..RAW
  BY AcAssumption DEF RAW
<1> QED BY <1>1, ConnectionFields

Renumber(c, i) == [c EXCEPT !.ctx = i, !.last = i]

\* Assigning ctx and last one number changes those two fields and no other.
LEMMA SetNumber ==
    ASSUME NEW c \in Connections, NEW i \in Ids
    PROVE  /\ Renumber(c, i) \in Connections
           /\ Renumber(c, i).ctx = i /\ Renumber(c, i).last = i
           /\ Renumber(c, i).mem = c.mem /\ Renumber(c, i).status = c.status
<1> DEFINE r == [c EXCEPT !.ctx = i]
<1>1. r \in Connections /\ r.ctx = i /\ r.mem = c.mem /\ r.status = c.status
  BY AcAssumption DEF Connections, RAW, Ids
<1>2. Renumber(c, i) = [r EXCEPT !.last = i]
  BY DEF Renumber
<1> HIDE DEF r
<1>3. i \in 0..MaxAc
  BY DEF Ids
<1> QED BY <1>1, <1>2, <1>3 DEF Connections

\* One context changes its state.
LEMMA AcStep ==
    ASSUME ac \in [Apps -> [Ids -> Contexts]], NEW x \in Apps, NEW i \in Ids,
           NEW s \in States, AcSet(x, i, s)
    PROVE  /\ ac' \in [Apps -> [Ids -> Contexts]]
           /\ \A y \in Apps, j \in Ids :
                /\ ac'[y][j].freed = ac[y][j].freed
                /\ ac'[y][j].st = IF y = x /\ j = i THEN s ELSE ac[y][j].st
<1>1. ac' = [ac EXCEPT ![x] = [ac[x] EXCEPT ![i] = [ac[x][i] EXCEPT !.st = s]]]
  BY DEF AcSet
<1>2. [ac[x][i] EXCEPT !.st = s] \in Contexts
  BY DEF Contexts
<1>3. [ac[x] EXCEPT ![i] = [ac[x][i] EXCEPT !.st = s]] \in [Ids -> Contexts]
  BY <1>2
<1>4. ac' \in [Apps -> [Ids -> Contexts]]
  BY <1>1, <1>3
<1>5. ASSUME NEW y \in Apps, NEW j \in Ids
      PROVE  ac'[y][j] = IF y = x /\ j = i THEN [ac[x][i] EXCEPT !.st = s] ELSE ac[y][j]
  BY <1>1
<1>6. [ac[x][i] EXCEPT !.st = s].st = s /\ [ac[x][i] EXCEPT !.st = s].freed = ac[x][i].freed
  BY DEF Contexts
<1> QED BY <1>4, <1>5, <1>6

\* xRedisFree marks one context.
AcMark(x, i) == ac' = [ac EXCEPT ![x][i].freed = TRUE]

\* Setting REDIS_FREEING on one context marks it and changes nothing else.
LEMMA MarkStep ==
    ASSUME ac \in [Apps -> [Ids -> Contexts]], NEW x \in Apps, NEW i \in Ids,
           AcMark(x, i)
    PROVE  /\ ac' \in [Apps -> [Ids -> Contexts]]
           /\ \A y \in Apps, j \in Ids :
                /\ ac'[y][j].st = ac[y][j].st
                /\ ac'[y][j].freed <=> (ac[y][j].freed \/ (y = x /\ j = i))
<1>1. ac' = [ac EXCEPT ![x] = [ac[x] EXCEPT ![i] = [ac[x][i] EXCEPT !.freed = TRUE]]]
  BY DEF AcMark
<1>2. [ac[x][i] EXCEPT !.freed = TRUE] \in Contexts
  <2>1. ac[x][i] \in Contexts
    OBVIOUS
  <2> QED BY <2>1 DEF Contexts
<1>3. [ac[x] EXCEPT ![i] = [ac[x][i] EXCEPT !.freed = TRUE]] \in [Ids -> Contexts]
  BY <1>2
<1>4. ac' \in [Apps -> [Ids -> Contexts]]
  BY <1>1, <1>3
<1>5. ASSUME NEW y \in Apps, NEW j \in Ids
      PROVE  ac'[y][j] = IF y = x /\ j = i THEN [ac[x][i] EXCEPT !.freed = TRUE] ELSE ac[y][j]
  BY <1>1
<1>6. /\ [ac[x][i] EXCEPT !.freed = TRUE].freed = TRUE
      /\ [ac[x][i] EXCEPT !.freed = TRUE].st = ac[x][i].st
  BY DEF Contexts
<1> QED BY <1>4, <1>5, <1>6

\* clearClient frees every scheduled connection.
LEMMA ClearEffects ==
    ASSUME Inv, clearReconnList, reconn_list # NULL,
           \A x \in reconn_list : Alive(x) /\ ~CtxGone(x)
    PROVE  /\ pc[Ael] = "clear1" /\ Free("reconn") /\ reconn_list' = NULL
           /\ pc' = [pc EXCEPT ![Ael] = "clear2"]
           /\ UNCHANGED <<owner, aeloop, free_ac_list, cur, todo, visited, woken, causes>>
           /\ xc' \in [Apps -> Connections]
           /\ \A y \in Apps :
                /\ xc'[y].status = xc[y].status /\ xc'[y].last = xc[y].last
                /\ xc'[y].mem = IF y \in reconn_list THEN "freed" ELSE xc[y].mem
                /\ xc'[y].ctx = IF y \in reconn_list THEN 0 ELSE xc[y].ctx
           /\ ac' \in [Apps -> [Ids -> Contexts]]
           /\ \A y \in Apps, j \in Ids :
                /\ ac'[y][j].freed = ac[y][j].freed
                /\ ac'[y][j].st = IF y \in reconn_list /\ j = xc[y].ctx
                                    THEN "dead" ELSE ac[y][j].st
<1> USE AcAssumption
<1> DEFINE Acs(y, j) == IF y \in reconn_list /\ j = xc[y].ctx
                          THEN [ac[y][j] EXCEPT !.st = "dead"] ELSE ac[y][j]
           Xcs(y) == IF y \in reconn_list
                       THEN [xc[y] EXCEPT !.mem = "freed", !.ctx = 0] ELSE xc[y]
           XcSet == xc' = [y \in Apps |-> Xcs(y)]
           AcSets == ac' = [y \in Apps |-> [j \in Ids |-> Acs(y, j)]]
<1>1. ~\E x \in reconn_list : ~Alive(x) \/ CtxGone(x)
  OBVIOUS
<1>2. /\ pc[Ael] = "clear1" /\ Free("reconn") /\ reconn_list' = NULL
      /\ pc' = [pc EXCEPT ![Ael] = "clear2"]
      /\ UNCHANGED <<owner, aeloop, free_ac_list, cur, todo, visited, woken, causes>>
      /\ XcSet /\ AcSets
  BY <1>1, clearReconnList, Zenon DEF clearReconnList, Goto, round, LoopAt, Ids
<1>3. ASSUME NEW y \in Apps PROVE xc'[y] = Xcs(y)
  <2> HIDE DEF Xcs
  <2> QED BY <1>2, Zenon
<1>4. ASSUME NEW y \in Apps, NEW j \in Ids PROVE ac'[y][j] = Acs(y, j)
  <2> HIDE DEF Acs
  <2> QED BY <1>2, Zenon
<1>5. ASSUME NEW y \in Apps
      PROVE  /\ Xcs(y) \in Connections
             /\ Xcs(y).status = xc[y].status /\ Xcs(y).last = xc[y].last
             /\ Xcs(y).mem = IF y \in reconn_list THEN "freed" ELSE xc[y].mem
             /\ Xcs(y).ctx = IF y \in reconn_list THEN 0 ELSE xc[y].ctx
  <2>1. xc[y] \in Connections
    BY DEF Inv, Types
  <2>2. CASE y \in reconn_list
    <3> DEFINE r == [xc[y] EXCEPT !.mem = "freed"]
    <3>1. r \in Connections /\ r.mem = "freed" /\ r.status = xc[y].status /\ r.last = xc[y].last
      BY <2>1 DEF Connections
    <3>2. Xcs(y) = [r EXCEPT !.ctx = 0]
      BY <2>2
    <3> HIDE DEF r, Xcs
    <3>3. [r EXCEPT !.ctx = 0] \in Connections /\ [r EXCEPT !.ctx = 0].ctx = 0 /\
            [r EXCEPT !.ctx = 0].mem = r.mem
          /\ [r EXCEPT !.ctx = 0].status = r.status /\ [r EXCEPT !.ctx = 0].last = r.last
      BY <3>1 DEF Connections, RAW
    <3> QED BY <2>2, <3>1, <3>2, <3>3
  <2>3. CASE y \notin reconn_list
    BY <2>1, <2>3
  <2> QED BY <2>2, <2>3
<1>6. ASSUME NEW y \in Apps, NEW j \in Ids
      PROVE  /\ Acs(y, j) \in Contexts
             /\ Acs(y, j).freed = ac[y][j].freed
             /\ Acs(y, j).st = IF y \in reconn_list /\ j = xc[y].ctx
                                 THEN "dead" ELSE ac[y][j].st
  <2>1. ac[y][j] \in Contexts
    BY DEF Inv, Types
  <2> QED BY <2>1 DEF Contexts, States
<1>7. xc' \in [Apps -> Connections] /\ ac' \in [Apps -> [Ids -> Contexts]]
  <2> HIDE DEF Xcs, Acs
  <2>1. xc' \in [Apps -> Connections]
    BY <1>2, <1>5
  <2>2. \A y \in Apps : [j \in Ids |-> Acs(y, j)] \in [Ids -> Contexts]
    <3> SUFFICES ASSUME NEW y \in Apps PROVE [j \in Ids |-> Acs(y, j)] \in [Ids -> Contexts]
      BY Zenon
    <3>1. \A j \in Ids : Acs(y, j) \in Contexts
      BY <1>6
    <3> QED BY <3>1
  <2>3. ac' \in [Apps -> [Ids -> Contexts]]
    BY <1>2, <2>2, Zenon
  <2> QED BY <2>1, <2>3
<1> HIDE DEF Xcs, Acs, XcSet, AcSets
<1> QED BY <1>2, <1>3, <1>4, <1>5, <1>6, <1>7

\* An attempt that is still waited for is not taken apart without a cause.
LEMMA TearingWaited ==
    ASSUME Inv, NEW x \in Apps, NEW k \in Ids, Tearing(x, k), pc[x] = "wait"
    PROVE  Cause4
<1> USE AcAssumption
<1>1. CASE k = 1
  BY <1>1 DEF Inv, TornInv, Tearing, Torn
<1>2. CASE k # 1
  <2>0. 1 \in Ids
    BY DEF Ids
  <2>1. ac[x][1].st # "none"
    <3>1. xc[x].last \in Nat /\ xc[x].last >= 1
      BY DEF Inv, AppInv, AppOK, Types, Connections
    <3> QED BY <2>0, <3>1 DEF Inv, NumberInv
  <2>4. CASE ac[x][1].st = "new"
    <3>1. Listed(x)
      BY <2>0, <2>4 DEF Inv, StateInv, RoundInv, Renewing, Listed
    <3> QED BY <2>0, <3>1 DEF Inv, TornInv
  <2>2. CASE ac[x][1].st # "new"
    <3>1. ac[x][1].st = "dead" \/ Live(x, 1)
      BY <2>0, <2>1, <2>2, <1>2 DEF Live, Torn, Tearing, CurIs, Inv, Types, Contexts, States
    <3> QED BY <2>0, <3>1, <1>2 DEF Inv, SingleInv, TornInv, Cause4
  <2> QED BY <2>2, <2>4
<1> QED BY <1>1, <1>2

-----------------------------------------------------------------------------
(* One lemma per action *)

\* xRedisConnect creates a connection with its first context, or fails to.
LEMMA ConnectBeginKeeps ==
    ASSUME Inv, NEW a \in Apps, connectBegin(a)
    PROVE  Inv'
<1> USE AcAssumption, AppAssumption, NullAssumption DEF Ael, Rcn, Threads, Ids
<1>e. /\ pc[a] = "idle" /\ Free("client") /\ Free(a)
      /\ owner' = [owner EXCEPT ![a] = a]
      /\ IF aeloop.mem = "none"
           THEN /\ aeloop' = [mem |-> "live", stop |-> FALSE]
                /\ pc' = [pc EXCEPT ![a] = "register", ![Ael] = "start", ![Rcn] = "check"]
           ELSE /\ pc' = [pc EXCEPT ![a] = "register"]
                /\ aeloop' = aeloop
      /\ xc' = [xc EXCEPT ![a] = [mem |-> "live", status |-> "zero", ctx |-> 1, last |-> 1]]
      /\ AcSet(a, 1, "new")
      /\ UNCHANGED <<reconn_list, free_ac_list, cur, todo, visited, woken, causes>>
  BY connectBegin(a) DEF connectBegin, Lock, Goto, round
<1>c. /\ ac' \in [Apps -> [Ids -> Contexts]]
      /\ \A y \in Apps, j \in Ids :
           /\ ac'[y][j].freed = ac[y][j].freed
           /\ ac'[y][j].st = IF y = a /\ j = 1 THEN "new" ELSE ac[y][j].st
  <2>1. a \in Apps /\ 1 \in Ids /\ "new" \in States
    BY DEF Ids, States
  <2>2. ac \in [Apps -> [Ids -> Contexts]] /\ AcSet(a, 1, "new")
    BY <1>e DEF Inv, Types
  <2> HIDE DEF Ael, Rcn, Threads, Ids
  <2> QED BY <2>1, <2>2, AcStep
<1>x. /\ xc' \in [Apps -> Connections]
      /\ \A y \in Apps : y # a => xc'[y] = xc[y]
      /\ xc'[a].mem = "live"
      /\ xc'[a].status = "zero"
      /\ xc'[a].ctx = 1
      /\ xc'[a].last = 1
  <2> DEFINE r == [mem |-> "live", status |-> "zero", ctx |-> 1, last |-> 1]
  <2>1. xc[a] \in Connections
    BY DEF Inv, Types
  <2>2. r \in Connections /\ r.mem = "live" /\ r.status = "zero" /\ r.ctx = 1 /\ r.last = 1
    BY DEF Connections, Status, RAW
  <2>3. xc' = [xc EXCEPT ![a] = r]
    BY <1>e, <2>1 DEF Inv, Types
  <2> HIDE DEF r
  <2>4. /\ xc' \in [Apps -> Connections]
        /\ \A y \in Apps : xc'[y] = IF y = a THEN r ELSE xc[y]
    BY <2>2, <2>3, XcStep DEF Inv, Types
  <2> QED BY <2>2, <2>4
<1>v. /\ xc[a].last = 0 /\ ~Listed(a)
      /\ \A k \in Ids :
           /\ ac[a][k].st = "none" /\ ~Live(a, k) /\ ~Tearing(a, k) /\ ~Torn(a, k)
           /\ ~Marked(a, k) /\ ~(pc[Rcn] \in {"register", "wait"} /\ Renewing(a, k))
      /\ \A y \in Apps, k \in Ids :
           /\ Live(y, k)' <=> (Live(y, k) \/ (y = a /\ k = 1))
           /\ Tearing(y, k)' = Tearing(y, k) /\ Renewing(y, k)' = Renewing(y, k)
           /\ Marked(y, k)' = Marked(y, k) /\ Torn(y, k)' = Torn(y, k)
      /\ \A y \in Apps : Listed(y)' = Listed(y)
      /\ Cause2' = Cause2 /\ Cause4' = Cause4
      /\ pc'[a] = "register" /\ \A y \in Apps : y # a => pc'[y] = pc[y]
      /\ \/ pc'[Ael] = pc[Ael] /\ pc'[Rcn] = pc[Rcn]
         \/ pc'[Ael] = "start" /\ pc'[Rcn] = "check" /\ pc[Ael] = "off" /\ pc[Rcn] = "off"
  <2>1. xc[a].last = 0 /\ ~Listed(a)
    BY <1>e DEF Inv, AppInv, AppOK
  <2>2. \A k \in Ids : ac[a][k].st = "none" /\ ~Marked(a, k)
    BY <2>1 DEF Inv, NumberInv
  <2>3. \A k \in Ids : ~Torn(a, k) /\ ~Tearing(a, k)
    BY <2>2 DEF Inv, CurInv, Torn, Tearing
  <2>4. visited = a => pc[Rcn] \notin {"register", "wait"}
    BY <2>1 DEF Inv, NumberInv
  <2>5. \/ pc'[Ael] = pc[Ael] /\ pc'[Rcn] = pc[Rcn]
        \/ pc'[Ael] = "start" /\ pc'[Rcn] = "check" /\ pc[Ael] = "off" /\ pc[Rcn] = "off"
    BY <1>e DEF Inv, Types, Places, LoopInv
  <2>6. /\ Cause2' = Cause2 /\ Cause4' = Cause4
        /\ \A y \in Apps : Listed(y)' = Listed(y)
    BY <1>e DEF Cause2, Cause4, Listed
  <2>10. pc'[a] = "register" /\ \A y \in Apps : y # a => pc'[y] = pc[y]
    BY <1>e DEF Inv, Types, Places
  <2>7. \A y \in Apps, k \in Ids :
          /\ Tearing(y, k)' = Tearing(y, k) /\ Torn(y, k)' = Torn(y, k)
          /\ Marked(y, k)' = Marked(y, k)
    BY <1>e, <1>c, <2>5 DEF Tearing, Torn, CurIs, Marked
  <2>8. \A y \in Apps, k \in Ids : Renewing(y, k)' = Renewing(y, k)
    BY <1>e, <1>x, <2>4, <2>5 DEF Renewing
  <2>9. \A y \in Apps, k \in Ids : Live(y, k)' <=> (Live(y, k) \/ (y = a /\ k = 1))
    BY <1>c, <2>2, <2>3, <2>7 DEF Live
  <2> QED BY <2>1, <2>2, <2>3, <2>4, <2>5, <2>6, <2>7, <2>8, <2>9, <2>10 DEF Live, Renewing
<1>1. Types'
  <2>1. Places'
    <3>1. \/ pc' = [pc EXCEPT ![a] = "register", ![Ael] = "start", ![Rcn] = "check"]
          \/ pc' = [pc EXCEPT ![a] = "register"]
      BY <1>e
    <3>2. /\ pc \in [Threads -> AppLabels \cup AelLabels \cup RcnLabels]
          /\ \A y \in Apps : pc[y] \in AppLabels
          /\ pc[Ael] \in AelLabels /\ pc[Rcn] \in RcnLabels
      BY DEF Inv, Types, Places
    <3>3. /\ "register" \in AppLabels /\ "start" \in AelLabels \ BusyLabels
          /\ "check" \in RcnLabels
      BY DEF AppLabels, AelLabels, BusyLabels, RcnLabels
    <3>4. /\ pc' \in [Threads -> AppLabels \cup AelLabels \cup RcnLabels]
          /\ \A y \in Apps : pc'[y] \in AppLabels
          /\ pc'[Ael] \in AelLabels /\ pc'[Rcn] \in RcnLabels
          /\ pc'[Ael] \in BusyLabels => pc'[Ael] = pc[Ael]
          /\ pc'[Rcn] # "check" => pc'[Rcn] = pc[Rcn]
      BY <3>1, <3>2, <3>3
    <3> QED BY <1>e, <3>4 DEF Inv, Types, Places
  <2>3. aeloop' \in LoopStates
    <3>1. aeloop \in [mem : {"none", "live", "freed"}, stop : BOOLEAN]
      BY DEF Inv, Types, LoopStates
    <3>2. aeloop' = [mem |-> "live", stop |-> FALSE] \/ aeloop' = aeloop
      BY <1>e
    <3>3. [mem |-> "live", stop |-> FALSE] \in [mem : {"none", "live", "freed"}, stop : BOOLEAN]
      OBVIOUS
    <3> QED BY <3>1, <3>2, <3>3, Zenon DEF LoopStates
  <2> QED BY <1>e, <1>c, <1>x, <2>1, <2>3 DEF Inv, Types, Lists, Locks
<1>2. LocksHeld'
  <2> SUFFICES ASSUME NEW l \in Locks, NEW t \in Threads
               PROVE  (owner[l] = t <=> Holds(l, t))'
    BY DEF LocksHeld
  <2> QED BY <1>e DEF Inv, Types, LocksHeld, LoopInv, Places, Free, Holds
<1>3. LoopInv'
  BY <1>e DEF Inv, Types, LoopInv, Places, LoopLive, CauseEnd
<1>4. NumberInv'
  BY <1>e, <1>c
     DEF Inv, Types, LoopInv, NumberInv, AppInv, RoundInv, Places, RAW, RcnLabels, Contexts,
         Listed, Marked, AppOK
<1>5. AppInv'
  <2> SUFFICES ASSUME NEW y \in Apps
               PROVE  AppOK(y)'
    BY DEF AppInv
  <2>1. 1 \in Ids /\ AppOK(y)
    BY DEF Inv, AppInv
  <2>2. CASE y = a
    BY <1>v, <1>c, <1>x, <1>e, <2>1, <2>2 DEF AppOK
  <2>3. CASE y # a
    BY <1>v, <1>c, <1>x, <1>e, <2>1, <2>3 DEF AppOK
  <2> QED BY <2>2, <2>3
<1>6. CurInv'
  <2> SUFFICES ASSUME NEW y \in Apps, NEW k \in Ids, CurIs(y, k)'
               PROVE  /\ pc[Ael] \in {"connOK", "connErr"} => ac'[y][k].st = "connecting"
                      /\ pc[Ael] \in {"disc1", "disc2", "disc3"} => ac'[y][k].st = "connected"
                      /\ pc[Ael] = "acFree" => ac'[y][k].st \in {"connecting", "connected"}
                      /\ pc[Ael] = "dealFree" =>
                           /\ ac'[y][k].st \in {"new", "connecting", "connected"}
                           /\ Marked(y, k) /\ <<y, k>> \notin free_ac_list
                      /\ pc[Ael] \in {"disc2", "disc3"} => xc'[y].status = "disconnecting" \/
                           Cause4
                      /\ pc[Ael] = "connErr" => "attach" \in causes
                      /\ pc[Ael] = "acFree" /\ ac'[y][k].st = "connecting" =>
                           "attach" \in causes
                      /\ Torn(y, k) /\ Marked(y, k) => Cause4
    BY <1>e, <1>v DEF CurInv
  <2>1. CurIs(y, k)
    BY <1>e DEF CurIs
  <2>2. CASE y = a
    <3>1. ac[y][k].st = "none"
      BY <1>v, <2>2
    <3>2. pc[Ael] \notin BusyLabels
      BY <2>1, <3>1 DEF Inv, CurInv, BusyLabels
    <3>3. ~Torn(y, k)
      BY <1>v, <2>2
    <3> QED BY <3>2, <3>3 DEF BusyLabels
  <2>3. CASE y # a
    <3>1. ac'[y][k].st = ac[y][k].st /\ xc'[y] = xc[y]
      BY <1>c, <1>x, <2>3
    <3> QED BY <2>1, <3>1 DEF Inv, CurInv
  <2> QED BY <2>2, <2>3
<1>7. StateInv'
  <2> SUFFICES ASSUME NEW y \in Apps, NEW k \in Ids
               PROVE  /\ ac'[y][k].st = "new" =>
                           (k = 1 /\ pc'[y] = "register") \/ (pc'[Rcn] = "register" /\
                             Renewing(y, k))
                      /\ pc'[Rcn] = "register" /\ Renewing(y, k) => ac'[y][k].st = "new"
                      /\ ac'[y][k].st = "connecting" =>
                           (k = 1 /\ pc'[y] = "wait") \/ (pc'[Rcn] = "wait" /\
                             Renewing(y, k)) \/ Cause4
                      /\ ac'[y][k].st = "connecting" /\ xc'[y].status = "connected" => Cause4
                      /\ Listed(y) /\ xc'[y].status = "connected" =>
                           Cause4 \/ (pc'[Rcn] = "wait" /\ visited = y)
    BY <1>e, <1>v DEF StateInv
  <2>1. pc'[Rcn] = pc[Rcn] \/ (pc'[Rcn] = "check" /\ pc[Rcn] = "off")
    BY <1>v
  <2>2. CASE y = a
    <3>1. ac'[y][k].st = IF k = 1 THEN "new" ELSE "none"
      BY <1>c, <1>v, <2>2
    <3> QED BY <1>v, <2>1, <2>2, <3>1
  <2>3. CASE y # a
    <3>1. ac'[y][k].st = ac[y][k].st /\ xc'[y] = xc[y] /\ pc'[y] = pc[y]
      BY <1>c, <1>x, <1>v, <2>3
    <3> QED BY <2>1, <2>3, <3>1 DEF Inv, StateInv
  <2> QED BY <2>2, <2>3
<1>8. RoundInv'
  BY <1>e DEF Inv, Types, RoundInv, Places
<1>9. SingleInv'
  BY <1>v DEF Inv, SingleInv
<1>10. TornInv'
  <2> SUFFICES ASSUME NEW y \in Apps, NEW k \in Ids
               PROVE  /\ (Tearing(y, k) /\ Listed(y) =>
                           Cause2 \/ (pc[Rcn] = "wait" /\ Renewing(y, k)))'
                      /\ (Torn(y, k) /\ pc[y] = "wait" /\ k = 1 => Cause4)'
                      /\ (Torn(y, k) /\ pc[Rcn] = "wait" /\ Renewing(y, k) => Cause4)'
                      /\ (pc[y] = "wait" /\ ac[y][1].st = "dead" => Cause4)'
                      /\ (pc[Rcn] = "wait" /\ Renewing(y, k) /\ ac[y][k].st = "dead" => Cause4)'
                      /\ (Listed(y) /\ pc[y] = "wait" => Cause4)'
    BY DEF TornInv
  <2>1. 1 \in Ids
    OBVIOUS
  <2>2. CASE y = a
    BY <1>v, <1>c, <2>1, <2>2
  <2>3. CASE y # a
    BY <1>v, <1>c, <2>1, <2>3 DEF Inv, TornInv
  <2> QED BY <2>2, <2>3
<1>11. FreeListInv'
  BY <1>v, <1>c, <1>e DEF Inv, FreeListInv
<1>12. MarkInv'
  BY <1>v, <1>c, <1>e, SMTT(60) DEF Inv, MarkInv
<1>13. MarkListInv'
  BY <1>v, <1>c, <1>e DEF Inv, MarkListInv, CurIs
<1>14. MarkTearInv'
  BY <1>v, <1>c DEF Inv, MarkTearInv
<1>15. WaitInv'
  <2> SUFFICES ASSUME NEW b \in Apps
               PROVE  /\ pc'[b] \in {"free2", "freeLock", "freeWait"} =>
                           \E i \in Ids : ac'[b][i].freed
                      /\ pc'[b] = "done" => Cause4' \/ \E i \in Ids : ac'[b][i].freed
    BY DEF WaitInv, Marked
  <2>1. /\ pc[b] \in {"free2", "freeLock", "freeWait"} => \E i \in Ids : ac[b][i].freed
        /\ pc[b] = "done" => Cause4 \/ \E i \in Ids : ac[b][i].freed
    BY DEF Inv, WaitInv, Marked
  <2>2. ASSUME NEW i \in Ids, ac[b][i].freed PROVE ac'[b][i].freed
    BY <1>c, <2>2
  <2> QED BY <1>e, <1>c, <2>1, <2>2 DEF Inv, Types, Places, Cause2, Cause4
<1> QED BY <1>1, <1>2, <1>3, <1>4, <1>5, <1>6, <1>7, <1>8, <1>9, <1>10, <1>11, <1>12, <1>13,
           <1>14, <1>15 DEF Inv

\* xRedisConnect fails to start the threads of the client.
LEMMA ConnectFailsKeeps ==
    ASSUME Inv, NEW a \in Apps, connectFails(a)
    PROVE  Inv'
<1> USE AcAssumption, AppAssumption, NullAssumption DEF Ael, Rcn, Threads, Ids
<1>1. Types'
  <2>1. Places'
    <3>1. \/ pc' = [pc EXCEPT ![a] = "clear2", ![Ael] = "start"]
          \/ pc' = [pc EXCEPT ![a] = "clear2", ![Ael] = "off"]
      BY connectFails(a) DEF connectFails
    <3>2. UNCHANGED <<cur, visited>> /\ pc[Rcn] = "off" /\ a # Rcn /\ a # Ael
      BY connectFails(a) DEF connectFails, round, Inv, LoopInv
    <3>3. /\ pc'[Ael] \in {"start", "off"} /\ pc'[Rcn] = "off" /\ pc'[a] = "clear2"
          /\ \A y \in Apps : y # a => pc'[y] = pc[y]
      <4>1. /\ DOMAIN pc = Threads /\ Ael # Rcn
            /\ \A y \in Apps : y \in Threads /\ y # Ael /\ y # Rcn
        BY DEF Inv, Types, Places
      <4> QED BY <3>1, <3>2, <4>1
    <3>4. pc' \in [Threads -> AppLabels \cup AelLabels \cup RcnLabels]
      <4> DEFINE all == AppLabels \cup AelLabels \cup RcnLabels
      <4>1. {"clear2", "start", "off"} \subseteq all
        BY DEF AppLabels, AelLabels, RcnLabels
      <4>2. pc \in [Threads -> all]
        BY DEF Inv, Types, Places
      <4> HIDE DEF all
      <4>3. pc' \in [Threads -> all]
        BY <3>1, <4>1, <4>2
      <4> QED BY <4>3 DEF all
    <3> QED BY <3>2, <3>3, <3>4 DEF Inv, Types, Places, AppLabels, AelLabels, BusyLabels,
          RcnLabels
  <2>2. Lists'
    BY connectFails(a) DEF Inv, Types, Lists, round, connectFails
  <2>3. aeloop' \in LoopStates
    BY connectFails(a) DEF connectFails, LoopStates
  <2> QED BY connectFails(a), <2>1, <2>2, <2>3 DEF Inv, Types, Locks, Lock, connectFails
<1>2. LocksHeld'
  <2> SUFFICES ASSUME NEW l \in Locks, NEW t \in Threads
               PROVE  (owner[l] = t <=> Holds(l, t))'
    BY DEF LocksHeld
  <2> QED BY connectFails(a)
     DEF Inv, Types, LocksHeld, Places, round, Free, Lock, connectFails, Holds, BusyLabels,
         AelLabels
<1>3. LoopInv'
  BY connectFails(a)
     DEF Inv, Types, LoopInv, Places, LoopLive, connectFails, CauseEnd, BusyLabels
<1>4. NumberInv'
  BY connectFails(a) DEF Inv, Types, NumberInv, Places, round, connectFails, Marked
<1>5. AppInv'
  BY connectFails(a)
     DEF Inv, Types, AppInv, Places, connectFails, Cause2, Cause4, Listed, Marked, AppOK
<1>6. CurInv'
  BY connectFails(a) DEF Inv, Types, CurInv, Places, connectFails, Torn
<1>7. StateInv'
  BY connectFails(a)
     DEF Inv, Types, StateInv, Places, round, connectFails, Cause2, Cause4, BusyLabels,
         Listed, Renewing
<1>8. RoundInv'
  BY connectFails(a) DEF Inv, Types, LoopInv, RoundInv, Places, connectFails
<1>9. SingleInv'
  BY connectFails(a)
     DEF Inv, LoopInv, NumberInv, AppInv, SingleInv, connectFails, Cause2, Torn, Live,
         Renewing, AppOK
<1>10. TornInv'
  BY connectFails(a)
     DEF Inv, Types, TornInv, Places, round, connectFails, Cause2, Cause4, Listed, Torn,
         Renewing
<1>11. FreeListInv'
  BY connectFails(a) DEF Inv, FreeListInv, connectFails, Cause2, Cause4, Marked
<1>12. MarkInv'
  BY connectFails(a) DEF Inv, LoopInv, MarkInv, connectFails, Marked
<1>13. MarkListInv'
  BY connectFails(a) DEF MarkListInv, connectFails, Listed
<1>14. MarkTearInv'
  BY connectFails(a) DEF Inv, Types, MarkTearInv, Places, connectFails, Tearing
<1>15. WaitInv'
  <2> SUFFICES ASSUME NEW b \in Apps
               PROVE  /\ pc'[b] \in {"free2", "freeLock", "freeWait"} =>
                           \E i \in Ids : ac'[b][i].freed
                      /\ pc'[b] = "done" => Cause4' \/ \E i \in Ids : ac'[b][i].freed
    BY DEF WaitInv, Marked
  <2>1. /\ pc[b] \in {"free2", "freeLock", "freeWait"} => \E i \in Ids : ac[b][i].freed
        /\ pc[b] = "done" => Cause4 \/ \E i \in Ids : ac[b][i].freed
    BY DEF Inv, WaitInv, Marked
  <2>2. ASSUME NEW i \in Ids, ac[b][i].freed PROVE ac'[b][i].freed
    BY connectFails(a), <2>2 DEF connectFails
  <2> QED BY connectFails(a), <2>1 DEF Inv, Types, Places, connectFails, Cause2, Cause4
<1> QED BY <1>1, <1>2, <1>3, <1>4, <1>5, <1>6, <1>7, <1>8, <1>9, <1>10, <1>11, <1>12, <1>13,
           <1>14, <1>15 DEF Inv

\* The context of xRedisConnect enters the table of the event loop.
LEMMA RegisterAppKeeps ==
    ASSUME Inv, NEW a \in Apps, register(a), LoopLive
    PROVE  Inv'
<1> USE AcAssumption, AppAssumption, NullAssumption DEF Ael, Rcn, Threads, Ids
<1>w. WaitsOn(a) = a /\ a # Rcn /\ a # Ael /\ xc[a].last = 1
  BY register(a) DEF WaitsOn, Rcn, Ael, register, Inv, AppInv, AppOK
<1>e. /\ pc[a] = "register" /\ Free("client") /\ AcSet(a, 1, "connecting")
      /\ owner' = [owner EXCEPT ![a] = NULL]
      /\ pc' = [pc EXCEPT ![a] = "wait"]
      /\ UNCHANGED <<aeloop, xc, reconn_list, free_ac_list, cur, todo, visited, woken, causes>>
  BY register(a), LoopLive, <1>w DEF register, Unlock, Goto, round
<1>c. /\ ac' \in [Apps -> [Ids -> Contexts]]
      /\ \A y \in Apps, j \in Ids :
           /\ ac'[y][j].freed = ac[y][j].freed
           /\ ac'[y][j].st = IF y = a /\ j = 1 THEN "connecting" ELSE ac[y][j].st
  <2>1. a \in Apps /\ 1 \in Ids /\ "connecting" \in States
    BY DEF Ids, States
  <2>2. ac \in [Apps -> [Ids -> Contexts]] /\ AcSet(a, 1, "connecting")
    BY <1>e DEF Inv, Types
  <2> HIDE DEF Ael, Rcn, Threads, Ids
  <2> QED BY <2>1, <2>2, AcStep
<1>o. 1 \in Ids /\ ac[a][1].st = "new" /\ ~Marked(a, 1) /\ ~Listed(a) /\ xc[a].mem = "live"
      /\ xc[a].status = "zero"
  BY <1>e DEF Inv, AppInv, AppOK
<1>p. /\ pc'[a] = "wait" /\ \A y \in Apps : y # a => pc'[y] = pc[y]
      /\ pc'[Ael] = pc[Ael] /\ pc'[Rcn] = pc[Rcn]
  BY <1>e, <1>w DEF Inv, Types, Places
<1>v. /\ \A y \in Apps, k \in Ids :
           /\ Tearing(y, k)' = Tearing(y, k) /\ Torn(y, k)' = Torn(y, k)
           /\ Renewing(y, k)' = Renewing(y, k) /\ CurIs(y, k)' = CurIs(y, k)
           /\ Marked(y, k)' = Marked(y, k) /\ Live(y, k)' = Live(y, k)
      /\ \A y \in Apps : Listed(y)' = Listed(y)
      /\ Cause2' = Cause2 /\ Cause4' = Cause4
  BY <1>e, <1>c, <1>o, <1>p
     DEF Live, Torn, Tearing, Renewing, CurIs, Marked, Listed, Cause2, Cause4
<1>1. Types'
  <2>1. Places'
    BY <1>e DEF Inv, Types, Places, AppLabels
  <2> QED BY <1>e, <1>c, <2>1 DEF Inv, Types, Lists, Locks
<1>2. LocksHeld'
  <2> SUFFICES ASSUME NEW l \in Locks, NEW t \in Threads
               PROVE  (owner[l] = t <=> Holds(l, t))'
    BY DEF LocksHeld
  <2> QED BY <1>e DEF Inv, Types, LocksHeld, Places, Holds
<1>3. LoopInv'
  BY <1>e DEF Inv, LoopInv, LoopLive
<1>4. NumberInv'
  BY <1>w, <1>e, <1>c
     DEF Inv, Types, NumberInv, CurInv, Connections, Contexts, LoopStates, Marked
<1>5. AppInv'
  <2> SUFFICES ASSUME NEW y \in Apps PROVE AppOK(y)'
    BY DEF AppInv
  <2>1. AppOK(y)
    BY DEF Inv, AppInv
  <2>2. CASE y = a
    BY <1>e, <1>w, <1>o, <1>p, <2>1, <2>2 DEF AppOK
  <2>3. CASE y # a
    BY <1>e, <1>c, <1>o, <1>p, <1>v, <2>1, <2>3 DEF AppOK
  <2> QED BY <2>2, <2>3
<1>6. CurInv'
  BY <1>e, <1>c, <1>o, <1>p, <1>v DEF Inv, CurInv
<1>7. StateInv'
  <2> SUFFICES ASSUME NEW y \in Apps, NEW k \in Ids
               PROVE  /\ ac'[y][k].st = "new" =>
                           (k = 1 /\ pc'[y] = "register") \/ (pc[Rcn] = "register" /\
                             Renewing(y, k))
                      /\ pc[Rcn] = "register" /\ Renewing(y, k) => ac'[y][k].st = "new"
                      /\ ac'[y][k].st = "connecting" =>
                           (k = 1 /\ pc'[y] = "wait") \/ (pc[Rcn] = "wait" /\
                             Renewing(y, k)) \/ Cause4
                      /\ ac'[y][k].st = "connecting" /\ xc[y].status = "connected" => Cause4
                      /\ Listed(y) /\ xc[y].status = "connected" =>
                           Cause4 \/ (pc[Rcn] = "wait" /\ visited = y)
    BY <1>e, <1>p, <1>v DEF StateInv
  <2>1. CASE y = a /\ k = 1
    <3>1. ~(pc[Rcn] = "register" /\ Renewing(a, 1))
      BY <1>o DEF Inv, RoundInv, Renewing, Listed
    <3> QED BY <1>c, <1>o, <1>p, <2>1, <3>1
  <2>2. CASE ~(y = a /\ k = 1)
    <3>1. ac'[y][k].st = ac[y][k].st
      BY <1>c, <2>2
    <3>2. /\ (k = 1 /\ pc[y] = "register") => (k = 1 /\ pc'[y] = "register")
          /\ (k = 1 /\ pc[y] = "wait") => (k = 1 /\ pc'[y] = "wait")
      BY <1>p, <2>2
    <3> QED BY <3>1, <3>2 DEF Inv, StateInv
  <2> QED BY <2>1, <2>2
<1>8. RoundInv'
  BY <1>e DEF Inv, RoundInv
<1>9. SingleInv'
  BY <1>v DEF Inv, SingleInv
<1>10. TornInv'
  <2>1. ~Torn(a, 1)
    BY <1>o DEF Inv, CurInv, Torn
  <2>2. \A y \in Apps : y # a /\ pc'[y] = "wait" => pc[y] = "wait"
    BY <1>p
  <2>3. \A y \in Apps, k \in Ids : ac'[y][k].st = "dead" => ac[y][k].st = "dead"
    BY <1>c
  <2>4. ac'[a][1].st # "dead"
    BY <1>c, <1>o
  <2> QED BY <1>o, <1>p, <1>v, <2>1, <2>2, <2>3, <2>4 DEF Inv, TornInv
<1>11. FreeListInv'
  BY <1>e, <1>c, <1>o, <1>v DEF Inv, FreeListInv
<1>12. MarkInv'
  BY <1>e, <1>c, <1>o, <1>p, <1>v DEF Inv, MarkInv
<1>13. MarkListInv'
  BY <1>e, <1>c, <1>o, <1>p, <1>v DEF Inv, MarkListInv
<1>14. MarkTearInv'
  BY <1>e, <1>c, <1>o, <1>p, <1>v DEF Inv, MarkTearInv
<1>15. WaitInv'
  <2> SUFFICES ASSUME NEW b \in Apps
               PROVE  /\ pc'[b] \in {"free2", "freeLock", "freeWait"} =>
                           \E i \in Ids : ac'[b][i].freed
                      /\ pc'[b] = "done" => Cause4' \/ \E i \in Ids : ac'[b][i].freed
    BY DEF WaitInv, Marked
  <2>1. /\ pc[b] \in {"free2", "freeLock", "freeWait"} => \E i \in Ids : ac[b][i].freed
        /\ pc[b] = "done" => Cause4 \/ \E i \in Ids : ac[b][i].freed
    BY DEF Inv, WaitInv, Marked
  <2>2. ASSUME NEW i \in Ids, ac[b][i].freed PROVE ac'[b][i].freed
    BY <1>c, <2>2
  <2> QED BY <1>e, <2>1, <2>2 DEF Cause2, Cause4
<1> QED BY <1>1, <1>2, <1>3, <1>4, <1>5, <1>6, <1>7, <1>8, <1>9, <1>10, <1>11, <1>12, <1>13,
           <1>14, <1>15 DEF Inv

\* The context of reconnectDis enters the table of the event loop.
LEMMA RegisterRcnKeeps ==
    ASSUME Inv, register(Rcn), LoopLive
    PROVE  Inv'
<1> USE AcAssumption, AppAssumption, NullAssumption DEF Ael, Rcn, Threads, Ids
<1>w. /\ WaitsOn(Rcn) = visited /\ visited \in Apps /\ pc[Rcn] = "register"
      /\ xc[visited].last \in Ids
  BY register(Rcn) DEF WaitsOn, register, Inv, Types, Places, Lists, NumberInv, Connections, Ids
<1>e. /\ pc[Rcn] = "register" /\ Free("client") /\
           AcSet(visited, xc[visited].last, "connecting")
      /\ owner' = [owner EXCEPT ![visited] = NULL]
      /\ pc' = [pc EXCEPT ![Rcn] = "wait"]
      /\ UNCHANGED <<aeloop, xc, reconn_list, free_ac_list, cur, todo, visited, woken, causes>>
  BY register(Rcn), LoopLive, <1>w DEF register, Unlock, Goto, round
<1>c. /\ ac' \in [Apps -> [Ids -> Contexts]]
      /\ \A y \in Apps, j \in Ids :
           /\ ac'[y][j].freed = ac[y][j].freed
           /\ ac'[y][j].st = IF y = visited /\
                j = xc[visited].last THEN "connecting" ELSE ac[y][j].st
  <2>1. visited \in Apps /\ xc[visited].last \in Ids /\ "connecting" \in States
    BY <1>w DEF States
  <2>2. ac \in [Apps -> [Ids -> Contexts]] /\ AcSet(visited, xc[visited].last, "connecting")
    BY <1>e DEF Inv, Types
  <2> HIDE DEF Ael, Rcn, Threads, Ids
  <2> QED BY <2>1, <2>2, AcStep
<1>o. /\ ac[visited][xc[visited].last].st = "new" /\ Listed(visited)
      /\ Renewing(visited, xc[visited].last)
  BY <1>w DEF Inv, StateInv, RoundInv, Renewing, Listed
<1>t. ~Torn(visited, xc[visited].last)
  BY <1>o, <1>w DEF Inv, CurInv, Torn
<1>p. /\ pc'[Rcn] = "wait" /\ pc'[Ael] = pc[Ael]
      /\ \A y \in Apps : pc'[y] = pc[y]
  BY <1>e DEF Inv, Types, Places
<1>v. /\ \A y \in Apps, k \in Ids :
           /\ Tearing(y, k)' = Tearing(y, k) /\ Torn(y, k)' = Torn(y, k)
           /\ Renewing(y, k)' <=> (y = visited /\ k = xc[visited].last)
           /\ Renewing(y, k) <=> (y = visited /\ k = xc[visited].last)
           /\ CurIs(y, k)' = CurIs(y, k)
           /\ Marked(y, k)' = Marked(y, k) /\ Live(y, k)' = Live(y, k)
      /\ \A y \in Apps : Listed(y)' = Listed(y)
      /\ Cause2' = Cause2 /\ Cause4' = Cause4
  BY <1>e, <1>c, <1>o, <1>p
     DEF Live, Torn, Tearing, Renewing, CurIs, Marked, Listed, Cause2, Cause4
<1>d. \A y \in Apps, k \in Ids : ac'[y][k].st = "dead" <=> ac[y][k].st = "dead"
  BY <1>c, <1>o
<1>1. Types'
  <2>1. Places'
    BY <1>e DEF Inv, Types, Places, RcnLabels
  <2> QED BY <1>w, <1>e, <1>c, <2>1 DEF Inv, Types, Lists, Locks
<1>2. LocksHeld'
  <2> SUFFICES ASSUME NEW l \in Locks, NEW t \in Threads
               PROVE  (owner[l] = t <=> Holds(l, t))'
    BY DEF LocksHeld
  <2> QED BY <1>e DEF Inv, Types, LocksHeld, Places, Locks, Holds
<1>3. LoopInv'
  BY <1>e DEF Inv, LoopInv, LoopLive
<1>4. NumberInv'
  BY LoopLive, <1>w, <1>e, <1>c
     DEF Inv, Types, NumberInv, Lists, Connections, Contexts, Marked
<1>5. AppInv'
  BY <1>e, <1>c DEF Inv, LocksHeld, AppInv, RoundInv, Cause2, Cause4, Listed, Marked, AppOK
<1>6. CurInv'
  BY <1>e, <1>c, <1>o, <1>p, <1>v DEF Inv, CurInv, Torn, CurIs
<1>7. StateInv'
  <2> SUFFICES ASSUME NEW y \in Apps, NEW k \in Ids
               PROVE  /\ ac'[y][k].st = "new" => k = 1 /\ pc'[y] = "register"
                      /\ ac'[y][k].st = "connecting" =>
                           (k = 1 /\ pc'[y] = "wait") \/ Renewing(y, k) \/ Cause4
                      /\ ac'[y][k].st = "connecting" /\ xc[y].status = "connected" => Cause4
    <3>1. \A y \in Apps : Listed(y) /\ xc[y].status = "connected" => Cause4 \/ visited = y
      BY <1>w DEF Inv, StateInv
    <3> QED BY <1>e, <1>p, <1>v, <3>1 DEF StateInv
  <2>1. CASE y = visited /\ k = xc[visited].last
    BY <1>c, <1>o, <1>w, <2>1 DEF Inv, StateInv
  <2>2. CASE ~(y = visited /\ k = xc[visited].last)
    <3>1. ac'[y][k].st = ac[y][k].st
      BY <1>c, <2>2
    <3> QED BY <1>p, <1>v, <1>w, <2>2, <3>1 DEF Inv, StateInv
  <2> QED BY <2>1, <2>2
<1>8. RoundInv'
  BY <1>e DEF Inv, RoundInv
<1>9. SingleInv'
  BY <1>v DEF Inv, SingleInv
<1>10. TornInv'
  BY <1>w, <1>o, <1>t, <1>p, <1>v, <1>d DEF Inv, TornInv
<1>11. FreeListInv'
  BY <1>e, <1>d, <1>v DEF Inv, FreeListInv
<1>12. MarkInv'
  <2>1. \A y \in Apps, k \in Ids :
          ac'[y][k].st \in {"new", "connecting"} <=> ac[y][k].st \in {"new", "connecting"}
    BY <1>c, <1>o
  <2> QED BY <1>e, <1>d, <1>p, <1>v, <2>1 DEF Inv, MarkInv
<1>13. MarkListInv'
  BY <1>e, <1>d, <1>p, <1>v DEF Inv, MarkListInv
<1>14. MarkTearInv'
  BY <1>d, <1>v DEF Inv, MarkTearInv
<1>15. WaitInv'
  <2> SUFFICES ASSUME NEW b \in Apps
               PROVE  /\ pc'[b] \in {"free2", "freeLock", "freeWait"} =>
                           \E i \in Ids : ac'[b][i].freed
                      /\ pc'[b] = "done" => Cause4' \/ \E i \in Ids : ac'[b][i].freed
    BY DEF WaitInv, Marked
  <2>1. /\ pc[b] \in {"free2", "freeLock", "freeWait"} => \E i \in Ids : ac[b][i].freed
        /\ pc[b] = "done" => Cause4 \/ \E i \in Ids : ac[b][i].freed
    BY DEF Inv, WaitInv, Marked
  <2>2. ASSUME NEW i \in Ids PROVE ac'[b][i].freed = ac[b][i].freed
    BY <1>c
  <2>3. pc'[b] = pc[b]
    BY <1>e DEF Inv, Types, Places, Lists, Threads, Rcn
  <2>4. Cause4' = Cause4
    BY <1>e DEF Cause4, Cause2
  <2> QED BY <2>1, <2>2, <2>3, <2>4
<1> QED BY <1>1, <1>2, <1>3, <1>4, <1>5, <1>6, <1>7, <1>8, <1>9, <1>10, <1>11, <1>12, <1>13,
           <1>14, <1>15 DEF Inv

\* The wait of xRedisConnect ends with the connection up.
LEMMA AttachUpKeeps ==
    ASSUME Inv, NEW a \in Apps, attachEnd(a), AcLive(a, 1), Attached(a)
    PROVE  Inv'
<1> USE AcAssumption, AppAssumption, NullAssumption DEF Ael, Rcn, Threads, Ids
<1>e. /\ pc[a] = "wait" /\ Free(a) /\ xc[a].status = "connected" /\ ac[a][1].st # "dead"
      /\ woken' = woken \ {a}
      /\ pc' = [pc EXCEPT ![a] = "up"]
      /\ UNCHANGED <<owner, aeloop, xc, ac, reconn_list, free_ac_list, cur, todo, visited,
           causes>>
  BY attachEnd(a), AcLive(a, 1), Attached(a) DEF attachEnd, AcLive, Attached, Goto, round
<1>1. Types'
  <2>1. Places'
    BY <1>e DEF Inv, Types, Places, AppLabels
  <2> QED BY <1>e, <2>1 DEF Inv, Types, Lists
<1>2. LocksHeld'
  <2> SUFFICES ASSUME NEW l \in Locks, NEW t \in Threads
               PROVE  (owner[l] = t <=> Holds(l, t))'
    BY DEF LocksHeld
  <2> QED BY <1>e DEF Inv, LocksHeld, Holds
<1>3. LoopInv'
  BY <1>e DEF Inv, LoopInv, LoopLive, CauseEnd
<1>4. NumberInv'
  BY <1>e DEF Inv, NumberInv, Marked
<1>5. AppInv'
  BY <1>e DEF Inv, AppInv, Cause2, Cause4, Listed, Marked, AppOK
<1>6. CurInv'
  BY <1>e DEF Inv, CurInv, Cause2, Cause4, CurIs, Torn, Marked
<1>7. StateInv'
  BY <1>e DEF Inv, StateInv, Cause2, Cause4, Listed, Renewing
<1>8. RoundInv'
  BY <1>e DEF Inv, RoundInv
<1>9. SingleInv'
  BY <1>e DEF Inv, SingleInv, Cause2, Listed, CurIs, Torn, Live, Tearing, Renewing
<1>10. TornInv'
  BY <1>e DEF Inv, TornInv, Cause2, Cause4, Listed, CurIs, Torn, Tearing, Renewing
<1>11. FreeListInv'
  BY <1>e DEF Inv, FreeListInv, Cause2, Cause4, Marked
<1>12. MarkInv'
  BY <1>e DEF Inv, MarkInv, Cause2, Cause4, CurIs, Torn, Live, Marked
<1>13. MarkListInv'
  BY <1>e DEF Inv, MarkListInv, Cause2, Cause4, Listed, CurIs, Marked
<1>14. MarkTearInv'
  BY <1>e DEF Inv, MarkTearInv, Cause2, Cause4, CurIs, Marked, Tearing
<1>15. WaitInv'
  <2> SUFFICES ASSUME NEW b \in Apps
               PROVE  /\ pc'[b] \in {"free2", "freeLock", "freeWait"} =>
                           \E i \in Ids : ac'[b][i].freed
                      /\ pc'[b] = "done" => Cause4' \/ \E i \in Ids : ac'[b][i].freed
    BY DEF WaitInv, Marked
  <2>1. /\ pc[b] \in {"free2", "freeLock", "freeWait"} => \E i \in Ids : ac[b][i].freed
        /\ pc[b] = "done" => Cause4 \/ \E i \in Ids : ac[b][i].freed
    BY DEF Inv, WaitInv, Marked
  <2>2. ASSUME NEW i \in Ids, ac[b][i].freed PROVE ac'[b][i].freed
    BY <1>e, <2>2
  <2> QED BY <1>e, <2>1 DEF Cause2, Cause4
<1> QED BY <1>1, <1>2, <1>3, <1>4, <1>5, <1>6, <1>7, <1>8, <1>9, <1>10, <1>11, <1>12, <1>13,
           <1>14, <1>15 DEF Inv

\* The wait of xRedisConnect ends without a connection.
LEMMA AttachDoneKeeps ==
    ASSUME Inv, NEW a \in Apps, attachEnd(a), AcLive(a, 1), ~Attached(a)
    PROVE  Inv'
<1> USE AcAssumption, AppAssumption, NullAssumption DEF Ael, Rcn, Threads, Ids
<1>e. /\ pc[a] = "wait" /\ Free(a) /\ xc[a].status # "connected" /\ ac[a][1].st # "dead"
      /\ woken' = woken \ {a}
      /\ pc' = [pc EXCEPT ![a] = "done"]
      /\ xc' = [xc EXCEPT ![a].mem = "freed"]
      /\ causes' = causes \cup {"attach"}
      /\ UNCHANGED <<owner, aeloop, ac, reconn_list, free_ac_list, cur, todo, visited>>
  BY attachEnd(a), AcLive(a, 1), ~Attached(a) DEF attachEnd, AcLive, Attached, Goto, round
<1>x. /\ xc' \in [Apps -> Connections]
      /\ \A y \in Apps : y # a => xc'[y] = xc[y]
      /\ xc'[a].mem = "freed"
      /\ xc'[a].status = xc[a].status
      /\ xc'[a].ctx = xc[a].ctx
      /\ xc'[a].last = xc[a].last
  <2> DEFINE r == [xc[a] EXCEPT !.mem = "freed"]
  <2>1. xc[a] \in Connections
    BY DEF Inv, Types
  <2>2. r \in Connections /\ r.mem = "freed" /\ r.status = xc[a].status /\ r.ctx = xc[a].ctx /\
          r.last = xc[a].last
    BY <2>1, ConnectionFields DEF Connections
  <2>3. xc' = [xc EXCEPT ![a] = r]
    BY <1>e, <2>1 DEF Inv, Types
  <2> HIDE DEF r
  <2>4. /\ xc' \in [Apps -> Connections]
        /\ \A y \in Apps : xc'[y] = IF y = a THEN r ELSE xc[y]
    BY <2>2, <2>3, XcStep DEF Inv, Types
  <2> QED BY <2>2, <2>4
<1>1. Types'
  <2>1. Places'
    BY <1>e DEF Inv, Types, Places, AppLabels
  <2> QED BY <1>e, <1>x, <2>1 DEF Inv, Types, Lists
<1>2. LocksHeld'
  <2> SUFFICES ASSUME NEW l \in Locks, NEW t \in Threads
               PROVE  (owner[l] = t <=> Holds(l, t))'
    BY DEF LocksHeld
  <2> QED BY <1>e DEF Inv, LocksHeld, Holds
<1>3. LoopInv'
  BY <1>e DEF Inv, LoopInv, LoopLive, CauseEnd
<1>4. NumberInv'
  BY <1>e DEF Inv, NumberInv, Marked
<1>5. AppInv'
  BY <1>e DEF Inv, Types, AppInv, Places, Cause2, Cause4, Listed, Marked, AppOK
<1>6. CurInv'
  BY <1>e DEF Inv, CurInv, Cause2, Cause4, CurIs, Marked
<1>7. StateInv'
  BY <1>e DEF Inv, StateInv, Cause2, Cause4, Renewing
<1>8. RoundInv'
  BY <1>e DEF Inv, RoundInv
<1>9. SingleInv'
  BY <1>e DEF SingleInv, Cause2
<1>10. TornInv'
  BY <1>e DEF TornInv, Cause2, Cause4
<1>11. FreeListInv'
  BY <1>e DEF Inv, FreeListInv, Cause2, Cause4, Marked
<1>12. MarkInv'
  BY <1>e DEF Inv, MarkInv, Cause2, Cause4, Marked
<1>13. MarkListInv'
  BY <1>e DEF MarkListInv, Cause2, Cause4
<1>14. MarkTearInv'
  BY <1>e DEF MarkTearInv, Cause2, Cause4
<1>15. WaitInv'
  <2> SUFFICES ASSUME NEW b \in Apps
               PROVE  /\ pc'[b] \in {"free2", "freeLock", "freeWait"} =>
                           \E i \in Ids : ac'[b][i].freed
                      /\ pc'[b] = "done" => Cause4' \/ \E i \in Ids : ac'[b][i].freed
    BY DEF WaitInv, Marked
  <2>1. /\ pc[b] \in {"free2", "freeLock", "freeWait"} => \E i \in Ids : ac[b][i].freed
        /\ pc[b] = "done" => Cause4 \/ \E i \in Ids : ac[b][i].freed
    BY DEF Inv, WaitInv, Marked
  <2>2. ASSUME NEW i \in Ids, ac[b][i].freed PROVE ac'[b][i].freed
    BY <1>e, <2>2
  <2> QED BY <1>e, <2>1 DEF Cause2, Cause4
<1> QED BY <1>1, <1>2, <1>3, <1>4, <1>5, <1>6, <1>7, <1>8, <1>9, <1>10, <1>11, <1>12, <1>13,
           <1>14, <1>15 DEF Inv

\* xRedisFree finds its context freed.
LEMMA Free1CtxKeeps ==
    ASSUME Inv, NEW a \in Apps, free1(a), CtxGone(a)
    PROVE  Inv'
<1> USE AcAssumption, AppAssumption, NullAssumption DEF Ael, Rcn, Threads, Ids
<1>e. /\ causes' = causes \cup {"down"}
      /\ UNCHANGED <<pc, owner, aeloop, xc, ac, reconn_list, free_ac_list, cur, todo, visited,
           woken>>
  BY free1(a), CtxGone(a) DEF free1, CtxGone, round
<1>1. Types'
  <2>1. Places'
    BY <1>e DEF Inv, Types, Places
  <2> QED BY <1>e, <2>1 DEF Inv, Types, Lists
<1>2. LocksHeld'
  <2> SUFFICES ASSUME NEW l \in Locks, NEW t \in Threads
               PROVE  (owner[l] = t <=> Holds(l, t))'
    BY DEF LocksHeld
  <2> QED BY <1>e DEF Inv, LocksHeld, Holds
<1>3. LoopInv'
  BY <1>e DEF Inv, LoopInv, LoopLive, CauseEnd
<1>4. RoundInv'
  BY <1>e DEF Inv, RoundInv
<1>5. QuietStep
  <2>1. UNCHANGED <<xc, ac, reconn_list, free_ac_list, cur, visited, woken>> /\
          causes \subseteq causes'
    BY <1>e
  <2>2. \A y \in Apps : pc'[y] = pc[y]
    BY <1>e
  <2>3. \/ pc[Ael] \notin BusyLabels /\ pc'[Ael] \notin BusyLabels
        \/ pc'[Ael] = pc[Ael]
    BY <1>e
  <2>4. \/ {pc[Rcn], pc'[Rcn]} \cap {"raw", "register", "wait"} = {}
        \/ pc'[Rcn] = pc[Rcn]
    OBVIOUS
  <2> QED BY <2>1, <2>2, <2>3, <2>4 DEF QuietStep
<1> QED BY <1>1, <1>2, <1>3, <1>4, <1>5, QuietKeeps DEF Inv

\* xRedisFree finds no context.
LEMMA Free1NoneKeeps ==
    ASSUME Inv, NEW a \in Apps, free1(a), xc[a].ctx = 0
    PROVE  Inv'
<1> USE AcAssumption, AppAssumption, NullAssumption DEF Ael, Rcn, Threads, Ids
<1>e. /\ pc[a] = "up" /\ Free("client") /\ xc[a].ctx = 0
      /\ pc' = [pc EXCEPT ![a] = "freeNow"]
      /\ causes \subseteq causes'
      /\ Settled(a) \/ "down" \in causes'
      /\ UNCHANGED <<owner, aeloop, xc, ac, reconn_list, free_ac_list, cur, todo, visited,
           woken>>
  <2>1. xc[a].ctx # RAW
    BY xc[a].ctx = 0 DEF RAW
  <2>2. causes' = causes \cup (IF Settled(a) THEN {} ELSE {"down"})
                          \cup (IF cur = <<a, xc[a].ctx>> THEN {"loss"} ELSE {})
    BY free1(a), xc[a].ctx = 0, <2>1 DEF free1, CtxGone
  <2> QED BY free1(a), xc[a].ctx = 0, <2>1, <2>2 DEF free1, CtxGone, Goto, round
<1>1. Types'
  <2>1. Places'
    BY <1>e DEF Inv, Types, Places, AppLabels
  <2> QED BY <1>e, <2>1 DEF Inv, Types, Lists
<1>2. LocksHeld'
  <2> SUFFICES ASSUME NEW l \in Locks, NEW t \in Threads
               PROVE  (owner[l] = t <=> Holds(l, t))'
    BY DEF LocksHeld
  <2> QED BY <1>e DEF Inv, LocksHeld, Holds
<1>3. LoopInv'
  BY <1>e DEF Inv, LoopInv, LoopLive, CauseEnd
<1>4. NumberInv'
  BY <1>e DEF Inv, NumberInv, Marked
<1>5. AppInv'
  BY <1>e DEF Inv, NumberInv, AppInv, Cause2, Cause4, Listed, Marked, AppOK
<1>6. CurInv'
  BY <1>e DEF Inv, CurInv, Cause2, Cause4, CurIs, Torn, Marked
<1>7. StateInv'
  BY <1>e DEF Inv, StateInv, Cause2, Cause4, Listed, Renewing
<1>8. RoundInv'
  BY <1>e DEF Inv, RoundInv
<1>9. SingleInv'
  BY <1>e DEF Inv, SingleInv, Cause2, Listed, CurIs, Torn, Live, Tearing, Renewing
<1>10. TornInv'
  BY <1>e DEF Inv, TornInv, Cause2, Cause4, Listed, CurIs, Torn, Tearing, Renewing
<1>11. FreeListInv'
  BY <1>e DEF Inv, FreeListInv, Cause2, Cause4, Marked
<1>12. MarkInv'
  BY <1>e DEF Inv, MarkInv, Cause2, Cause4, CurIs, Torn, Live, Marked
<1>13. MarkListInv'
  BY <1>e DEF Inv, MarkListInv, Cause2, Cause4, Listed, CurIs, Marked
<1>14. MarkTearInv'
  BY <1>e DEF Inv, MarkTearInv, Cause2, Cause4, CurIs, Marked, Tearing
<1>15. WaitInv'
  <2> SUFFICES ASSUME NEW b \in Apps
               PROVE  /\ pc'[b] \in {"free2", "freeLock", "freeWait"} =>
                           \E i \in Ids : ac'[b][i].freed
                      /\ pc'[b] = "done" => Cause4' \/ \E i \in Ids : ac'[b][i].freed
    BY DEF WaitInv, Marked
  <2>1. /\ pc[b] \in {"free2", "freeLock", "freeWait"} => \E i \in Ids : ac[b][i].freed
        /\ pc[b] = "done" => Cause4 \/ \E i \in Ids : ac[b][i].freed
    BY DEF Inv, WaitInv, Marked
  <2>2. ASSUME NEW i \in Ids, ac[b][i].freed PROVE ac'[b][i].freed
    BY <1>e, <2>2
  <2> QED BY <1>e, <2>1 DEF Cause2, Cause4
<1> QED BY <1>1, <1>2, <1>3, <1>4, <1>5, <1>6, <1>7, <1>8, <1>9, <1>10, <1>11, <1>12, <1>13,
           <1>14, <1>15 DEF Inv

\* xRedisFree marks the context as to be freed.
LEMMA Free1MarkKeeps ==
    ASSUME Inv, NEW a \in Apps, free1(a), xc[a].ctx # RAW, xc[a].ctx # 0,
           AcLive(a, xc[a].ctx)
    PROVE  Inv'
<1> USE AcAssumption, AppAssumption, NullAssumption DEF Ael, Rcn, Threads, Ids
<1> DEFINE i == xc[a].ctx
<1>i. i \in Ids /\ i # 0 /\ i = xc[a].ctx
  BY xc[a].ctx # RAW, xc[a].ctx # 0 DEF Inv, Types, Connections, RAW, Ids
<1>e. /\ pc[a] = "up" /\ Free("client") /\ ac[a][i].st # "dead"
      /\ AcMark(a, i)
      /\ free_ac_list' = free_ac_list \cup {<<a, i>>}
      /\ pc' = [pc EXCEPT ![a] = "free2"]
      /\ causes \subseteq causes'
      /\ Settled(a) \/ "down" \in causes'
      /\ cur = <<a, i>> => "loss" \in causes'
      /\ UNCHANGED <<owner, aeloop, xc, reconn_list, cur, todo, visited, woken>>
  <2>2. causes' = causes \cup (IF Settled(a) THEN {} ELSE {"down"})
                          \cup (IF cur = <<a, xc[a].ctx>> THEN {"loss"} ELSE {})
    BY free1(a), xc[a].ctx # RAW, xc[a].ctx # 0, AcLive(a, xc[a].ctx) DEF free1, CtxGone
  <2> QED BY free1(a), xc[a].ctx # RAW, xc[a].ctx # 0, AcLive(a, xc[a].ctx), <2>2
          DEF free1, CtxGone, Goto, round, AcLive, AcMark
<1> HIDE DEF i
<1>c. /\ ac' \in [Apps -> [Ids -> Contexts]]
      /\ \A y \in Apps, j \in Ids :
           /\ ac'[y][j].st = ac[y][j].st
           /\ ac'[y][j].freed <=> (ac[y][j].freed \/ (y = a /\ j = i))
  BY <1>e, <1>i, MarkStep DEF Inv, Types
<1>v. /\ \A y \in Apps, k \in Ids :
           /\ Live(y, k)' = Live(y, k) /\ Tearing(y, k)' = Tearing(y, k)
           /\ Torn(y, k)' = Torn(y, k) /\ Renewing(y, k)' = Renewing(y, k)
           /\ CurIs(y, k)' = CurIs(y, k)
           /\ Marked(y, k)' <=> (Marked(y, k) \/ (y = a /\ k = i))
      /\ \A y \in Apps : Listed(y)' = Listed(y)
      /\ (Cause2 => Cause2') /\ (Cause4 => Cause4')
      /\ Listed(a) => Cause2' /\ Cause4'
      /\ pc'[Ael] = pc[Ael] /\ pc'[Rcn] = pc[Rcn]
      /\ pc'[a] = "free2" /\ \A y \in Apps : y # a => pc'[y] = pc[y]
  <2>1. /\ pc'[Ael] = pc[Ael] /\ pc'[Rcn] = pc[Rcn]
        /\ pc'[a] = "free2" /\ \A y \in Apps : y # a => pc'[y] = pc[y]
    BY <1>e DEF Inv, Types, Places
  <2>2. (Cause2 => Cause2') /\ (Cause4 => Cause4') /\ (Listed(a) => Cause2' /\ Cause4')
    BY <1>e DEF Cause2, Cause4, Listed, Settled
  <2> QED BY <1>e, <1>c, <2>1, <2>2
          DEF Live, Torn, Tearing, Renewing, CurIs, Marked, Listed
<1>1. Types'
  <2>1. Places'
    BY <1>e DEF Inv, Types, Places, AppLabels
  <2>2. Lists'
    BY <1>e, <1>i DEF Inv, Types, Lists
  <2> QED BY <1>e, <1>c, <2>1, <2>2 DEF Inv, Types
<1>2. LocksHeld'
  <2> SUFFICES ASSUME NEW l \in Locks, NEW t \in Threads
               PROVE  (owner[l] = t <=> Holds(l, t))'
    BY DEF LocksHeld
  <2> QED BY <1>e DEF Inv, LocksHeld, Holds
<1>3. LoopInv'
  BY <1>e DEF Inv, LoopInv, LoopLive, CauseEnd
<1>4. NumberInv'
  <2> SUFFICES ASSUME NEW y \in Apps
               PROVE  /\ (\A m \in Ids : ac[y][m].st = "none" <=> m > xc[y].last)'
                      /\ (\A m \in Ids : m > xc[y].last => ~Marked(y, m))'
                      /\ (xc[y].ctx # RAW => xc[y].ctx <= xc[y].last)'
                      /\ (xc[y].ctx = RAW => pc[Rcn] = "raw" /\ visited = y)'
                      /\ (pc[Rcn] = "raw" /\ visited = y => xc[y].last < MaxAc /\
                           xc[y].ctx = RAW)'
                      /\ (pc[Rcn] \in {"register", "wait"} /\ visited = y => xc[y].last >= 1)'
                      /\ (xc[y].ctx = 0 => xc[y].mem = "none" \/ "attach" \in causes \/
                           "stop" \in causes)'
    BY DEF NumberInv
  <2>1. (\A m \in Ids : ac[y][m].st = "none" <=> m > xc[y].last)'
    BY <1>e, <1>i, <1>c DEF Inv, NumberInv, Contexts
  <2>2. (\A m \in Ids : m > xc[y].last => ~Marked(y, m))'
    BY <1>e, <1>i, <1>c
       DEF Inv, Types, NumberInv, Places, Lists, Connections, Contexts, Marked
  <2>3. (xc[y].ctx # RAW => xc[y].ctx <= xc[y].last)'
    BY <1>e DEF Inv, NumberInv
  <2>4. (xc[y].ctx = RAW => pc[Rcn] = "raw" /\ visited = y)'
    BY <1>e DEF Inv, NumberInv
  <2>5. (pc[Rcn] = "raw" /\ visited = y => xc[y].last < MaxAc /\ xc[y].ctx = RAW)'
    BY <1>e DEF Inv, NumberInv
  <2>6. (pc[Rcn] \in {"register", "wait"} /\ visited = y => xc[y].last >= 1)'
    BY <1>e DEF Inv, NumberInv
  <2>7. (xc[y].ctx = 0 => xc[y].mem = "none" \/ "attach" \in causes \/ "stop" \in causes)'
    BY <1>e DEF Inv, NumberInv
  <2> QED BY <2>1, <2>2, <2>3, <2>4, <2>5, <2>6, <2>7
<1>5. AppInv'
  BY <1>e, <1>c DEF Inv, AppInv, Cause2, Cause4, Listed, Marked, AppOK
<1>6. CurInv'
  <2>1. ASSUME NEW y \in Apps, NEW k \in Ids, Marked(y, k) PROVE ~(y = a /\ k = i)
    BY <1>e, <2>1 DEF Inv, MarkInv
  <2>2. ASSUME NEW y \in Apps, NEW k \in Ids, Torn(y, k), CurIs(y, k), y = a,
          k = i PROVE Cause4'
    BY <1>e, <2>2 DEF CurIs, Cause4
  <2>3. \A y \in Apps, k \in Ids : <<y, k>> \in free_ac_list' =>
                                     <<y, k>> \in free_ac_list \/ (y = a /\ k = i)
    BY <1>e
  <2> QED BY <1>e, <1>c, <1>v, <2>1, <2>2, <2>3 DEF Inv, CurInv
<1>7. StateInv'
  <2>1. /\ \A y \in Apps, k \in Ids : ac'[y][k].st = ac[y][k].st
        /\ \A y \in Apps : pc[y] \in {"register", "wait"} => pc'[y] = pc[y]
        /\ UNCHANGED <<xc, visited>> /\ pc'[Rcn] = pc[Rcn]
    BY <1>c, <1>e, <1>v
  <2>2. /\ \A y \in Apps : Listed(y)' = Listed(y)
        /\ \A y \in Apps, k \in Ids : Renewing(y, k)' = Renewing(y, k)
        /\ Cause4 => Cause4'
    BY <1>v
  <2> SUFFICES ASSUME NEW y \in Apps, NEW k \in Ids
               PROVE  /\ ac[y][k].st = "new" =>
                           (k = 1 /\ pc'[y] = "register") \/ (pc[Rcn] = "register" /\
                             Renewing(y, k))
                      /\ pc[Rcn] = "register" /\ Renewing(y, k) => ac[y][k].st = "new"
                      /\ ac[y][k].st = "connecting" =>
                           (k = 1 /\ pc'[y] = "wait") \/ (pc[Rcn] = "wait" /\
                             Renewing(y, k)) \/ Cause4
                      /\ ac[y][k].st = "connecting" /\ xc[y].status = "connected" => Cause4
                      /\ Listed(y) /\ xc[y].status = "connected" =>
                           Cause4 \/ (pc[Rcn] = "wait" /\ visited = y)
    BY <2>1, <2>2 DEF StateInv
  <2> QED BY <2>1 DEF Inv, StateInv
<1>8. RoundInv'
  BY <1>e DEF Inv, RoundInv
<1>9. SingleInv'
  BY <1>v DEF Inv, SingleInv
<1>10. TornInv'
  <2>1. \A y \in Apps : pc'[y] = "wait" => pc[y] = "wait"
    BY <1>v
  <2>2. \A y \in Apps : ac'[y][1].st = ac[y][1].st
    BY <1>c
  <2> QED BY <1>v, <1>c, <2>1, <2>2 DEF Inv, TornInv
<1>11. FreeListInv'
  BY <1>e, <1>i, <1>c, <1>v, SMTT(60) DEF Inv, FreeListInv
<1>12. MarkInv'
  <2> SUFFICES ASSUME NEW y \in Apps, NEW m \in Ids, Marked(y, m)'
               PROVE  /\ (pc[y] \in {"free2", "freeLock", "freeWait", "done"})'
                      /\ (ac[y][m].st \in {"new", "connecting"} => Cause4)'
                      /\ ((y \in woken /\ pc[y] = "freeWait") \/ pc[y] = "done" => Cause4 \/
                           ac[y][m].st = "dead")'
                      /\ (\A k \in Ids : k # m => ~Marked(y, k) /\ (Live(y, k) => Cause4))'
    BY DEF MarkInv
  <2>1. (pc[y] \in {"free2", "freeLock", "freeWait", "done"})'
    BY <1>e, <1>c DEF Inv, Types, MarkInv, Places, Marked
  <2>2. (ac[y][m].st \in {"new", "connecting"} => Cause4)'
    <3>1. CASE y = a /\ m = i
      <4>1. ac'[y][m].st = ac[a][i].st
        BY <1>c, <3>1
      <4>2. ac[a][i].st \in {"new", "connecting"} =>
              Cause4 \/ (pc[Rcn] \in {"register", "wait"} /\ Renewing(a, i))
        BY <1>e, <1>i DEF Inv, StateInv
      <4>3. pc[Rcn] \in {"register", "wait"} /\ Renewing(a, i) => Listed(a)
        BY DEF Inv, RoundInv, Renewing, Listed
      <4> QED BY <1>v, <4>1, <4>2, <4>3
    <3>2. CASE ~(y = a /\ m = i)
      BY <1>c, <1>v, <3>2 DEF Inv, MarkInv
    <3> QED BY <3>1, <3>2
  <2>3. ((y \in woken /\ pc[y] = "freeWait") \/ pc[y] = "done" => Cause4 \/
          ac[y][m].st = "dead")'
    BY <1>e, <1>i, <1>c DEF Inv, MarkInv, Cause2, Cause4, Marked
  <2>4. (\A k \in Ids : k # m => ~Marked(y, k) /\ (Live(y, k) => Cause4))'
    <3>1. /\ \A k \in Ids : Marked(y, k)' <=> (Marked(y, k) \/ (y = a /\ k = i))
          /\ \A k \in Ids : Live(y, k)' = Live(y, k)
          /\ Cause4 => Cause4'
      BY <1>e, <1>c DEF Marked, Live, Torn, CurIs, Cause4, Cause2, Inv, Types, Places, Lists,
        Threads, Ael
    <3>2. CASE y # a
      BY <3>1, <3>2 DEF Inv, MarkInv
    <3>3. CASE y = a
      <4>1. \A k \in Ids : ~Marked(a, k)
        BY <1>e DEF Inv, MarkInv
      <4>2. ac[a][i].st \in {"new", "connecting", "connected"}
        <5>1. ac[a][i] \in Contexts /\ ac[a][i].st # "dead"
          BY <1>e, <1>i DEF Inv, Types
        <5>2. xc[a] \in Connections /\ i <= xc[a].last
          BY <1>i, xc[a].ctx # RAW DEF Inv, Types, NumberInv
        <5>3. ac[a][i].st # "none"
          BY <1>i, <5>2 DEF Inv, NumberInv, Connections
        <5> QED BY <5>1, <5>3 DEF Contexts, States
      <4>3. CASE Torn(a, i)
        BY <1>e, <4>1, <3>1, <3>3, <4>3 DEF Torn, CurIs, Cause4
      <4>4. CASE Live(a, i)
        <5>1. ASSUME NEW k \in Ids, k # i, Live(a, k) PROVE Cause4
          BY <4>4, <5>1, <1>i DEF Inv, SingleInv, Cause4
        <5> QED BY <5>1, <4>1, <3>1, <3>3
      <4> QED BY <4>2, <4>3, <4>4 DEF Live
    <3> QED BY <3>2, <3>3
  <2> QED BY <2>1, <2>2, <2>3, <2>4
<1>13. MarkListInv'
  BY <1>v, <1>c DEF Inv, MarkListInv
<1>14. MarkTearInv'
  <2>1. ac[a][i] \in Contexts /\ ac[a][i].st # "none"
    BY <1>e, <1>i DEF Inv, Types, NumberInv, Connections
  <2>2. ac[a][i].st \in {"new", "connecting", "connected"}
    BY <2>1, <1>e DEF Contexts, States
  <2>3. ASSUME NEW k \in Ids, Tearing(a, k), k # i PROVE Cause2
    <3>1. Live(a, i)
      BY <2>2, <2>3 DEF Live, Torn, Tearing, CurIs
    <3> QED BY <3>1, <2>3, <1>i DEF Inv, SingleInv
  <2>4. Cause2 => Cause4
    BY DEF Cause4
  <2> QED BY <1>v, <1>c, <2>3, <2>4 DEF Inv, MarkTearInv
<1>15. WaitInv'
  <2> SUFFICES ASSUME NEW b \in Apps
               PROVE  /\ pc'[b] \in {"free2", "freeLock", "freeWait"} =>
                           \E j \in Ids : ac'[b][j].freed
                      /\ pc'[b] = "done" => Cause4' \/ \E j \in Ids : ac'[b][j].freed
    BY DEF WaitInv, Marked
  <2>1. /\ pc[b] \in {"free2", "freeLock", "freeWait"} => \E j \in Ids : ac[b][j].freed
        /\ pc[b] = "done" => Cause4 \/ \E j \in Ids : ac[b][j].freed
    BY DEF Inv, WaitInv, Marked
  <2>2. ASSUME NEW j \in Ids, ac[b][j].freed PROVE ac'[b][j].freed
    BY <1>c, <2>2
  <2> QED BY <1>e, <1>i, <1>c, <2>1 DEF Cause2, Cause4
<1> QED BY <1>1, <1>2, <1>3, <1>4, <1>5, <1>6, <1>7, <1>8, <1>9, <1>10, <1>11, <1>12, <1>13,
           <1>14, <1>15 DEF Inv

\* xRedisFree on a lost connection frees at once.
LEMMA Free2NowKeeps ==
    ASSUME Inv, NEW a \in Apps, free2(a), reconn_list # NULL, pc[a] = "freeNow"
    PROVE  Inv'
<1> USE AcAssumption, AppAssumption, NullAssumption DEF Ael, Rcn, Threads, Ids
<1>e. /\ pc[a] = "freeNow" /\ Free("reconn") /\ reconn_list # NULL
      /\ reconn_list' = reconn_list \ {a}
      /\ pc' = [pc EXCEPT ![a] = "done"]
      /\ xc' = [xc EXCEPT ![a].mem = "freed"]
      /\ UNCHANGED <<owner, aeloop, ac, free_ac_list, cur, todo, visited, woken, causes>>
  BY free2(a), reconn_list # NULL, pc[a] = "freeNow" DEF free2, NeedWait, freeXredisContext,
    Goto, round
<1>x. /\ xc' \in [Apps -> Connections]
      /\ \A y \in Apps : y # a => xc'[y] = xc[y]
      /\ xc'[a].mem = "freed"
      /\ xc'[a].status = xc[a].status
      /\ xc'[a].ctx = xc[a].ctx
      /\ xc'[a].last = xc[a].last
  <2> DEFINE r == [xc[a] EXCEPT !.mem = "freed"]
  <2>1. xc[a] \in Connections
    BY DEF Inv, Types
  <2>2. r \in Connections /\ r.mem = "freed" /\ r.status = xc[a].status /\ r.ctx = xc[a].ctx /\
          r.last = xc[a].last
    BY <2>1, ConnectionFields DEF Connections
  <2>3. xc' = [xc EXCEPT ![a] = r]
    BY <1>e, <2>1 DEF Inv, Types
  <2> HIDE DEF r
  <2>4. /\ xc' \in [Apps -> Connections]
        /\ \A y \in Apps : xc'[y] = IF y = a THEN r ELSE xc[y]
    BY <2>2, <2>3, XcStep DEF Inv, Types
  <2> QED BY <2>2, <2>4
<1>1. Types'
  <2>1. Places'
    BY <1>e DEF Inv, Types, Places, AppLabels
  <2>2. Lists'
    BY <1>e DEF Inv, Types, Lists
  <2> QED BY <1>e, <1>x, <2>1, <2>2 DEF Inv, Types
<1>2. LocksHeld'
  <2> SUFFICES ASSUME NEW l \in Locks, NEW t \in Threads
               PROVE  (owner[l] = t <=> Holds(l, t))'
    BY DEF LocksHeld
  <2> QED BY <1>e DEF Inv, LocksHeld, Holds
<1>3. LoopInv'
  BY <1>e DEF Inv, Types, LoopInv, Lists, LoopLive, CauseEnd
<1>4. NumberInv'
  BY <1>e DEF Inv, NumberInv, AppInv, Marked, AppOK
<1>5. AppInv'
  BY <1>e DEF Inv, Types, AppInv, Places, Cause2, Cause4, Listed, Marked, AppOK
<1>6. CurInv'
  BY <1>e DEF Inv, CurInv, Cause2, Cause4, CurIs, Torn, Marked
<1>7. StateInv'
  BY <1>e DEF Inv, StateInv, Cause2, Cause4, Listed, Renewing
<1>8. RoundInv'
  BY <1>e DEF Inv, LocksHeld, RoundInv, Locks, Free, Holds
<1>9. SingleInv'
  BY <1>e DEF Inv, SingleInv, Cause2, Listed, CurIs, Torn, Live, Tearing, Renewing
<1>10. TornInv'
  BY <1>e DEF Inv, TornInv, Cause2, Cause4, Listed, CurIs, Torn, Tearing, Renewing
<1>11. FreeListInv'
  BY <1>e DEF Inv, FreeListInv, Cause2, Cause4, Marked
<1>12. MarkInv'
  BY <1>e DEF Inv, MarkInv, Cause2, Cause4, CurIs, Torn, Live, Marked
<1>13. MarkListInv'
  BY <1>e DEF Inv, MarkListInv, Cause2, Cause4, Listed, CurIs, Marked
<1>14. MarkTearInv'
  BY <1>e DEF Inv, MarkTearInv, Cause2, Cause4, CurIs, Marked, Tearing
<1>15. WaitInv'
  <2> SUFFICES ASSUME NEW b \in Apps
               PROVE  /\ pc'[b] \in {"free2", "freeLock", "freeWait"} =>
                           \E i \in Ids : ac'[b][i].freed
                      /\ pc'[b] = "done" => Cause4' \/ \E i \in Ids : ac'[b][i].freed
    BY DEF WaitInv, Marked
  <2>1. /\ pc[b] \in {"free2", "freeLock", "freeWait"} => \E i \in Ids : ac[b][i].freed
        /\ pc[b] = "done" => Cause4 \/ \E i \in Ids : ac[b][i].freed
    BY DEF Inv, WaitInv, Marked
  <2>2. ASSUME NEW i \in Ids, ac[b][i].freed PROVE ac'[b][i].freed
    BY <1>e, <2>2
  <2> QED BY <1>e, <2>1 DEF Inv, AppInv, Cause2, Cause4, AppOK
<1> QED BY <1>1, <1>2, <1>3, <1>4, <1>5, <1>6, <1>7, <1>8, <1>9, <1>10, <1>11, <1>12, <1>13,
           <1>14, <1>15 DEF Inv

\* xRedisFree hands its context to the event loop.
LEMMA Free2LockKeeps ==
    ASSUME Inv, NEW a \in Apps, free2(a), reconn_list # NULL, pc[a] # "freeNow"
    PROVE  Inv'
<1> USE AcAssumption, AppAssumption, NullAssumption DEF Ael, Rcn, Threads, Ids
<1>e. /\ pc[a] = "free2" /\ Free("reconn") /\ reconn_list # NULL
      /\ reconn_list' = reconn_list \ {a}
      /\ pc' = [pc EXCEPT ![a] = "freeLock"]
      /\ UNCHANGED <<owner, aeloop, xc, ac, free_ac_list, cur, todo, visited, woken, causes>>
  BY free2(a), reconn_list # NULL, pc[a] # "freeNow" DEF free2, NeedWait, Goto, round
<1>1. Types'
  <2>1. Places'
    BY <1>e DEF Inv, Types, Places, AppLabels
  <2>2. Lists'
    BY <1>e DEF Inv, Types, Lists
  <2> QED BY <1>e, <2>1, <2>2 DEF Inv, Types
<1>2. LocksHeld'
  <2> SUFFICES ASSUME NEW l \in Locks, NEW t \in Threads
               PROVE  (owner[l] = t <=> Holds(l, t))'
    BY DEF LocksHeld
  <2> QED BY <1>e DEF Inv, LocksHeld, Holds
<1>3. LoopInv'
  BY <1>e DEF Inv, Types, LoopInv, Lists, LoopLive, CauseEnd
<1>4. NumberInv'
  BY <1>e DEF Inv, NumberInv, Marked
<1>5. AppInv'
  BY <1>e DEF Inv, AppInv, Cause2, Cause4, Listed, Marked, AppOK
<1>6. CurInv'
  BY <1>e DEF Inv, CurInv, Cause2, Cause4, CurIs, Torn, Marked
<1>7. StateInv'
  BY <1>e DEF Inv, StateInv, Cause2, Cause4, Listed, Renewing
<1>8. RoundInv'
  BY <1>e DEF Inv, LocksHeld, RoundInv, Locks, Free, Holds
<1>9. SingleInv'
  BY <1>e DEF Inv, SingleInv, Cause2, Listed, CurIs, Torn, Live, Tearing, Renewing
<1>10. TornInv'
  BY <1>e DEF Inv, TornInv, Cause2, Cause4, Listed, CurIs, Torn, Tearing, Renewing
<1>11. FreeListInv'
  BY <1>e DEF Inv, FreeListInv, Cause2, Cause4, Marked
<1>12. MarkInv'
  BY <1>e DEF Inv, MarkInv, Cause2, Cause4, CurIs, Torn, Live, Marked
<1>13. MarkListInv'
  BY <1>e DEF Inv, MarkListInv, Cause2, Cause4, Listed, CurIs, Marked
<1>14. MarkTearInv'
  BY <1>e DEF Inv, MarkTearInv, Cause2, Cause4, CurIs, Marked, Tearing
<1>15. WaitInv'
  <2> SUFFICES ASSUME NEW b \in Apps
               PROVE  /\ pc'[b] \in {"free2", "freeLock", "freeWait"} =>
                           \E i \in Ids : ac'[b][i].freed
                      /\ pc'[b] = "done" => Cause4' \/ \E i \in Ids : ac'[b][i].freed
    BY DEF WaitInv, Marked
  <2>1. /\ pc[b] \in {"free2", "freeLock", "freeWait"} => \E i \in Ids : ac[b][i].freed
        /\ pc[b] = "done" => Cause4 \/ \E i \in Ids : ac[b][i].freed
    BY DEF Inv, WaitInv, Marked
  <2>2. ASSUME NEW i \in Ids, ac[b][i].freed PROVE ac'[b][i].freed
    BY <1>e, <2>2
  <2> QED BY <1>e, <2>1 DEF Cause2, Cause4
<1> QED BY <1>1, <1>2, <1>3, <1>4, <1>5, <1>6, <1>7, <1>8, <1>9, <1>10, <1>11, <1>12, <1>13,
           <1>14, <1>15 DEF Inv

\* xRedisFree begins to wait on xc->cond.
LEMMA FreeSleepKeeps ==
    ASSUME Inv, NEW a \in Apps, freeSleep(a)
    PROVE  Inv'
<1> USE AcAssumption, AppAssumption, NullAssumption DEF Ael, Rcn, Threads, Ids
<1>1. Types'
  <2>1. Places'
    BY freeSleep(a) DEF Inv, Types, Places, round, Goto, freeSleep, AppLabels
  <2> QED BY freeSleep(a), <2>1 DEF Inv, Types, Lists, round, freeSleep
<1>2. LocksHeld'
  <2> SUFFICES ASSUME NEW l \in Locks, NEW t \in Threads
               PROVE  (owner[l] = t <=> Holds(l, t))'
    BY DEF LocksHeld
  <2> QED BY freeSleep(a) DEF Inv, LocksHeld, round, Goto, freeSleep, Holds
<1>3. LoopInv'
  BY freeSleep(a) DEF Inv, LoopInv, Goto, LoopLive, freeSleep, CauseEnd
<1>4. NumberInv'
  BY freeSleep(a) DEF Inv, NumberInv, round, Goto, freeSleep, Marked
<1>5. AppInv'
  BY freeSleep(a) DEF Inv, AppInv, Goto, freeSleep, Cause2, Cause4, Listed, Marked, AppOK
<1>6. CurInv'
  BY freeSleep(a) DEF Inv, CurInv, Goto, freeSleep, Cause2, Cause4, CurIs, Torn, Marked
<1>7. StateInv'
  BY freeSleep(a)
     DEF Inv, StateInv, round, Goto, freeSleep, Cause2, Cause4, Listed, Renewing
<1>8. RoundInv'
  BY freeSleep(a) DEF Inv, RoundInv, round, Goto, freeSleep
<1>9. SingleInv'
  BY freeSleep(a)
     DEF Inv, SingleInv, round, Goto, freeSleep, Cause2, Listed, CurIs, Torn, Live, Tearing,
         Renewing
<1>10. TornInv'
  BY freeSleep(a)
     DEF Inv, TornInv, round, Goto, freeSleep, Cause2, Cause4, Listed, CurIs, Torn, Tearing,
         Renewing
<1>11. FreeListInv'
  BY freeSleep(a) DEF Inv, FreeListInv, freeSleep, Cause2, Cause4, Marked
<1>12. MarkInv'
  BY freeSleep(a)
     DEF Inv, AppInv, MarkInv, Goto, freeSleep, Cause2, Cause4, CurIs, Torn, Live, Marked,
         AppOK
<1>13. MarkListInv'
  BY freeSleep(a)
     DEF Inv, MarkListInv, Goto, freeSleep, Cause2, Cause4, Listed, CurIs, Marked
<1>14. MarkTearInv'
  BY freeSleep(a)
     DEF Inv, MarkTearInv, Goto, freeSleep, Cause2, Cause4, CurIs, Marked, Tearing
<1>15. WaitInv'
  <2> SUFFICES ASSUME NEW b \in Apps
               PROVE  /\ pc'[b] \in {"free2", "freeLock", "freeWait"} =>
                           \E i \in Ids : ac'[b][i].freed
                      /\ pc'[b] = "done" => Cause4' \/ \E i \in Ids : ac'[b][i].freed
    BY DEF WaitInv, Marked
  <2>1. /\ pc[b] \in {"free2", "freeLock", "freeWait"} => \E i \in Ids : ac[b][i].freed
        /\ pc[b] = "done" => Cause4 \/ \E i \in Ids : ac[b][i].freed
    BY DEF Inv, WaitInv, Marked
  <2>2. ASSUME NEW i \in Ids, ac[b][i].freed PROVE ac'[b][i].freed
    BY freeSleep(a), <2>2 DEF freeSleep
  <2> QED BY freeSleep(a), <2>1 DEF Goto, freeSleep, Cause2, Cause4
<1> QED BY <1>1, <1>2, <1>3, <1>4, <1>5, <1>6, <1>7, <1>8, <1>9, <1>10, <1>11, <1>12, <1>13,
           <1>14, <1>15 DEF Inv

\* xRedisFree is woken and releases its connection.
LEMMA FreeWakeKeeps ==
    ASSUME Inv, NEW a \in Apps, freeWake(a)
    PROVE  Inv'
<1> USE AcAssumption, AppAssumption, NullAssumption DEF Ael, Rcn, Threads, Ids
<1>e. /\ pc[a] = "freeWait" /\ a \in woken /\ Free(a)
      /\ woken' = woken \ {a}
      /\ pc' = [pc EXCEPT ![a] = "done"]
      /\ xc' = [xc EXCEPT ![a].mem = "freed"]
      /\ UNCHANGED <<owner, aeloop, ac, reconn_list, free_ac_list, cur, todo, visited, causes>>
  BY freeWake(a) DEF freeWake, freeXredisContext, Goto, round
<1>x. /\ xc' \in [Apps -> Connections]
      /\ \A y \in Apps : y # a => xc'[y] = xc[y]
      /\ xc'[a].mem = "freed"
      /\ xc'[a].status = xc[a].status
      /\ xc'[a].ctx = xc[a].ctx
      /\ xc'[a].last = xc[a].last
  <2> DEFINE r == [xc[a] EXCEPT !.mem = "freed"]
  <2>1. xc[a] \in Connections
    BY DEF Inv, Types
  <2>2. r \in Connections /\ r.mem = "freed" /\ r.status = xc[a].status /\ r.ctx = xc[a].ctx /\
          r.last = xc[a].last
    BY <2>1, ConnectionFields DEF Connections
  <2>3. xc' = [xc EXCEPT ![a] = r]
    BY <1>e, <2>1 DEF Inv, Types
  <2> HIDE DEF r
  <2>4. /\ xc' \in [Apps -> Connections]
        /\ \A y \in Apps : xc'[y] = IF y = a THEN r ELSE xc[y]
    BY <2>2, <2>3, XcStep DEF Inv, Types
  <2> QED BY <2>2, <2>4
<1>1. Types'
  <2>1. Places'
    BY <1>e DEF Inv, Types, Places, AppLabels
  <2> QED BY <1>e, <1>x, <2>1 DEF Inv, Types, Lists
<1>2. LocksHeld'
  <2> SUFFICES ASSUME NEW l \in Locks, NEW t \in Threads
               PROVE  (owner[l] = t <=> Holds(l, t))'
    BY DEF LocksHeld
  <2> QED BY <1>e DEF Inv, LocksHeld, Holds
<1>3. LoopInv'
  BY <1>e DEF Inv, LoopInv, LoopLive, CauseEnd
<1>4. NumberInv'
  BY <1>e DEF Inv, NumberInv, AppInv, Marked, AppOK
<1>5. AppInv'
  BY <1>e DEF Inv, Types, AppInv, Places, Cause2, Cause4, Listed, Marked, AppOK
<1>6. CurInv'
  BY <1>e DEF Inv, CurInv, Cause2, Cause4, CurIs, Torn, Marked
<1>7. StateInv'
  BY <1>e DEF Inv, StateInv, Cause2, Cause4, Listed, Renewing
<1>8. RoundInv'
  BY <1>e DEF Inv, RoundInv
<1>9. SingleInv'
  BY <1>e DEF Inv, SingleInv, Cause2, Listed, CurIs, Torn, Live, Tearing, Renewing
<1>10. TornInv'
  BY <1>e DEF Inv, TornInv, Cause2, Cause4, Listed, CurIs, Torn, Tearing, Renewing
<1>11. FreeListInv'
  BY <1>e DEF Inv, FreeListInv, Cause2, Cause4, Marked
<1>12. MarkInv'
  BY <1>e DEF Inv, MarkInv, Cause2, Cause4, CurIs, Torn, Live, Marked
<1>13. MarkListInv'
  BY <1>e DEF Inv, MarkListInv, Cause2, Cause4, Listed, CurIs, Marked
<1>14. MarkTearInv'
  BY <1>e DEF Inv, MarkTearInv, Cause2, Cause4, CurIs, Marked, Tearing
<1>15. WaitInv'
  <2> SUFFICES ASSUME NEW b \in Apps
               PROVE  /\ pc'[b] \in {"free2", "freeLock", "freeWait"} =>
                           \E i \in Ids : ac'[b][i].freed
                      /\ pc'[b] = "done" => Cause4' \/ \E i \in Ids : ac'[b][i].freed
    BY DEF WaitInv, Marked
  <2>1. /\ pc[b] \in {"free2", "freeLock", "freeWait"} => \E i \in Ids : ac[b][i].freed
        /\ pc[b] = "done" => Cause4 \/ \E i \in Ids : ac[b][i].freed
    BY DEF Inv, WaitInv, Marked
  <2>2. ASSUME NEW i \in Ids, ac[b][i].freed PROVE ac'[b][i].freed
    BY <1>e, <2>2
  <2> QED BY <1>e, <2>1 DEF Cause2, Cause4
<1> QED BY <1>1, <1>2, <1>3, <1>4, <1>5, <1>6, <1>7, <1>8, <1>9, <1>10, <1>11, <1>12, <1>13,
           <1>14, <1>15 DEF Inv

\* xStopClient stops the event loop.
LEMMA XStopClientKeeps ==
    ASSUME Inv, xStopClient
    PROVE  Inv'
<1> USE AcAssumption, AppAssumption, NullAssumption DEF Ael, Rcn, Threads, Ids
<1>1. Types'
  <2>1. Places'
    BY xStopClient DEF Inv, Types, Places, round, xStopClient
  <2>3. aeloop' \in LoopStates
    <3>1. aeloop \in LoopStates
      BY DEF Inv, Types
    <3> QED BY <3>1, xStopClient DEF xStopClient, LoopStates
  <2> QED BY xStopClient, <2>1, <2>3 DEF Inv, Types, Lists, round, xStopClient
<1>2. LocksHeld'
  <2> SUFFICES ASSUME NEW l \in Locks, NEW t \in Threads
               PROVE  (owner[l] = t <=> Holds(l, t))'
    BY DEF LocksHeld
  <2> QED BY xStopClient DEF Inv, LocksHeld, round, xStopClient, Holds
<1>3. LoopInv'
  BY xStopClient DEF Inv, LoopInv, LoopLive, xStopClient
<1>4. RoundInv'
  BY xStopClient DEF Inv, RoundInv, round, xStopClient
<1>5. QuietStep
  <2>1. UNCHANGED <<xc, ac, reconn_list, free_ac_list, cur, visited, woken>> /\
          causes \subseteq causes'
    BY xStopClient DEF round, xStopClient
  <2>2. \A y \in Apps : pc'[y] = pc[y]
    BY xStopClient DEF xStopClient
  <2>3. \/ pc[Ael] \notin BusyLabels /\ pc'[Ael] \notin BusyLabels
        \/ pc'[Ael] = pc[Ael]
    BY xStopClient DEF xStopClient
  <2>4. \/ {pc[Rcn], pc'[Rcn]} \cap {"raw", "register", "wait"} = {}
        \/ pc'[Rcn] = pc[Rcn]
    OBVIOUS
  <2> QED BY <2>1, <2>2, <2>3, <2>4 DEF QuietStep
<1> QED BY <1>1, <1>2, <1>3, <1>4, <1>5, QuietKeeps DEF Inv

\* The thread of the event loop starts.
LEMMA MainStartKeeps ==
    ASSUME Inv, mainStart, LoopLive
    PROVE  Inv'
<1> USE AcAssumption, AppAssumption, NullAssumption DEF Ael, Rcn, Threads, Ids
<1>1. Types'
  <2>1. Places'
    BY mainStart DEF Inv, Types, Places, round, Goto, mainStart, BusyLabels, AelLabels
  <2>3. aeloop' \in LoopStates
    <3>1. aeloop \in LoopStates
      BY DEF Inv, Types
    <3> QED BY <3>1, mainStart, LoopLive DEF mainStart, LoopStates
  <2> QED BY mainStart, <2>1, <2>3 DEF Inv, Types, Lists, round, mainStart
<1>2. LocksHeld'
  <2> SUFFICES ASSUME NEW l \in Locks, NEW t \in Threads
               PROVE  (owner[l] = t <=> Holds(l, t))'
    BY DEF LocksHeld
  <2> QED BY mainStart
     DEF Inv, Types, LocksHeld, Places, round, Goto, LoopAt, mainStart, Holds
<1>3. LoopInv'
  BY mainStart
     DEF Inv, Types, LoopInv, Places, Goto, LoopLive, mainStart, AppLabels, BusyLabels,
         LoopStates
<1>4. RoundInv'
  BY mainStart DEF Inv, Types, RoundInv, Places, round, Goto, mainStart
<1>5. QuietStep
  <2>1. UNCHANGED <<xc, ac, reconn_list, free_ac_list, cur, visited, woken>> /\
          causes \subseteq causes'
    BY mainStart DEF round, mainStart
  <2>2. \A y \in Apps : pc'[y] = pc[y]
    BY mainStart DEF Inv, Types, Places, Goto, mainStart
  <2>3. \/ pc[Ael] \notin BusyLabels /\ pc'[Ael] \notin BusyLabels
        \/ pc'[Ael] = pc[Ael]
    BY mainStart DEF Inv, Types, Places, Goto, LoopAt, mainStart, BusyLabels
  <2>4. \/ {pc[Rcn], pc'[Rcn]} \cap {"raw", "register", "wait"} = {}
        \/ pc'[Rcn] = pc[Rcn]
    OBVIOUS
  <2> QED BY <2>1, <2>2, <2>3, <2>4 DEF QuietStep
<1> QED BY <1>1, <1>2, <1>3, <1>4, <1>5, QuietKeeps DEF Inv

\* freeAsyncContextDeal takes the mutex of free_ac_list.
LEMMA DealLockKeeps ==
    ASSUME Inv, dealLock
    PROVE  Inv'
<1> USE AcAssumption, AppAssumption, NullAssumption DEF Ael, Rcn, Threads, Ids
<1>1. Types'
  <2>1. Places'
    BY dealLock DEF Inv, Types, Places, round, Goto, dealLock, BusyLabels, AelLabels
  <2> QED BY dealLock, <2>1 DEF Inv, Types, Lists, round, Locks, Lock, dealLock
<1>2. LocksHeld'
  <2> SUFFICES ASSUME NEW l \in Locks, NEW t \in Threads
               PROVE  (owner[l] = t <=> Holds(l, t))'
    BY DEF LocksHeld
  <2> QED BY dealLock
     DEF Inv, Types, LocksHeld, Places, round, Goto, Free, Lock, dealLock, Holds,
         BusyLabels, AelLabels
<1>3. LoopInv'
  BY dealLock DEF Inv, Types, LoopInv, Places, Goto, LoopLive, LoopAt, dealLock
<1>4. RoundInv'
  BY dealLock DEF Inv, Types, RoundInv, Places, round, Goto, dealLock
<1>5. QuietStep
  <2>1. UNCHANGED <<xc, ac, reconn_list, free_ac_list, cur, visited, woken>> /\
          causes \subseteq causes'
    BY dealLock DEF round, dealLock
  <2>2. \A y \in Apps : pc'[y] = pc[y]
    BY dealLock DEF Inv, Types, Places, Goto, dealLock
  <2>3. \/ pc[Ael] \notin BusyLabels /\ pc'[Ael] \notin BusyLabels
        \/ pc'[Ael] = pc[Ael]
    BY dealLock DEF Inv, Types, Places, Goto, LoopAt, dealLock, BusyLabels
  <2>4. \/ {pc[Rcn], pc'[Rcn]} \cap {"raw", "register", "wait"} = {}
        \/ pc'[Rcn] = pc[Rcn]
    OBVIOUS
  <2> QED BY <2>1, <2>2, <2>3, <2>4 DEF QuietStep
<1> QED BY <1>1, <1>2, <1>3, <1>4, <1>5, QuietKeeps DEF Inv

\* freeAsyncContextDeal takes a context off free_ac_list.
LEMMA DealNextKeeps ==
    ASSUME Inv, dealNext
    PROVE  Inv'
<1> USE AcAssumption, AppAssumption, NullAssumption DEF Ael, Rcn, Threads, Ids
<1>a. PICK f \in free_ac_list :
        IF ~AcLive(f[1], f[2])
          THEN Undefined("ac")
          ELSE /\ cur' = f
               /\ free_ac_list' = free_ac_list \ {f}
               /\ Goto(Ael, "dealFree")
               /\ UNCHANGED <<owner, aeloop, xc, ac, reconn_list, round, woken, causes, ub>>
  BY dealNext DEF dealNext
<1>f. PICK x \in Apps, i \in Ids : f = <<x, i>>
  BY <1>a DEF Inv, Types, Places, Lists
<1>k. f[1] = x /\ f[2] = i
  BY <1>f
<1>u. CASE ~AcLive(x, i)
  BY <1>u, <1>a, <1>k, UndefinedKeeps
<1> SUFFICES ASSUME AcLive(x, i) PROVE Inv'
  BY <1>u
<1>e. /\ pc[Ael] = "dealNext" /\ <<x, i>> \in free_ac_list /\ cur' = <<x, i>>
      /\ free_ac_list' = free_ac_list \ {<<x, i>>}
      /\ pc' = [pc EXCEPT ![Ael] = "dealFree"]
      /\ UNCHANGED <<owner, aeloop, xc, ac, reconn_list, todo, visited, woken, causes>>
  BY <1>a, <1>f, <1>k, dealNext DEF Goto, round, LoopAt, dealNext
<1>1. Types'
  <2>1. Places'
    BY <1>e DEF Inv, Types, Places, BusyLabels, AelLabels
  <2>2. Lists'
    BY <1>e DEF Inv, Types, Lists
  <2> QED BY <1>e, <2>1, <2>2 DEF Inv, Types
<1>2. LocksHeld'
  <2> SUFFICES ASSUME NEW l \in Locks, NEW t \in Threads
               PROVE  (owner[l] = t <=> Holds(l, t))'
    BY DEF LocksHeld
  <2> QED BY <1>e DEF Inv, LocksHeld, Holds
<1>3. LoopInv'
  BY <1>e DEF Inv, LoopInv, LoopLive
<1>4. NumberInv'
  BY <1>e DEF Inv, NumberInv, Marked
<1>5. AppInv'
  BY <1>e DEF Inv, AppInv, Cause2, Cause4, Listed, Marked, AppOK
<1>6. CurInv'
  BY <1>e, AcLive(x, i)
     DEF Inv, Types, NumberInv, CurInv, FreeListInv, AcLive, States, Contexts, CurIs, Torn,
         Marked
<1>7. StateInv'
  BY <1>e DEF Inv, StateInv, Cause2, Cause4, Listed, Renewing
<1>8. RoundInv'
  BY <1>e DEF Inv, RoundInv
<1>9. SingleInv'
  BY <1>e DEF Inv, SingleInv, Cause2, Listed, Torn, Live, Tearing, Renewing
<1>10. TornInv'
  BY <1>e DEF Inv, TornInv, Cause2, Cause4, Listed, Torn, Tearing, Renewing
<1>11. FreeListInv'
  BY <1>e DEF Inv, FreeListInv, Cause2, Cause4, Marked
<1>12. MarkInv'
  BY <1>e DEF Inv, MarkInv, Cause2, Cause4, Torn, Live, Marked
<1>13. MarkListInv'
  BY <1>e DEF Inv, MarkListInv, Cause2, Cause4, Listed, Marked
<1>14. MarkTearInv'
  BY <1>e DEF MarkTearInv, Tearing
<1>15. WaitInv'
  <2> SUFFICES ASSUME NEW b \in Apps
               PROVE  /\ pc'[b] \in {"free2", "freeLock", "freeWait"} =>
                           \E j \in Ids : ac'[b][j].freed
                      /\ pc'[b] = "done" => Cause4' \/ \E j \in Ids : ac'[b][j].freed
    BY DEF WaitInv, Marked
  <2>1. /\ pc[b] \in {"free2", "freeLock", "freeWait"} => \E j \in Ids : ac[b][j].freed
        /\ pc[b] = "done" => Cause4 \/ \E j \in Ids : ac[b][j].freed
    BY DEF Inv, WaitInv, Marked
  <2>2. ASSUME NEW j \in Ids, ac[b][j].freed PROVE ac'[b][j].freed
    BY <1>e, <2>2
  <2> QED BY <1>e, <2>1 DEF Cause2, Cause4
<1> QED BY <1>1, <1>2, <1>3, <1>4, <1>5, <1>6, <1>7, <1>8, <1>9, <1>10, <1>11, <1>12, <1>13,
           <1>14, <1>15 DEF Inv

\* freeAsyncContextDeal has been through free_ac_list.
LEMMA DealEndKeeps ==
    ASSUME Inv, dealEnd
    PROVE  Inv'
<1> USE AcAssumption, AppAssumption, NullAssumption DEF Ael, Rcn, Threads, Ids
<1>1. Types'
  <2>1. Places'
    BY dealEnd DEF Inv, Types, Places, round, Goto, dealEnd, BusyLabels, AelLabels
  <2> QED BY dealEnd, <2>1 DEF Inv, Types, Lists, round, Locks, Unlock, DealUnlock, dealEnd
<1>2. LocksHeld'
  <2> SUFFICES ASSUME NEW l \in Locks, NEW t \in Threads
               PROVE  (owner[l] = t <=> Holds(l, t))'
    BY DEF LocksHeld
  <2> QED BY dealEnd
     DEF Inv, Types, LocksHeld, Places, round, Goto, Unlock, LoopAt, DealUnlock, dealEnd,
         Holds
<1>3. LoopInv'
  BY dealEnd DEF Inv, LoopInv, Goto, LoopLive, LoopAt, dealEnd
<1>4. RoundInv'
  BY dealEnd DEF Inv, RoundInv, round, Goto, dealEnd
<1>5. QuietStep
  <2>1. UNCHANGED <<xc, ac, reconn_list, free_ac_list, cur, visited, woken>> /\
          causes \subseteq causes'
    BY dealEnd DEF round, dealEnd
  <2>2. \A y \in Apps : pc'[y] = pc[y]
    BY dealEnd DEF Goto, dealEnd
  <2>3. \/ pc[Ael] \notin BusyLabels /\ pc'[Ael] \notin BusyLabels
        \/ pc'[Ael] = pc[Ael]
    BY dealEnd DEF Goto, LoopAt, dealEnd, BusyLabels
  <2>4. \/ {pc[Rcn], pc'[Rcn]} \cap {"raw", "register", "wait"} = {}
        \/ pc'[Rcn] = pc[Rcn]
    OBVIOUS
  <2> QED BY <2>1, <2>2, <2>3, <2>4 DEF QuietStep
<1> QED BY <1>1, <1>2, <1>3, <1>4, <1>5, QuietKeeps DEF Inv

\* __redisAsyncFree frees the context the loop has at hand.
LEMMA AsyncFreeKeeps ==
    ASSUME Inv, asyncFree
    PROVE  Inv'
<1> USE AcAssumption, AppAssumption, NullAssumption DEF Ael, Rcn, Threads, Ids
<1>o. 1 \in Ids
  OBVIOUS
<1>f. PICK x \in Apps, i \in Ids : cur = <<x, i>>
  BY asyncFree DEF asyncFree, Inv, Types, Places, Lists, BusyLabels, LoopAt
<1>k. cur[1] = x /\ cur[2] = i
  BY <1>f
<1>u. CASE Marked(x, i) /\ ~Alive(x)
  BY <1>u, <1>k, asyncFree, UndefinedKeeps DEF asyncFree, FreedContext, Marked
<1> SUFFICES ASSUME Marked(x, i) => Alive(x) PROVE Inv'
  BY <1>u
<1>e. /\ pc[Ael] \in {"dealFree", "acFree"}
      /\ IF Marked(x, i) THEN Free(x) /\ Signal(x) ELSE UNCHANGED woken
      /\ AcSet(x, i, "dead")
      /\ cur' = NULL
      /\ pc' = [pc EXCEPT ![Ael] = IF pc[Ael] = "dealFree" THEN "dealNext" ELSE "poll"]
      /\ UNCHANGED <<owner, aeloop, xc, reconn_list, free_ac_list, todo, visited, causes>>
  BY <1>k, asyncFree, Marked(x, i) => Alive(x) DEF asyncFree, FreedContext, SignalOwner, Marked,
    Goto, round, LoopAt
<1>s. /\ woken \subseteq woken' /\ woken' \subseteq Threads
      /\ \A t \in woken' : t \in woken \/ (pc[t] = "wait" /\ WaitsOn(t) = x)
                                     \/ (pc[t] = "freeWait" /\ WaitsOn(t) = x)
      /\ \A t \in woken' : t \notin woken => Marked(x, i) /\ Free(x)
  BY <1>e DEF Signal, Asleep, Inv, Types, Places, Lists
<1>c. /\ ac' \in [Apps -> [Ids -> Contexts]]
      /\ \A y \in Apps, j \in Ids :
           /\ ac'[y][j].freed = ac[y][j].freed
           /\ ac'[y][j].st = IF y = x /\ j = i THEN "dead" ELSE ac[y][j].st
  <2>1. x \in Apps /\ i \in Ids /\ "dead" \in States
    BY DEF States
  <2>2. ac \in [Apps -> [Ids -> Contexts]] /\ AcSet(x, i, "dead")
    BY <1>e DEF Inv, Types
  <2> HIDE DEF Ael, Rcn, Threads, Ids
  <2> QED BY <2>1, <2>2, AcStep
<1>v. /\ \A y \in Apps, k \in Ids : Live(y, k)' => Live(y, k)
      /\ \A y \in Apps, k \in Ids :
           ~Tearing(y, k)' /\ Renewing(y, k)' = Renewing(y, k) /\ Marked(y, k)' = Marked(y, k)
      /\ \A y \in Apps : Listed(y)' = Listed(y)
      /\ pc'[Rcn] = pc[Rcn] /\ \A y \in Apps : pc'[y] = pc[y]
      /\ Cause2' = Cause2 /\ Cause4' = Cause4
  <2>1. /\ pc'[Ael] \in {"dealNext", "poll"} /\ pc'[Rcn] = pc[Rcn]
        /\ \A y \in Apps : pc'[y] = pc[y]
        /\ UNCHANGED <<xc, visited, reconn_list, causes>>
    BY <1>e DEF Inv, Types, Places
  <2>2. /\ \A y \in Apps, k \in Ids : ~Torn(y, k)' /\ ~Tearing(y, k)'
        /\ \A y \in Apps, k \in Ids :
             Renewing(y, k)' = Renewing(y, k) /\ Marked(y, k)' = Marked(y, k)
        /\ \A y \in Apps : Listed(y)' = Listed(y)
        /\ Cause2' = Cause2 /\ Cause4' = Cause4
    BY <2>1, <1>c DEF Torn, Tearing, Renewing, Marked, Listed, Cause2, Cause4
  <2>3. ASSUME NEW y \in Apps, NEW k \in Ids, Live(y, k)' PROVE Live(y, k)
    <3>1. CASE y = x /\ k = i
      BY <1>c, <2>3, <3>1 DEF Live
    <3>2. CASE ~(y = x /\ k = i)
      BY <1>f, <1>c, <2>3, <3>2 DEF Live, Torn, CurIs
    <3> QED BY <3>1, <3>2
  <2> QED BY <2>1, <2>2, <2>3
<1>1. Types'
  <2>1. Places'
    BY <1>e DEF Inv, Types, Places, BusyLabels, AelLabels
  <2> QED BY <1>e, <1>s, <1>c, <2>1 DEF Inv, Types, Lists
<1>2. LocksHeld'
  <2> SUFFICES ASSUME NEW l \in Locks, NEW t \in Threads
               PROVE  (owner[l] = t <=> Holds(l, t))'
    BY DEF LocksHeld
  <2> QED BY <1>e DEF Inv, LocksHeld, Holds
<1>3. LoopInv'
  BY <1>e DEF Inv, LoopInv, LoopLive, BusyLabels
<1>4. NumberInv'
  BY <1>f, <1>e, <1>c
     DEF Inv, Types, LocksHeld, NumberInv, AppInv, CurInv, Locks, RAW, Free, WaitsOn,
         Asleep, Signal, Holds, Cause2, Cause4, Contexts, CurIs, Torn, Marked
<1>5. AppInv'
  BY <1>f, <1>e, <1>s, <1>c
     DEF Inv, Types, AppInv, CurInv, StateInv, RoundInv, Lists, Cause2, Cause4, Contexts,
         Listed, CurIs, Torn, Marked, AppOK
<1>6. CurInv'
  BY <1>e DEF Inv, Types, CurInv, Places, Torn
<1>7. StateInv'
  <2> SUFFICES ASSUME NEW y \in Apps, NEW m \in Ids
               PROVE  /\ (ac[y][m].st = "new" => (m = 1 /\ pc[y] = "register") \/
                           (pc[Rcn] = "register" /\ Renewing(y, m)))'
                      /\ (pc[Rcn] = "register" /\ Renewing(y, m) => ac[y][m].st = "new")'
                      /\ (ac[y][m].st = "connecting" => (m = 1 /\ pc[y] = "wait") \/
                           (pc[Rcn] = "wait" /\ Renewing(y, m)) \/ Cause4)'
                      /\ (ac[y][m].st = "connecting" /\ xc[y].status = "connected" => Cause4)'
                      /\ (Listed(y) /\ xc[y].status = "connected" => Cause4 \/
                           (pc[Rcn] = "wait" /\ visited = y))'
    BY DEF StateInv
  <2>1. (ac[y][m].st = "new" => (m = 1 /\ pc[y] = "register") \/ (pc[Rcn] = "register" /\
          Renewing(y, m)))'
    <3>1. ac'[y][m].st = "new" => ac[y][m].st = "new"
      BY <1>c
    <3>2. ac[y][m].st = "new" =>
            (m = 1 /\ pc[y] = "register") \/ (pc[Rcn] = "register" /\ Renewing(y, m))
      BY DEF Inv, StateInv
    <3> QED BY <1>v, <3>1, <3>2
  <2>2. (pc[Rcn] = "register" /\ Renewing(y, m) => ac[y][m].st = "new")'
    BY <1>f, <1>e, <1>c
       DEF Inv, Types, LocksHeld, CurInv, StateInv, SingleInv, Locks, RAW, Free, Holds,
           Cause2, States, Connections, Contexts, Listed, CurIs, Renewing
  <2>3. (ac[y][m].st = "connecting" => (m = 1 /\ pc[y] = "wait") \/ (pc[Rcn] = "wait" /\
          Renewing(y, m)) \/ Cause4)'
    <3>1. ac'[y][m].st = "connecting" => ac[y][m].st = "connecting"
      BY <1>c
    <3>2. ac[y][m].st = "connecting" =>
            (m = 1 /\ pc[y] = "wait") \/ (pc[Rcn] = "wait" /\ Renewing(y, m)) \/ Cause4
      BY DEF Inv, StateInv
    <3> QED BY <1>v, <3>1, <3>2
  <2>4. (ac[y][m].st = "connecting" /\ xc[y].status = "connected" => Cause4)'
    <3>1. ac'[y][m].st = "connecting" => ac[y][m].st = "connecting"
      BY <1>c
    <3>2. ac[y][m].st = "connecting" /\ xc[y].status = "connected" => Cause4
      BY DEF Inv, StateInv
    <3>3. xc' = xc
      BY <1>e
    <3> QED BY <1>v, <3>1, <3>2, <3>3
  <2>5. (Listed(y) /\ xc[y].status = "connected" => Cause4 \/ (pc[Rcn] = "wait" /\
          visited = y))'
    BY <1>e DEF Inv, StateInv, Cause2, Cause4, Listed
  <2> QED BY <2>1, <2>2, <2>3, <2>4, <2>5
<1>8. RoundInv'
  BY <1>e DEF Inv, RoundInv
<1>9. SingleInv'
  BY <1>v DEF Inv, SingleInv
<1>10. TornInv'
  <2> SUFFICES ASSUME NEW y \in Apps, NEW k \in Ids
               PROVE  /\ (Tearing(y, k) /\ Listed(y) => Cause2 \/ (pc[Rcn] = "wait" /\
                           Renewing(y, k)))'
                      /\ (Torn(y, k) /\ pc[y] = "wait" /\ k = 1 => Cause4)'
                      /\ (Torn(y, k) /\ pc[Rcn] = "wait" /\ Renewing(y, k) => Cause4)'
                      /\ (pc[y] = "wait" /\ ac[y][1].st = "dead" => Cause4)'
                      /\ (pc[Rcn] = "wait" /\ Renewing(y, k) /\ ac[y][k].st = "dead" => Cause4)'
                      /\ (Listed(y) /\ pc[y] = "wait" => Cause4)'
    BY DEF TornInv
  <2>1. (Tearing(y, k) /\ Listed(y) => Cause2 \/ (pc[Rcn] = "wait" /\ Renewing(y, k)))'
    BY <1>e DEF Tearing
  <2>2. (Torn(y, k) /\ pc[y] = "wait" /\ k = 1 => Cause4)'
    BY <1>e DEF Inv, Types, Places, Torn
  <2>3. (Torn(y, k) /\ pc[Rcn] = "wait" /\ Renewing(y, k) => Cause4)'
    BY <1>e DEF Inv, Types, Places, Torn
  <2>4. (pc[y] = "wait" /\ ac[y][1].st = "dead" => Cause4)'
    <3> SUFFICES ASSUME pc[y] = "wait", ac'[y][1].st = "dead" PROVE Cause4
      BY <1>e, <1>v DEF Inv, Types, Places, Lists, Threads, Ael
    <3>1. CASE ac[y][1].st = "dead"
      BY <3>1 DEF Inv, TornInv, Ids
    <3>2. CASE y = x /\ i = 1 /\ pc[Ael] = "dealFree"
      <4>1. Marked(x, i)
        BY <1>f, <3>2 DEF Inv, CurInv, CurIs
      <4> QED BY <4>1, <1>f, <3>2 DEF Inv, MarkInv
    <3>3. CASE y = x /\ i = 1 /\ pc[Ael] = "acFree"
      <4>1. Torn(x, i)
        BY <1>f, <3>3 DEF Torn, CurIs
      <4> QED BY <4>1, <1>f, <3>3 DEF Inv, TornInv
    <3> QED BY <1>e, <1>c, <1>o, <3>1, <3>2, <3>3
  <2>5. (pc[Rcn] = "wait" /\ Renewing(y, k) /\ ac[y][k].st = "dead" => Cause4)'
    <3>1. CASE y = x /\ k = i
      <4>1. pc[Rcn] = "wait" /\ Renewing(x, i) => Listed(x)
        BY DEF Inv, RoundInv, Renewing, Listed
      <4>2. pc[Ael] = "dealFree" => Marked(x, i)
        BY <1>f DEF Inv, CurInv, CurIs
      <4>3. pc[Ael] = "acFree" => Torn(x, i)
        BY <1>f DEF Torn, CurIs
      <4> QED BY <1>e, <1>v, <3>1, <4>1, <4>2, <4>3 DEF Inv, MarkListInv, TornInv
    <3>2. CASE ~(y = x /\ k = i)
      BY <1>c, <1>v, <3>2 DEF Inv, TornInv
    <3> QED BY <3>1, <3>2
  <2>6. (Listed(y) /\ pc[y] = "wait" => Cause4)'
    BY <1>e DEF Inv, TornInv, Signal, Cause2, Cause4, Listed
  <2> QED BY <2>1, <2>2, <2>3, <2>4, <2>5, <2>6
<1>11. FreeListInv'
  BY <1>f, <1>e, <1>c
     DEF Inv, Types, CurInv, FreeListInv, WaitInv, Cause2, Cause4, Contexts, CurIs, Torn,
         Marked
<1>12. MarkInv'
  <2> SUFFICES ASSUME NEW y \in Apps, NEW m \in Ids, Marked(y, m)'
               PROVE  /\ (pc[y] \in {"free2", "freeLock", "freeWait", "done"})'
                      /\ (ac[y][m].st \in {"new", "connecting"} => Cause4)'
                      /\ ((y \in woken /\ pc[y] = "freeWait") \/ pc[y] = "done" => Cause4 \/
                           ac[y][m].st = "dead")'
                      /\ (\A k \in Ids : k # m => ~Marked(y, k) /\ (Live(y, k) => Cause4))'
    BY DEF MarkInv
  <2>1. (pc[y] \in {"free2", "freeLock", "freeWait", "done"})'
    BY <1>v DEF Inv, MarkInv
  <2>2. (ac[y][m].st \in {"new", "connecting"} => Cause4)'
    <3>1. ac'[y][m].st \in {"new", "connecting"} => ac[y][m].st \in {"new", "connecting"}
      BY <1>c
    <3> QED BY <3>1, <1>v DEF Inv, MarkInv
  <2>3. ((y \in woken /\ pc[y] = "freeWait") \/ pc[y] = "done" => Cause4 \/
          ac[y][m].st = "dead")'
    <3>1. ac[y][m].st = "dead" => ac'[y][m].st = "dead"
      BY <1>c
    <3>2. Marked(y, m) /\ pc'[y] = pc[y] /\ Cause4' = Cause4
      BY <1>v
    <3>3. CASE y \in woken \/ pc[y] = "done"
      BY <3>1, <3>2, <3>3 DEF Inv, MarkInv
    <3>4. CASE y \notin woken /\ y \in woken' /\ pc[y] = "freeWait"
      <4>1. y = x /\ Marked(x, i)
        BY <1>s, <3>4 DEF WaitsOn
      <4>2. m = i
        BY <4>1, <3>2 DEF Inv, MarkInv
      <4> QED BY <1>c, <4>1, <4>2
    <3> QED BY <3>2, <3>3, <3>4
  <2>4. (\A k \in Ids : k # m => ~Marked(y, k) /\ (Live(y, k) => Cause4))'
    BY <1>v DEF Inv, MarkInv
  <2> QED BY <2>1, <2>2, <2>3, <2>4
<1>13. MarkListInv'
  <2> SUFFICES ASSUME NEW y \in Apps, NEW k \in Ids, Marked(y, k), Listed(y)
               PROVE  Cause4 /\ (ac'[y][k].st # "dead" => Cause2)
    BY <1>v DEF MarkListInv
  <2>1. CASE y = x /\ k = i
    <3>1. ac'[y][k].st = "dead"
      BY <1>c, <2>1
    <3> QED BY <3>1 DEF Inv, MarkListInv
  <2>2. CASE ~(y = x /\ k = i)
    <3>1. ac'[y][k].st = ac[y][k].st /\ ~CurIs(y, k)
      BY <1>c, <1>f, <2>2 DEF CurIs
    <3> QED BY <3>1 DEF Inv, MarkListInv
  <2> QED BY <2>1, <2>2
<1>14. MarkTearInv'
  BY <1>e DEF MarkTearInv, Tearing
<1>15. WaitInv'
  <2> SUFFICES ASSUME NEW b \in Apps
               PROVE  /\ pc'[b] \in {"free2", "freeLock", "freeWait"} =>
                           \E j \in Ids : ac'[b][j].freed
                      /\ pc'[b] = "done" => Cause4' \/ \E j \in Ids : ac'[b][j].freed
    BY DEF WaitInv, Marked
  <2>1. /\ pc[b] \in {"free2", "freeLock", "freeWait"} => \E j \in Ids : ac[b][j].freed
        /\ pc[b] = "done" => Cause4 \/ \E j \in Ids : ac[b][j].freed
    BY DEF Inv, WaitInv, Marked
  <2>2. ASSUME NEW j \in Ids, ac[b][j].freed PROVE ac'[b][j].freed
    BY <1>c, <2>2
  <2> QED BY <1>e, <2>1, <2>2 DEF Signal, Cause2, Cause4
<1> QED BY <1>1, <1>2, <1>3, <1>4, <1>5, <1>6, <1>7, <1>8, <1>9, <1>10, <1>11, <1>12, <1>13,
           <1>14, <1>15 DEF Inv

\* The round of the event loop ends.
LEMMA PollEndKeeps ==
    ASSUME Inv, pollEnd
    PROVE  Inv'
<1> USE AcAssumption, AppAssumption, NullAssumption DEF Ael, Rcn, Threads, Ids
<1>1. Types'
  <2>1. Places'
    BY pollEnd DEF Inv, Types, Places, round, Goto, pollEnd, BusyLabels, AelLabels
  <2> QED BY pollEnd, <2>1 DEF Inv, Types, Lists, round, pollEnd
<1>2. LocksHeld'
  <2> SUFFICES ASSUME NEW l \in Locks, NEW t \in Threads
               PROVE  (owner[l] = t <=> Holds(l, t))'
    BY DEF LocksHeld
  <2> QED BY pollEnd DEF Inv, LocksHeld, round, Goto, LoopAt, pollEnd, Holds
<1>3. LoopInv'
  BY pollEnd DEF Inv, LoopInv, Goto, LoopLive, LoopAt, pollEnd
<1>4. RoundInv'
  BY pollEnd DEF Inv, RoundInv, round, Goto, pollEnd
<1>5. QuietStep
  <2>1. UNCHANGED <<xc, ac, reconn_list, free_ac_list, cur, visited, woken>> /\
          causes \subseteq causes'
    BY pollEnd DEF round, pollEnd
  <2>2. \A y \in Apps : pc'[y] = pc[y]
    BY pollEnd DEF Goto, pollEnd
  <2>3. \/ pc[Ael] \notin BusyLabels /\ pc'[Ael] \notin BusyLabels
        \/ pc'[Ael] = pc[Ael]
    BY pollEnd DEF Goto, LoopAt, pollEnd, BusyLabels
  <2>4. \/ {pc[Rcn], pc'[Rcn]} \cap {"raw", "register", "wait"} = {}
        \/ pc'[Rcn] = pc[Rcn]
    OBVIOUS
  <2> QED BY <2>1, <2>2, <2>3, <2>4 DEF QuietStep
<1> QED BY <1>1, <1>2, <1>3, <1>4, <1>5, QuietKeeps DEF Inv

\* A socket becomes writable: the connection is made or refused.
LEMMA ConnectEventKeeps ==
    ASSUME Inv, connectEvent
    PROVE  Inv'
<1> USE AcAssumption, AppAssumption, NullAssumption DEF Ael, Rcn, Threads, Ids
<1>1. Types'
  <2>1. Places'
    BY connectEvent DEF Inv, Types, Places, round, Goto, connectEvent, BusyLabels, AelLabels
  <2> QED BY connectEvent, <2>1 DEF Inv, Types, Lists, round, connectEvent
<1>2. LocksHeld'
  <2> SUFFICES ASSUME NEW l \in Locks, NEW t \in Threads
               PROVE  (owner[l] = t <=> Holds(l, t))'
    BY DEF LocksHeld
  <2> QED BY connectEvent DEF Inv, LocksHeld, round, Goto, LoopAt, connectEvent, Holds
<1>3. LoopInv'
  BY connectEvent DEF Inv, LoopInv, Goto, LoopLive, LoopAt, connectEvent
<1>4. NumberInv'
  BY connectEvent DEF Inv, NumberInv, round, Goto, connectEvent, Marked
<1>5. AppInv'
  BY connectEvent DEF Inv, AppInv, Goto, connectEvent, Cause2, Cause4, Listed, Marked, AppOK
<1>6. CurInv'
  BY connectEvent DEF CurInv, Goto, LoopAt, connectEvent, CurIs, Torn
<1>7. StateInv'
  BY connectEvent
     DEF Inv, StateInv, round, Goto, connectEvent, Cause2, Cause4, Listed, Renewing
<1>8. RoundInv'
  BY connectEvent DEF Inv, RoundInv, round, Goto, connectEvent
<1>9. SingleInv'
  BY connectEvent
     DEF Inv, SingleInv, round, Goto, LoopAt, connectEvent, Cause2, Listed, Torn, Live,
         Tearing, Renewing
<1>10. TornInv'
  BY connectEvent
     DEF Inv, TornInv, round, Goto, LoopAt, connectEvent, Cause2, Cause4, Listed, Torn,
         Tearing, Renewing
<1>11. FreeListInv'
  BY connectEvent DEF Inv, FreeListInv, connectEvent, Cause2, Cause4, Marked
<1>12. MarkInv'
  BY connectEvent
     DEF Inv, MarkInv, Goto, LoopAt, connectEvent, Cause2, Cause4, Torn, Live, Marked
<1>13. MarkListInv'
  BY connectEvent DEF Inv, MarkListInv, LoopAt, connectEvent, Cause2, Cause4, Listed, Marked
<1>14. MarkTearInv'
  BY connectEvent DEF MarkTearInv, Goto, LoopAt, connectEvent, Tearing
<1>15. WaitInv'
  <2> SUFFICES ASSUME NEW b \in Apps
               PROVE  /\ pc'[b] \in {"free2", "freeLock", "freeWait"} =>
                           \E i \in Ids : ac'[b][i].freed
                      /\ pc'[b] = "done" => Cause4' \/ \E i \in Ids : ac'[b][i].freed
    BY DEF WaitInv, Marked
  <2>1. /\ pc[b] \in {"free2", "freeLock", "freeWait"} => \E i \in Ids : ac[b][i].freed
        /\ pc[b] = "done" => Cause4 \/ \E i \in Ids : ac[b][i].freed
    BY DEF Inv, WaitInv, Marked
  <2>2. ASSUME NEW i \in Ids, ac[b][i].freed PROVE ac'[b][i].freed
    BY connectEvent, <2>2 DEF connectEvent
  <2> QED BY connectEvent, <2>1 DEF Goto, connectEvent, Cause2, Cause4
<1> QED BY <1>1, <1>2, <1>3, <1>4, <1>5, <1>6, <1>7, <1>8, <1>9, <1>10, <1>11, <1>12, <1>13,
           <1>14, <1>15 DEF Inv

\* connectedCallback with a connection made.
LEMMA ConnectedOKKeeps ==
    ASSUME Inv, connectedCallback, Alive(cur[1]), pc[Ael] = "connOK"
    PROVE  Inv'
<1> USE AcAssumption, AppAssumption, NullAssumption DEF Ael, Rcn, Threads, Ids
<1>o. 1 \in Ids
  OBVIOUS
<1>f. PICK x \in Apps, i \in Ids : cur = <<x, i>>
  BY connectedCallback DEF connectedCallback, Inv, Types, Places, Lists, BusyLabels, LoopAt
<1>k. cur[1] = x /\ cur[2] = i
  BY <1>f
<1>e. /\ pc[Ael] = "connOK" /\ Free(x) /\ xc[x].mem = "live"
      /\ Signal(x)
      /\ AcSet(x, i, "connected")
      /\ xc' = [xc EXCEPT ![x].status = "connected"]
      /\ cur' = NULL
      /\ pc' = [pc EXCEPT ![Ael] = "poll"]
      /\ UNCHANGED <<owner, aeloop, reconn_list, free_ac_list, todo, visited, causes>>
  <2>1. xc[x].mem = "live"
    BY Alive(cur[1]), <1>k DEF Alive
  <2> QED BY <1>k, <2>1, connectedCallback, pc[Ael] = "connOK" DEF connectedCallback, Alive,
        Goto, round, LoopAt
<1>s. /\ woken \subseteq woken' /\ woken' \subseteq Threads
      /\ \A t \in woken' : t \in woken \/ (pc[t] = "wait" /\ WaitsOn(t) = x)
                                     \/ (pc[t] = "freeWait" /\ WaitsOn(t) = x)
  BY <1>e DEF Signal, Asleep, Inv, Types, Places, Lists
<1>x. /\ xc' \in [Apps -> Connections]
      /\ \A y \in Apps : y # x => xc'[y] = xc[y]
      /\ xc'[x].status = "connected"
      /\ xc'[x].mem = xc[x].mem
      /\ xc'[x].ctx = xc[x].ctx
      /\ xc'[x].last = xc[x].last
  <2> DEFINE r == [xc[x] EXCEPT !.status = "connected"]
  <2>1. xc[x] \in Connections
    BY DEF Inv, Types
  <2>2. r \in Connections /\ r.status = "connected" /\ r.mem = xc[x].mem /\
          r.ctx = xc[x].ctx /\ r.last = xc[x].last
    BY <2>1, ConnectionFields DEF Connections, Status
  <2>3. xc' = [xc EXCEPT ![x] = r]
    BY <1>e, <2>1 DEF Inv, Types
  <2> HIDE DEF r
  <2>4. /\ xc' \in [Apps -> Connections]
        /\ \A y \in Apps : xc'[y] = IF y = x THEN r ELSE xc[y]
    BY <1>f, <2>2, <2>3, XcStep DEF Inv, Types
  <2> QED BY <1>f, <2>2, <2>4
<1>c. /\ ac' \in [Apps -> [Ids -> Contexts]]
      /\ \A y \in Apps, j \in Ids :
           /\ ac'[y][j].freed = ac[y][j].freed
           /\ ac'[y][j].st = IF y = x /\ j = i THEN "connected" ELSE ac[y][j].st
  <2>1. x \in Apps /\ i \in Ids /\ "connected" \in States
    BY DEF States
  <2>2. ac \in [Apps -> [Ids -> Contexts]] /\ AcSet(x, i, "connected")
    BY <1>e DEF Inv, Types
  <2> HIDE DEF Ael, Rcn, Threads, Ids
  <2> QED BY <2>1, <2>2, AcStep
<1>v. /\ \A y \in Apps, k \in Ids : Live(y, k)' => Live(y, k)
      /\ \A y \in Apps, k \in Ids :
           ~Tearing(y, k)' /\ Renewing(y, k)' = Renewing(y, k) /\ Marked(y, k)' = Marked(y, k)
      /\ \A y \in Apps : Listed(y)' = Listed(y)
      /\ Cause2' = Cause2 /\ Cause4' = Cause4
  <2>1. ac[x][i].st = "connecting"
    BY <1>e, <1>f DEF Inv, CurInv, CurIs
  <2>2. /\ pc'[Ael] = "poll" /\ pc[Ael] = "connOK" /\ pc'[Rcn] = pc[Rcn]
        /\ UNCHANGED <<visited, reconn_list, causes>>
        /\ \A y \in Apps : xc'[y].last = xc[y].last
    BY <1>e, <1>x DEF Inv, Types, Places
  <2>3. /\ \A y \in Apps, k \in Ids : ~Torn(y, k) /\ ~Torn(y, k)' /\ ~Tearing(y, k)'
        /\ \A y \in Apps, k \in Ids :
             Renewing(y, k)' = Renewing(y, k) /\ Marked(y, k)' = Marked(y, k)
        /\ \A y \in Apps : Listed(y)' = Listed(y)
        /\ Cause2' = Cause2 /\ Cause4' = Cause4
    BY <2>2, <1>c DEF Torn, Tearing, Renewing, Marked, Listed, Cause2, Cause4
  <2>4. \A y \in Apps, k \in Ids : Live(y, k)' => Live(y, k)
    BY <1>c, <2>1, <2>3 DEF Live
  <2> QED BY <2>3, <2>4
<1>1. Types'
  <2>1. Places'
    BY <1>e DEF Inv, Types, Places, BusyLabels, AelLabels
  <2> QED BY <1>e, <1>s, <1>x, <1>c, <2>1 DEF Inv, Types, Lists
<1>2. LocksHeld'
  <2> SUFFICES ASSUME NEW l \in Locks, NEW t \in Threads
               PROVE  (owner[l] = t <=> Holds(l, t))'
    BY DEF LocksHeld
  <2> QED BY <1>e DEF Inv, LocksHeld, Holds
<1>3. LoopInv'
  BY <1>e DEF Inv, LoopInv, LoopLive, BusyLabels
<1>4. NumberInv'
  <2> SUFFICES ASSUME NEW y \in Apps
               PROVE  /\ (\A m \in Ids : ac[y][m].st = "none" <=> m > xc[y].last)'
                      /\ (\A m \in Ids : m > xc[y].last => ~Marked(y, m))'
                      /\ (xc[y].ctx # RAW => xc[y].ctx <= xc[y].last)'
                      /\ (xc[y].ctx = RAW => pc[Rcn] = "raw" /\ visited = y)'
                      /\ (pc[Rcn] = "raw" /\ visited = y => xc[y].last < MaxAc /\
                           xc[y].ctx = RAW)'
                      /\ (pc[Rcn] \in {"register", "wait"} /\ visited = y => xc[y].last >= 1)'
                      /\ (xc[y].ctx = 0 => xc[y].mem = "none" \/ "attach" \in causes \/
                           "stop" \in causes)'
    BY DEF NumberInv
  <2>1. (\A m \in Ids : ac[y][m].st = "none" <=> m > xc[y].last)'
    BY <1>f, <1>e, <1>c DEF Inv, Types, NumberInv, CurInv, Contexts, CurIs
  <2>2. (\A m \in Ids : m > xc[y].last => ~Marked(y, m))'
    BY <1>v, <1>f, <1>x DEF Inv, NumberInv
  <2>3. (xc[y].ctx # RAW => xc[y].ctx <= xc[y].last)'
    BY <1>x DEF Inv, NumberInv
  <2>4. (xc[y].ctx = RAW => pc[Rcn] = "raw" /\ visited = y)'
    BY <1>e DEF Inv, NumberInv
  <2>5. (pc[Rcn] = "raw" /\ visited = y => xc[y].last < MaxAc /\ xc[y].ctx = RAW)'
    BY <1>e DEF Inv, NumberInv
  <2>6. (pc[Rcn] \in {"register", "wait"} /\ visited = y => xc[y].last >= 1)'
    BY <1>e DEF Inv, NumberInv
  <2>7. (xc[y].ctx = 0 => xc[y].mem = "none" \/ "attach" \in causes \/ "stop" \in causes)'
    BY <1>e DEF Inv, NumberInv
  <2> QED BY <2>1, <2>2, <2>3, <2>4, <2>5, <2>6, <2>7
<1>5. AppInv'
  BY <1>f, <1>e, <1>s, <1>x, <1>c
     DEF Inv, Types, LocksHeld, NumberInv, AppInv, CurInv, StateInv, MarkListInv, Places,
         RAW, Holds, Cause2, Cause4, Contexts, Listed, CurIs, Torn, Marked, Renewing, AppOK
<1>6. CurInv'
  BY <1>e DEF Inv, Types, CurInv, Places, Torn
<1>7. StateInv'
  BY <1>f, <1>e, <1>c
     DEF Inv, Types, CurInv, StateInv, RoundInv, TornInv, Locks, Free, Signal, Cause2,
         Cause4, Contexts, Listed, CurIs, Renewing
<1>8. RoundInv'
  BY <1>e DEF Inv, RoundInv
<1>9. SingleInv'
  BY <1>v DEF Inv, SingleInv
<1>10. TornInv'
  <2> SUFFICES ASSUME NEW y \in Apps, NEW k \in Ids
               PROVE  /\ (Tearing(y, k) /\ Listed(y) => Cause2 \/ (pc[Rcn] = "wait" /\
                           Renewing(y, k)))'
                      /\ (Torn(y, k) /\ pc[y] = "wait" /\ k = 1 => Cause4)'
                      /\ (Torn(y, k) /\ pc[Rcn] = "wait" /\ Renewing(y, k) => Cause4)'
                      /\ (pc[y] = "wait" /\ ac[y][1].st = "dead" => Cause4)'
                      /\ (pc[Rcn] = "wait" /\ Renewing(y, k) /\ ac[y][k].st = "dead" => Cause4)'
                      /\ (Listed(y) /\ pc[y] = "wait" => Cause4)'
    BY DEF TornInv
  <2>1. (Tearing(y, k) /\ Listed(y) => Cause2 \/ (pc[Rcn] = "wait" /\ Renewing(y, k)))'
    BY <1>e DEF Tearing
  <2>2. (Torn(y, k) /\ pc[y] = "wait" /\ k = 1 => Cause4)'
    BY <1>e DEF Torn
  <2>3. (Torn(y, k) /\ pc[Rcn] = "wait" /\ Renewing(y, k) => Cause4)'
    BY <1>e DEF Torn
  <2>4. (pc[y] = "wait" /\ ac[y][1].st = "dead" => Cause4)'
    <3>1. ac'[y][1].st = "dead" => ac[y][1].st = "dead"
      BY <1>c, <1>f, <1>o
    <3>2. pc'[y] = pc[y]
      BY <1>e DEF Inv, Types, Places, Lists, Threads, Ael
    <3> QED BY <3>1, <3>2, <1>v, <1>o DEF Inv, TornInv
  <2>5. (pc[Rcn] = "wait" /\ Renewing(y, k) /\ ac[y][k].st = "dead" => Cause4)'
    BY <1>e, <1>c DEF Inv, Types, TornInv, Cause2, Cause4, Contexts, Renewing
  <2>6. (Listed(y) /\ pc[y] = "wait" => Cause4)'
    BY <1>e DEF Inv, TornInv, Cause2, Cause4, Listed
  <2> QED BY <2>1, <2>2, <2>3, <2>4, <2>5, <2>6
<1>11. FreeListInv'
  BY <1>v, <1>c, <1>e DEF Inv, FreeListInv
<1>12. MarkInv'
  <2> SUFFICES ASSUME NEW y \in Apps, NEW m \in Ids, Marked(y, m)'
               PROVE  /\ (pc[y] \in {"free2", "freeLock", "freeWait", "done"})'
                      /\ (ac[y][m].st \in {"new", "connecting"} => Cause4)'
                      /\ ((y \in woken /\ pc[y] = "freeWait") \/ pc[y] = "done" => Cause4 \/
                           ac[y][m].st = "dead")'
                      /\ (\A k \in Ids : k # m => ~Marked(y, k) /\ (Live(y, k) => Cause4))'
    BY DEF MarkInv
  <2>1. (pc[y] \in {"free2", "freeLock", "freeWait", "done"})'
    BY <1>v, <1>e DEF Inv, Types, Places, MarkInv
  <2>2. (ac[y][m].st \in {"new", "connecting"} => Cause4)'
    <3>1. ac'[y][m].st \in {"new", "connecting"} => ac[y][m].st \in {"new", "connecting"}
      BY <1>f, <1>c
    <3> QED BY <3>1, <1>v DEF Inv, MarkInv
  <2>3. ((y \in woken /\ pc[y] = "freeWait") \/ pc[y] = "done" => Cause4 \/
          ac[y][m].st = "dead")'
    <3>1. ac[y][m].st = "dead" => ac'[y][m].st = "dead"
      <4>1. ac[x][i].st = "connecting"
        BY <1>e, <1>f DEF Inv, CurInv, CurIs
      <4> QED BY <1>c, <4>1
    <3>2. Marked(y, m) /\ pc'[y] = pc[y] /\ Cause4' = Cause4
      BY <1>v, <1>e DEF Inv, Types, Places
    <3>3. CASE y \in woken \/ pc[y] = "done"
      BY <3>1, <3>2, <3>3 DEF Inv, MarkInv
    <3>4. CASE y \notin woken /\ y \in woken' /\ pc[y] = "freeWait"
      <4>1. y = x
        BY <1>s, <3>4 DEF WaitsOn
      <4>2. ac[x][i].st = "connecting"
        BY <1>e, <1>f DEF Inv, CurInv, CurIs
      <4>3. Live(x, i)
        BY <1>e, <4>2 DEF Live, Torn
      <4>4. Cause4
        BY <3>2, <4>1, <4>2, <4>3, <1>f DEF Inv, MarkInv
      <4> QED BY <3>2, <4>4
    <3> QED BY <3>2, <3>3, <3>4
  <2>4. (\A k \in Ids : k # m => ~Marked(y, k) /\ (Live(y, k) => Cause4))'
    BY <1>v DEF Inv, MarkInv
  <2> QED BY <2>1, <2>2, <2>3, <2>4
<1>13. MarkListInv'
  <2> SUFFICES ASSUME NEW y \in Apps, NEW m \in Ids, Marked(y, m)', Listed(y)'
               PROVE  /\ (Cause4)'
                      /\ (ac[y][m].st # "dead" => Cause2 \/ (pc[Ael] = "acFree" /\
                           CurIs(y, m)))'
    BY DEF MarkListInv
  <2>1. (Cause4)'
    BY <1>e, <1>c DEF Inv, Types, MarkListInv, Cause2, Cause4, Contexts, Listed, Marked
  <2>2. (ac[y][m].st # "dead" => Cause2 \/ (pc[Ael] = "acFree" /\ CurIs(y, m)))'
    <3>1. Marked(y, m) /\ Listed(y)
      BY <1>v
    <3>2. ac[y][m].st # "dead" => Cause2
      BY <3>1, <1>e DEF Inv, MarkListInv
    <3>3. ac'[y][m].st # "dead" => ac[y][m].st # "dead"
      <4>1. ac[x][i].st = "connecting"
        BY <1>e, <1>f DEF Inv, CurInv, CurIs
      <4> QED BY <1>c, <1>f, <4>1
    <3> QED BY <3>2, <3>3, <1>v
  <2> QED BY <2>1, <2>2
<1>14. MarkTearInv'
  BY <1>e DEF MarkTearInv, Tearing
<1>15. WaitInv'
  <2> SUFFICES ASSUME NEW b \in Apps
               PROVE  /\ pc'[b] \in {"free2", "freeLock", "freeWait"} =>
                           \E j \in Ids : ac'[b][j].freed
                      /\ pc'[b] = "done" => Cause4' \/ \E j \in Ids : ac'[b][j].freed
    BY DEF WaitInv, Marked
  <2>1. /\ pc[b] \in {"free2", "freeLock", "freeWait"} => \E j \in Ids : ac[b][j].freed
        /\ pc[b] = "done" => Cause4 \/ \E j \in Ids : ac[b][j].freed
    BY DEF Inv, WaitInv, Marked
  <2>2. ASSUME NEW j \in Ids, ac[b][j].freed PROVE ac'[b][j].freed
    BY <1>c, <2>2
  <2> QED BY <1>e, <2>1, <2>2 DEF Cause2, Cause4
<1> QED BY <1>1, <1>2, <1>3, <1>4, <1>5, <1>6, <1>7, <1>8, <1>9, <1>10, <1>11, <1>12, <1>13,
           <1>14, <1>15 DEF Inv

\* connectedCallback with an error.
LEMMA ConnectedErrKeeps ==
    ASSUME Inv, connectedCallback, Alive(cur[1]), pc[Ael] = "connErr"
    PROVE  Inv'
<1> USE AcAssumption, AppAssumption, NullAssumption DEF Ael, Rcn, Threads, Ids
<1>f. PICK x \in Apps, i \in Ids : cur = <<x, i>>
  BY connectedCallback DEF connectedCallback, Inv, Types, Places, Lists, BusyLabels, LoopAt
<1>k. cur[1] = x /\ cur[2] = i
  BY <1>f
<1>e. /\ pc[Ael] = "connErr" /\ Free(x) /\ xc[x].mem = "live"
      /\ Signal(x)
      /\ AcSet(x, i, "connecting")
      /\ pc' = [pc EXCEPT ![Ael] = "acFree"]
      /\ UNCHANGED <<owner, aeloop, xc, reconn_list, free_ac_list, cur, todo, visited, causes>>
  <2>1. xc[x].mem = "live"
    BY Alive(cur[1]), <1>k DEF Alive
  <2> QED BY <1>k, <2>1, connectedCallback, pc[Ael] = "connErr" DEF connectedCallback, Alive,
        Goto, round, LoopAt
<1>s. /\ woken \subseteq woken' /\ woken' \subseteq Threads
      /\ \A t \in woken' : t \in woken \/ (pc[t] = "wait" /\ WaitsOn(t) = x)
                                     \/ (pc[t] = "freeWait" /\ WaitsOn(t) = x)
  BY <1>e DEF Signal, Asleep, Inv, Types, Places, Lists
<1>c. /\ ac' \in [Apps -> [Ids -> Contexts]]
      /\ \A y \in Apps, j \in Ids :
           /\ ac'[y][j].freed = ac[y][j].freed
           /\ ac'[y][j].st = IF y = x /\ j = i THEN "connecting" ELSE ac[y][j].st
  <2>1. x \in Apps /\ i \in Ids /\ "connecting" \in States
    BY DEF States
  <2>2. ac \in [Apps -> [Ids -> Contexts]] /\ AcSet(x, i, "connecting")
    BY <1>e DEF Inv, Types
  <2> HIDE DEF Ael, Rcn, Threads, Ids
  <2> QED BY <2>1, <2>2, AcStep
<1>v. /\ Cause2 /\ Cause4 /\ Cause2' /\ Cause4'
      /\ pc'[Ael] = "acFree" /\ pc'[Rcn] = pc[Rcn] /\ \A y \in Apps : pc'[y] = pc[y]
      /\ \A y \in Apps, k \in Ids :
           Marked(y, k)' = Marked(y, k) /\ Renewing(y, k)' = Renewing(y, k)
      /\ \A y \in Apps : Listed(y)' = Listed(y)
      /\ ac[x][i].st = "connecting"
  <2>1. "attach" \in causes /\ ac[x][i].st = "connecting"
    BY <1>e, <1>f DEF Inv, CurInv, CurIs
  <2>2. /\ pc'[Ael] = "acFree" /\ pc'[Rcn] = pc[Rcn]
        /\ \A y \in Apps : pc'[y] = pc[y]
    BY <1>e DEF Inv, Types, Places
  <2> QED BY <1>e, <1>c, <2>1, <2>2 DEF Cause2, Cause4, Marked, Renewing, Listed
<1>1. Types'
  <2>1. Places'
    BY <1>e DEF Inv, Types, Places, BusyLabels, AelLabels
  <2> QED BY <1>e, <1>s, <1>c, <2>1 DEF Inv, Types, Lists
<1>2. LocksHeld'
  <2> SUFFICES ASSUME NEW l \in Locks, NEW t \in Threads
               PROVE  (owner[l] = t <=> Holds(l, t))'
    BY DEF LocksHeld
  <2> QED BY <1>e DEF Inv, LocksHeld, Holds
<1>3. LoopInv'
  BY <1>e DEF Inv, LoopInv, LoopLive, BusyLabels
<1>4. NumberInv'
  BY <1>f, <1>e, <1>c
     DEF Inv, Types, NumberInv, CurInv, RoundInv, Connections, Contexts, CurIs, Marked
<1>5. AppInv'
  <2> SUFFICES ASSUME NEW y \in Apps PROVE AppOK(y)'
    BY DEF AppInv
  <2>1. AppOK(y)
    BY DEF Inv, AppInv
  <2>2. ~(pc[y] = "register" /\ y = x /\ i = 1)
    BY <1>v, <2>1 DEF AppOK
  <2>3. 1 \in Ids
    OBVIOUS
  <2>4. y \in woken' => pc[y] \in {"wait", "freeWait"}
    BY <1>s, <2>1 DEF AppOK
  <2> QED BY <1>e, <1>c, <1>v, <2>1, <2>2, <2>3, <2>4 DEF AppOK
<1>6. CurInv'
  BY <1>e, <1>c DEF Inv, CurInv, Cause2, Cause4, CurIs
<1>7. StateInv'
  <2>1. \A y \in Apps, k \in Ids : ac'[y][k].st = "new" <=> ac[y][k].st = "new"
    BY <1>c, <1>v
  <2> QED BY <1>v, <2>1 DEF Inv, StateInv
<1>8. RoundInv'
  BY <1>e DEF Inv, RoundInv
<1>9. SingleInv'
  BY <1>v DEF SingleInv
<1>10. TornInv'
  BY <1>v DEF TornInv
<1>11. FreeListInv'
  BY <1>e, <1>v DEF Inv, FreeListInv
<1>12. MarkInv'
  BY <1>e, <1>v DEF Inv, MarkInv
<1>13. MarkListInv'
  BY <1>v DEF MarkListInv
<1>14. MarkTearInv'
  BY <1>e DEF MarkTearInv, Tearing
<1>15. WaitInv'
  <2> SUFFICES ASSUME NEW b \in Apps
               PROVE  /\ pc'[b] \in {"free2", "freeLock", "freeWait"} =>
                           \E j \in Ids : ac'[b][j].freed
                      /\ pc'[b] = "done" => Cause4' \/ \E j \in Ids : ac'[b][j].freed
    BY DEF WaitInv, Marked
  <2>1. /\ pc[b] \in {"free2", "freeLock", "freeWait"} => \E j \in Ids : ac[b][j].freed
        /\ pc[b] = "done" => Cause4 \/ \E j \in Ids : ac[b][j].freed
    BY DEF Inv, WaitInv, Marked
  <2>2. ASSUME NEW j \in Ids, ac[b][j].freed PROVE ac'[b][j].freed
    BY <1>c, <2>2
  <2> QED BY <1>e, <2>1, <2>2 DEF Cause2, Cause4
<1> QED BY <1>1, <1>2, <1>3, <1>4, <1>5, <1>6, <1>7, <1>8, <1>9, <1>10, <1>11, <1>12, <1>13,
           <1>14, <1>15 DEF Inv

\* A socket is closed by the server.
LEMMA LossEventKeeps ==
    ASSUME Inv, lossEvent
    PROVE  Inv'
<1> USE AcAssumption, AppAssumption, NullAssumption DEF Ael, Rcn, Threads, Ids
<1>1. Types'
  <2>1. Places'
    BY lossEvent DEF Inv, Types, Places, round, Goto, lossEvent, BusyLabels, AelLabels
  <2> QED BY lossEvent, <2>1 DEF Inv, Types, Lists, round, lossEvent
<1>2. LocksHeld'
  <2> SUFFICES ASSUME NEW l \in Locks, NEW t \in Threads
               PROVE  (owner[l] = t <=> Holds(l, t))'
    BY DEF LocksHeld
  <2> QED BY lossEvent DEF Inv, LocksHeld, round, Goto, LoopAt, lossEvent, Holds
<1>3. LoopInv'
  BY lossEvent DEF Inv, LoopInv, Goto, LoopLive, LoopAt, lossEvent
<1>4. NumberInv'
  BY lossEvent DEF Inv, NumberInv, round, Goto, lossEvent, Marked
<1>5. AppInv'
  BY lossEvent DEF Inv, AppInv, Goto, lossEvent, Cause2, Cause4, Listed, Marked, AppOK
<1>6. CurInv'
  BY lossEvent DEF CurInv, Goto, LoopAt, lossEvent, Cause4, CurIs, Marked
<1>7. StateInv'
  BY lossEvent DEF Inv, StateInv, round, Goto, lossEvent, Cause2, Cause4, Listed, Renewing
<1>8. RoundInv'
  BY lossEvent DEF Inv, RoundInv, round, Goto, lossEvent
<1>9. SingleInv'
  BY lossEvent
     DEF Inv, SingleInv, round, Goto, LoopAt, lossEvent, Cause2, Listed, CurIs, Torn, Live,
         Tearing, Renewing
<1>10. TornInv'
  BY lossEvent
     DEF Inv, StateInv, SingleInv, TornInv, round, Goto, WaitsOn, LoopAt, Attaching,
         lossEvent, Cause2, Cause4, Listed, CurIs, Torn, Live, Tearing, Renewing
<1>11. FreeListInv'
  BY lossEvent DEF Inv, FreeListInv, lossEvent, Cause2, Cause4, Marked
<1>12. MarkInv'
  BY lossEvent DEF Inv, MarkInv, Goto, LoopAt, lossEvent, Cause2, Cause4, Torn, Live, Marked
<1>13. MarkListInv'
  BY lossEvent DEF Inv, MarkListInv, LoopAt, lossEvent, Cause2, Cause4, Listed, Marked
<1>14. MarkTearInv'
  BY lossEvent
     DEF Inv, Types, NumberInv, SingleInv, MarkInv, MarkTearInv, LoopAt, lossEvent, Cause2,
         Cause4, States, Contexts, CurIs, Torn, Live, Marked, Tearing
<1>15. WaitInv'
  <2> SUFFICES ASSUME NEW b \in Apps
               PROVE  /\ pc'[b] \in {"free2", "freeLock", "freeWait"} =>
                           \E i \in Ids : ac'[b][i].freed
                      /\ pc'[b] = "done" => Cause4' \/ \E i \in Ids : ac'[b][i].freed
    BY DEF WaitInv, Marked
  <2>1. /\ pc[b] \in {"free2", "freeLock", "freeWait"} => \E i \in Ids : ac[b][i].freed
        /\ pc[b] = "done" => Cause4 \/ \E i \in Ids : ac[b][i].freed
    BY DEF Inv, WaitInv, Marked
  <2>2. ASSUME NEW i \in Ids, ac[b][i].freed PROVE ac'[b][i].freed
    BY lossEvent, <2>2 DEF lossEvent
  <2> QED BY lossEvent, <2>1 DEF Goto, lossEvent, Cause2, Cause4
<1> QED BY <1>1, <1>2, <1>3, <1>4, <1>5, <1>6, <1>7, <1>8, <1>9, <1>10, <1>11, <1>12, <1>13,
           <1>14, <1>15 DEF Inv

\* disconnectedCallback sets the status.
LEMMA DiscStatusKeeps ==
    ASSUME Inv, discStatus, Alive(cur[1])
    PROVE  Inv'
<1> USE AcAssumption, AppAssumption, NullAssumption DEF Ael, Rcn, Threads, Ids
<1>f. PICK x \in Apps, i \in Ids : cur = <<x, i>>
  BY discStatus DEF discStatus, Inv, Types, Places, Lists, BusyLabels, LoopAt
<1>k. cur[1] = x /\ cur[2] = i
  BY <1>f
<1>e. /\ pc[Ael] = "disc1" /\ Free(x) /\ xc[x].mem = "live"
      /\ xc' = [xc EXCEPT ![x].status = "disconnecting"]
      /\ pc' = [pc EXCEPT ![Ael] = "disc2"]
      /\ UNCHANGED <<owner, aeloop, ac, reconn_list, free_ac_list, cur, todo, visited, woken,
           causes>>
  <2>1. xc[x].mem = "live"
    BY Alive(cur[1]), <1>k DEF Alive
  <2> QED BY <1>k, <2>1, discStatus DEF discStatus, Alive, Goto, round, LoopAt
<1>x. /\ xc' \in [Apps -> Connections]
      /\ \A y \in Apps : y # x => xc'[y] = xc[y]
      /\ xc'[x].status = "disconnecting"
      /\ xc'[x].mem = xc[x].mem
      /\ xc'[x].ctx = xc[x].ctx
      /\ xc'[x].last = xc[x].last
  <2> DEFINE r == [xc[x] EXCEPT !.status = "disconnecting"]
  <2>1. xc[x] \in Connections
    BY DEF Inv, Types
  <2>2. r \in Connections /\ r.status = "disconnecting" /\ r.mem = xc[x].mem /\
          r.ctx = xc[x].ctx /\ r.last = xc[x].last
    BY <2>1, ConnectionFields DEF Connections, Status
  <2>3. xc' = [xc EXCEPT ![x] = r]
    BY <1>e, <2>1 DEF Inv, Types
  <2> HIDE DEF r
  <2>4. /\ xc' \in [Apps -> Connections]
        /\ \A y \in Apps : xc'[y] = IF y = x THEN r ELSE xc[y]
    BY <1>f, <2>2, <2>3, XcStep DEF Inv, Types
  <2> QED BY <1>f, <2>2, <2>4
<1>1. Types'
  <2>1. Places'
    BY <1>e DEF Inv, Types, Places, BusyLabels, AelLabels
  <2> QED BY <1>e, <1>x, <2>1 DEF Inv, Types, Lists
<1>2. LocksHeld'
  <2> SUFFICES ASSUME NEW l \in Locks, NEW t \in Threads
               PROVE  (owner[l] = t <=> Holds(l, t))'
    BY DEF LocksHeld
  <2> QED BY <1>e DEF Inv, LocksHeld, Holds
<1>3. LoopInv'
  BY <1>e DEF Inv, LoopInv, LoopLive, BusyLabels
<1>4. NumberInv'
  BY <1>e DEF Inv, NumberInv, Marked
<1>5. AppInv'
  BY <1>f, <1>e
     DEF Inv, NumberInv, AppInv, CurInv, Cause2, Cause4, Listed, CurIs, Marked, AppOK
<1>6. CurInv'
  BY <1>f, <1>e, <1>x DEF Inv, CurInv, Cause2, Cause4, CurIs, Torn, Marked
<1>7. StateInv'
  BY <1>e DEF Inv, StateInv, Cause2, Cause4, Listed, Renewing
<1>8. RoundInv'
  BY <1>e DEF Inv, RoundInv
<1>9. SingleInv'
  BY <1>e DEF Inv, SingleInv, Cause2, Listed, CurIs, Torn, Live, Tearing, Renewing
<1>10. TornInv'
  BY <1>e DEF Inv, TornInv, Cause2, Cause4, Listed, CurIs, Torn, Tearing, Renewing
<1>11. FreeListInv'
  BY <1>e DEF Inv, FreeListInv, Cause2, Cause4, Marked
<1>12. MarkInv'
  BY <1>e DEF Inv, MarkInv, Cause2, Cause4, CurIs, Torn, Live, Marked
<1>13. MarkListInv'
  BY <1>e DEF Inv, MarkListInv, Cause2, Cause4, Listed, Marked
<1>14. MarkTearInv'
  BY <1>e DEF Inv, MarkTearInv, Cause2, Cause4, CurIs, Marked, Tearing
<1>15. WaitInv'
  <2> SUFFICES ASSUME NEW b \in Apps
               PROVE  /\ pc'[b] \in {"free2", "freeLock", "freeWait"} =>
                           \E j \in Ids : ac'[b][j].freed
                      /\ pc'[b] = "done" => Cause4' \/ \E j \in Ids : ac'[b][j].freed
    BY DEF WaitInv, Marked
  <2>1. /\ pc[b] \in {"free2", "freeLock", "freeWait"} => \E j \in Ids : ac[b][j].freed
        /\ pc[b] = "done" => Cause4 \/ \E j \in Ids : ac[b][j].freed
    BY DEF Inv, WaitInv, Marked
  <2>2. ASSUME NEW j \in Ids, ac[b][j].freed PROVE ac'[b][j].freed
    BY <1>e, <2>2
  <2> QED BY <1>e, <2>1 DEF Cause2, Cause4
<1> QED BY <1>1, <1>2, <1>3, <1>4, <1>5, <1>6, <1>7, <1>8, <1>9, <1>10, <1>11, <1>12, <1>13,
           <1>14, <1>15 DEF Inv

\* disconnectedCallback looks whether xRedisFree is under way.
LEMMA DiscCheckKeeps ==
    ASSUME Inv, discCheck
    PROVE  Inv'
<1> USE AcAssumption, AppAssumption, NullAssumption DEF Ael, Rcn, Threads, Ids
<1>1. Types'
  <2>1. Places'
    BY discCheck
       DEF Inv, Types, Places, round, Goto, LoopAt, discCheck, BusyLabels, AelLabels
  <2> QED BY discCheck, <2>1 DEF Inv, Types, Lists, round, discCheck
<1>2. LocksHeld'
  <2> SUFFICES ASSUME NEW l \in Locks, NEW t \in Threads
               PROVE  (owner[l] = t <=> Holds(l, t))'
    BY DEF LocksHeld
  <2> QED BY discCheck DEF Inv, LocksHeld, round, Goto, LoopAt, discCheck, Holds
<1>3. LoopInv'
  BY discCheck DEF Inv, LoopInv, Goto, LoopLive, LoopAt, discCheck, BusyLabels
<1>4. NumberInv'
  BY discCheck DEF Inv, NumberInv, round, Goto, discCheck, Marked
<1>5. AppInv'
  BY discCheck DEF Inv, AppInv, Goto, discCheck, Cause2, Cause4, Listed, Marked, AppOK
<1>6. CurInv'
  BY discCheck DEF Inv, CurInv, Goto, LoopAt, discCheck, Cause2, Cause4, CurIs, Torn, Marked
<1>7. StateInv'
  BY discCheck DEF Inv, StateInv, round, Goto, discCheck, Cause2, Cause4, Listed, Renewing
<1>8. RoundInv'
  BY discCheck DEF Inv, RoundInv, round, Goto, discCheck
<1>9. SingleInv'
  BY discCheck
     DEF Inv, SingleInv, round, Goto, LoopAt, discCheck, Cause2, Listed, CurIs, Torn, Live,
         Tearing, Renewing
<1>10. TornInv'
  BY discCheck
     DEF Inv, TornInv, round, Goto, LoopAt, discCheck, Cause2, Cause4, Listed, CurIs, Torn,
         Tearing, Renewing
<1>11. FreeListInv'
  BY discCheck DEF Inv, FreeListInv, discCheck, Cause2, Cause4, Marked
<1>12. MarkInv'
  BY discCheck DEF Inv, MarkInv, Goto, discCheck, Cause2, Cause4, CurIs, Torn, Live, Marked
<1>13. MarkListInv'
  BY discCheck DEF Inv, MarkListInv, LoopAt, discCheck, Cause2, Cause4, Listed, Marked
<1>14. MarkTearInv'
  BY discCheck
     DEF Inv, MarkTearInv, LoopAt, discCheck, Cause2, Cause4, CurIs, Marked, Tearing
<1>15. WaitInv'
  <2> SUFFICES ASSUME NEW b \in Apps
               PROVE  /\ pc'[b] \in {"free2", "freeLock", "freeWait"} =>
                           \E i \in Ids : ac'[b][i].freed
                      /\ pc'[b] = "done" => Cause4' \/ \E i \in Ids : ac'[b][i].freed
    BY DEF WaitInv, Marked
  <2>1. /\ pc[b] \in {"free2", "freeLock", "freeWait"} => \E i \in Ids : ac[b][i].freed
        /\ pc[b] = "done" => Cause4 \/ \E i \in Ids : ac[b][i].freed
    BY DEF Inv, WaitInv, Marked
  <2>2. ASSUME NEW i \in Ids, ac[b][i].freed PROVE ac'[b][i].freed
    BY discCheck, <2>2 DEF discCheck
  <2> QED BY discCheck, <2>1 DEF Goto, discCheck, Cause2, Cause4
<1> QED BY <1>1, <1>2, <1>3, <1>4, <1>5, <1>6, <1>7, <1>8, <1>9, <1>10, <1>11, <1>12, <1>13,
           <1>14, <1>15 DEF Inv

\* disconnectedCallback puts the connection on reconn_list.
LEMMA DiscScheduleKeeps ==
    ASSUME Inv, discSchedule
    PROVE  Inv'
<1> USE AcAssumption, AppAssumption, NullAssumption DEF Ael, Rcn, Threads, Ids
<1>o. 1 \in Ids
  OBVIOUS
<1>1. Types'
  <2>1. Places'
    BY discSchedule
       DEF Inv, Types, Places, round, Goto, LoopAt, discSchedule, BusyLabels, AelLabels
  <2>2. Lists'
    BY discSchedule
       DEF Inv, Types, LoopInv, Places, Lists, round, LoopLive, LoopAt, discSchedule,
           AelLabels
  <2> QED BY discSchedule, <2>1, <2>2 DEF Inv, Types, discSchedule
<1>2. LocksHeld'
  <2> SUFFICES ASSUME NEW l \in Locks, NEW t \in Threads
               PROVE  (owner[l] = t <=> Holds(l, t))'
    BY DEF LocksHeld
  <2> QED BY discSchedule DEF Inv, LocksHeld, Locks, Goto, Free, LoopAt, discSchedule, Holds
<1>3. LoopInv'
  BY discSchedule
     DEF Inv, Types, LoopInv, Places, Lists, Goto, LoopLive, LoopAt, discSchedule,
         BusyLabels
<1>4. NumberInv'
  BY discSchedule DEF Inv, NumberInv, round, Goto, discSchedule, Marked
<1>5. AppInv'
  BY discSchedule
     DEF Inv, Types, LoopInv, NumberInv, AppInv, CurInv, StateInv, Places, Goto, LoopLive,
         LoopAt, discSchedule, Cause2, Cause4, BusyLabels, Listed, CurIs, Marked, AppOK
<1>6. CurInv'
  BY discSchedule
     DEF Inv, CurInv, Goto, LoopAt, discSchedule, Cause2, Cause4, CurIs, Torn, Marked
<1>7. StateInv'
  BY discSchedule
     DEF Inv, Types, LoopInv, CurInv, StateInv, Places, round, Goto, LoopLive, LoopAt,
         discSchedule, Cause2, Cause4, BusyLabels, Listed, CurIs, Renewing
<1>8. RoundInv'
  BY discSchedule
     DEF Inv, Types, RoundInv, Places, Lists, round, Goto, LoopAt, discSchedule, BusyLabels
<1>9. SingleInv'
  BY discSchedule
     DEF Inv, Types, LoopInv, SingleInv, Places, round, Goto, LoopLive, LoopAt,
         discSchedule, Cause2, BusyLabels, Listed, CurIs, Torn, Live, Tearing, Renewing
<1>10. TornInv'
  <2> SUFFICES ASSUME NEW y \in Apps, NEW k \in Ids
               PROVE  /\ (Tearing(y, k) /\ Listed(y) => Cause2 \/ (pc[Rcn] = "wait" /\
                           Renewing(y, k)))'
                      /\ (Torn(y, k) /\ pc[y] = "wait" /\ k = 1 => Cause4)'
                      /\ (Torn(y, k) /\ pc[Rcn] = "wait" /\ Renewing(y, k) => Cause4)'
                      /\ (pc[y] = "wait" /\ ac[y][1].st = "dead" => Cause4)'
                      /\ (pc[Rcn] = "wait" /\ Renewing(y, k) /\ ac[y][k].st = "dead" => Cause4)'
                      /\ (Listed(y) /\ pc[y] = "wait" => Cause4)'
    BY DEF TornInv
  <2>1. (Tearing(y, k) /\ Listed(y) => Cause2 \/ (pc[Rcn] = "wait" /\ Renewing(y, k)))'
    BY discSchedule DEF Inv, Types, Places, Goto, discSchedule, Tearing
  <2>2. (Torn(y, k) /\ pc[y] = "wait" /\ k = 1 => Cause4)'
    BY discSchedule
       DEF Inv, TornInv, Goto, LoopAt, discSchedule, Cause2, Cause4, CurIs, Torn
  <2>3. (Torn(y, k) /\ pc[Rcn] = "wait" /\ Renewing(y, k) => Cause4)'
    BY discSchedule
       DEF Inv, TornInv, round, Goto, LoopAt, discSchedule, Cause2, Cause4, CurIs, Torn,
           Renewing
  <2>4. (pc[y] = "wait" /\ ac[y][1].st = "dead" => Cause4)'
    BY discSchedule DEF Inv, TornInv, Goto, discSchedule, Cause2, Cause4
  <2>5. (pc[Rcn] = "wait" /\ Renewing(y, k) /\ ac[y][k].st = "dead" => Cause4)'
    BY discSchedule DEF Inv, TornInv, round, Goto, discSchedule, Cause2, Cause4, Renewing
  <2>6. (Listed(y) /\ pc[y] = "wait" => Cause4)'
    <3>1. PICK x \in Apps, i \in Ids : cur = <<x, i>>
      BY discSchedule DEF discSchedule, LoopAt, Inv, Types, Places, Lists, BusyLabels
    <3>2. /\ Tearing(x, i) /\ pc'[y] = pc[y] /\ Cause4' = Cause4
          /\ Listed(y)' => Listed(y) \/ y = x
      BY <3>1, discSchedule DEF discSchedule, LoopAt, Goto, round, Tearing, CurIs, Cause2,
        Cause4, Listed, Inv, Types, Places, Lists, LoopInv, LoopLive, BusyLabels, Threads, Ael
    <3>3. pc[x] = "wait" => Cause4
      BY <3>2, TearingWaited
    <3>4. Listed(y) /\ pc[y] = "wait" => Cause4
      BY <1>o DEF Inv, TornInv
    <3>5. CASE y = x
      BY <3>2, <3>3, <3>5, Zenon
    <3>6. CASE y # x
      BY <3>2, <3>4, <3>6, Zenon
    <3> QED BY <3>5, <3>6
  <2> QED BY <2>1, <2>2, <2>3, <2>4, <2>5, <2>6
<1>11. FreeListInv'
  BY discSchedule DEF Inv, FreeListInv, discSchedule, Cause2, Cause4, Marked
<1>12. MarkInv'
  BY discSchedule
     DEF Inv, MarkInv, Goto, discSchedule, Cause2, Cause4, CurIs, Torn, Live, Marked
<1>13. MarkListInv'
  BY discSchedule
     DEF Inv, Types, LoopInv, CurInv, SingleInv, MarkListInv, MarkTearInv, Places, Goto,
         LoopLive, LoopAt, discSchedule, Cause2, Cause4, BusyLabels, Listed, CurIs, Live,
         Marked, Tearing
<1>14. MarkTearInv'
  BY discSchedule
     DEF Inv, MarkTearInv, LoopAt, discSchedule, Cause2, Cause4, CurIs, Marked, Tearing
<1>15. WaitInv'
  <2> SUFFICES ASSUME NEW b \in Apps
               PROVE  /\ pc'[b] \in {"free2", "freeLock", "freeWait"} =>
                           \E i \in Ids : ac'[b][i].freed
                      /\ pc'[b] = "done" => Cause4' \/ \E i \in Ids : ac'[b][i].freed
    BY DEF WaitInv, Marked
  <2>1. /\ pc[b] \in {"free2", "freeLock", "freeWait"} => \E i \in Ids : ac[b][i].freed
        /\ pc[b] = "done" => Cause4 \/ \E i \in Ids : ac[b][i].freed
    BY DEF Inv, WaitInv, Marked
  <2>2. ASSUME NEW i \in Ids, ac[b][i].freed PROVE ac'[b][i].freed
    BY discSchedule, <2>2 DEF discSchedule
  <2> QED BY discSchedule, <2>1 DEF Goto, discSchedule, Cause2, Cause4
<1> QED BY <1>1, <1>2, <1>3, <1>4, <1>5, <1>6, <1>7, <1>8, <1>9, <1>10, <1>11, <1>12, <1>13,
           <1>14, <1>15 DEF Inv

\* clearClient releases the event loop.
LEMMA ClearLoopKeeps ==
    ASSUME Inv, clearLoop
    PROVE  Inv'
<1> USE AcAssumption, AppAssumption, NullAssumption DEF Ael, Rcn, Threads, Ids
<1>1. Types'
  <2>1. Places'
    BY clearLoop DEF Inv, Types, Places, round, Goto, clearLoop, BusyLabels, AelLabels
  <2>3. aeloop' \in LoopStates
    <3>1. aeloop \in LoopStates
      BY DEF Inv, Types
    <3> QED BY <3>1, clearLoop DEF clearLoop, LoopStates
  <2> QED BY clearLoop, <2>1, <2>3 DEF Inv, Types, Lists, round, Locks, Lock, clearLoop
<1>2. LocksHeld'
  <2> SUFFICES ASSUME NEW l \in Locks, NEW t \in Threads
               PROVE  (owner[l] = t <=> Holds(l, t))'
    BY DEF LocksHeld
  <2> QED BY clearLoop
     DEF Inv, Types, LocksHeld, Places, round, Goto, Free, Lock, clearLoop, Holds,
         BusyLabels, AelLabels
<1>3. LoopInv'
  BY clearLoop
     DEF Inv, Types, LoopInv, Places, Goto, LoopLive, LoopAt, clearLoop, CauseEnd,
         BusyLabels
<1>4. RoundInv'
  BY clearLoop DEF Inv, RoundInv, round, Goto, clearLoop
<1>5. QuietStep
  <2>1. UNCHANGED <<xc, ac, reconn_list, free_ac_list, cur, visited, woken>> /\
          causes \subseteq causes'
    BY clearLoop DEF round, clearLoop
  <2>2. \A y \in Apps : pc'[y] = pc[y]
    BY clearLoop DEF Goto, clearLoop
  <2>3. \/ pc[Ael] \notin BusyLabels /\ pc'[Ael] \notin BusyLabels
        \/ pc'[Ael] = pc[Ael]
    BY clearLoop DEF Goto, LoopAt, clearLoop, BusyLabels
  <2>4. \/ {pc[Rcn], pc'[Rcn]} \cap {"raw", "register", "wait"} = {}
        \/ pc'[Rcn] = pc[Rcn]
    OBVIOUS
  <2> QED BY <2>1, <2>2, <2>3, <2>4 DEF QuietStep
<1> QED BY <1>1, <1>2, <1>3, <1>4, <1>5, QuietKeeps DEF Inv

\* clearClient releases the connections on reconn_list.
LEMMA ClearReconnListKeeps ==
    ASSUME Inv, clearReconnList, reconn_list # NULL,
           \A x \in reconn_list : Alive(x) /\ ~CtxGone(x)
    PROVE  Inv'
<1> USE AcAssumption, AppAssumption, NullAssumption DEF Ael, Rcn, Threads, Ids
<1>e. /\ pc[Ael] = "clear1" /\ Free("reconn") /\ reconn_list' = NULL
      /\ pc' = [pc EXCEPT ![Ael] = "clear2"]
      /\ UNCHANGED <<owner, aeloop, free_ac_list, cur, todo, visited, woken, causes>>
  BY ClearEffects
<1>x. /\ xc' \in [Apps -> Connections]
      /\ \A y \in Apps :
           /\ xc'[y].status = xc[y].status /\ xc'[y].last = xc[y].last
           /\ xc'[y].mem = IF y \in reconn_list THEN "freed" ELSE xc[y].mem
           /\ xc'[y].ctx = IF y \in reconn_list THEN 0 ELSE xc[y].ctx
  BY ClearEffects
<1>c. /\ ac' \in [Apps -> [Ids -> Contexts]]
      /\ \A y \in Apps, j \in Ids :
           /\ ac'[y][j].freed = ac[y][j].freed
           /\ ac'[y][j].st = IF y \in reconn_list /\ j = xc[y].ctx THEN "dead" ELSE ac[y][j].st
  BY ClearEffects
<1>1. Types'
  <2>1. Places'
    BY <1>e DEF Inv, Types, Places, BusyLabels, AelLabels
  <2>2. Lists'
    BY <1>e DEF Inv, Types, Lists
  <2> QED BY <1>e, <1>x, <1>c, <2>1, <2>2 DEF Inv, Types
<1>2. LocksHeld'
  <2> SUFFICES ASSUME NEW l \in Locks, NEW t \in Threads
               PROVE  (owner[l] = t <=> Holds(l, t))'
    BY DEF LocksHeld
  <2> QED BY <1>e DEF Inv, LocksHeld, Holds
<1>3. LoopInv'
  BY <1>e DEF Inv, Types, LoopInv, Places, CauseEnd, BusyLabels
<1>4. NumberInv'
  <2> SUFFICES ASSUME NEW y \in Apps
               PROVE  /\ (\A m \in Ids : ac[y][m].st = "none" <=> m > xc[y].last)'
                      /\ (\A m \in Ids : m > xc[y].last => ~Marked(y, m))'
                      /\ (xc[y].ctx # RAW => xc[y].ctx <= xc[y].last)'
                      /\ (xc[y].ctx = RAW => pc[Rcn] = "raw" /\ visited = y)'
                      /\ (pc[Rcn] = "raw" /\ visited = y => xc[y].last < MaxAc /\
                           xc[y].ctx = RAW)'
                      /\ (pc[Rcn] \in {"register", "wait"} /\ visited = y => xc[y].last >= 1)'
                      /\ (xc[y].ctx = 0 => xc[y].mem = "none" \/ "attach" \in causes \/
                           "stop" \in causes)'
    BY DEF NumberInv
  <2>1. (\A m \in Ids : ac[y][m].st = "none" <=> m > xc[y].last)'
    <3> SUFFICES ASSUME NEW m \in Ids
                 PROVE  ac'[y][m].st = "none" <=> m > xc'[y].last
      OBVIOUS
    <3>1. ac[y][m].st = "none" <=> m > xc[y].last
      BY DEF Inv, NumberInv
    <3>2. CASE y \in reconn_list /\ m = xc[y].ctx
      <4>1. m # RAW
        BY <3>2, \A x \in reconn_list : Alive(x) /\ ~CtxGone(x) DEF CtxGone
      <4>2. m <= xc[y].last /\ xc[y].last \in Nat
        BY <3>2, <4>1 DEF Inv, NumberInv, Types, Connections
      <4> QED BY <1>x, <1>c, <3>2, <4>2
    <3>3. CASE ~(y \in reconn_list /\ m = xc[y].ctx)
      BY <1>x, <1>c, <3>1, <3>3
    <3> QED BY <3>2, <3>3
  <2>2. (\A m \in Ids : m > xc[y].last => ~Marked(y, m))'
    BY <1>x, <1>c DEF Inv, Types, NumberInv, Places, Connections, Contexts, Marked
  <2>3. (xc[y].ctx # RAW => xc[y].ctx <= xc[y].last)'
    BY <1>x DEF Inv, NumberInv, AppInv, CurInv, StateInv, SingleInv, Connections
  <2>4. (xc[y].ctx = RAW => pc[Rcn] = "raw" /\ visited = y)'
    BY <1>e, <1>x DEF Inv, NumberInv, RAW
  <2>5. (pc[Rcn] = "raw" /\ visited = y => xc[y].last < MaxAc /\ xc[y].ctx = RAW)'
    BY <1>e, <1>x, \A x \in reconn_list : Alive(x) /\ ~CtxGone(x)
       DEF Inv, Types, NumberInv, CtxGone, Connections
  <2>6. (pc[Rcn] \in {"register", "wait"} /\ visited = y => xc[y].last >= 1)'
    BY <1>e, <1>x DEF Inv, NumberInv
  <2>7. (xc[y].ctx = 0 => xc[y].mem = "none" \/ "attach" \in causes \/ "stop" \in causes)'
    BY <1>e DEF Inv, LoopInv
  <2> QED BY <2>1, <2>2, <2>3, <2>4, <2>5, <2>6, <2>7
<1>5. AppInv'
  BY <1>e, <1>x, <1>c
     DEF Inv, Types, LoopInv, AppInv, Cause4, Connections, Contexts, Listed, Marked, AppOK
<1>6. CurInv'
  BY <1>e DEF CurInv, Torn
<1>7. StateInv'
  <2>1. /\ pc[Rcn] \notin {"register", "wait"} /\ pc'[Rcn] = pc[Rcn]
        /\ \A y \in Apps : pc'[y] = pc[y]
    BY <1>e DEF Inv, Types, Places, LocksHeld, Holds, Free, Locks
  <2>2. Cause4'
    BY <1>e DEF Inv, LoopInv, Cause4
  <2>3. \A y \in Apps, k \in Ids : ac'[y][k].st = "new" => ac[y][k].st = "new"
    BY <1>c
  <2> QED BY <2>1, <2>2, <2>3 DEF Inv, StateInv
<1>8. RoundInv'
  BY <1>e DEF Inv, LocksHeld, RoundInv, Locks, Free, Holds
<1>9. SingleInv'
  BY <1>e, <1>c
     DEF Inv, Types, LocksHeld, NumberInv, AppInv, RoundInv, SingleInv, Cause2, States,
         Contexts, Listed, CurIs, Torn, Live, Tearing, Renewing, AppOK
<1>10. TornInv'
  BY <1>e DEF Inv, LoopInv, TornInv, Cause4, Tearing
<1>11. FreeListInv'
  BY <1>e, <1>c, \A x \in reconn_list : Alive(x) /\ ~CtxGone(x)
     DEF Inv, LoopInv, StateInv, FreeListInv, Cause4, Marked
<1>12. MarkInv'
  BY <1>e, <1>x, <1>c
     DEF Inv, Types, LocksHeld, LoopInv, MarkInv, WaitInv, Cause4, Contexts, Marked
<1>13. MarkListInv'
  BY <1>e DEF MarkListInv, Listed
<1>14. MarkTearInv'
  BY <1>e DEF MarkTearInv, Tearing
<1>15. WaitInv'
  <2> SUFFICES ASSUME NEW b \in Apps
               PROVE  /\ pc'[b] \in {"free2", "freeLock", "freeWait"} =>
                           \E i \in Ids : ac'[b][i].freed
                      /\ pc'[b] = "done" => Cause4' \/ \E i \in Ids : ac'[b][i].freed
    BY DEF WaitInv, Marked
  <2>1. /\ pc[b] \in {"free2", "freeLock", "freeWait"} => \E i \in Ids : ac[b][i].freed
        /\ pc[b] = "done" => Cause4 \/ \E i \in Ids : ac[b][i].freed
    BY DEF Inv, WaitInv, Marked
  <2>2. ASSUME NEW i \in Ids, ac[b][i].freed PROVE ac'[b][i].freed
    BY <1>c, <2>2
  <2> QED BY <1>e, <2>1, <2>2 DEF Cause2, Cause4
<1> QED BY <1>1, <1>2, <1>3, <1>4, <1>5, <1>6, <1>7, <1>8, <1>9, <1>10, <1>11, <1>12, <1>13,
           <1>14, <1>15 DEF Inv

\* The reconnect thread looks whether the client has stopped.
LEMMA ReconnectCheckKeeps ==
    ASSUME Inv, reconnectCheck, LoopLive
    PROVE  Inv'
<1> USE AcAssumption, AppAssumption, NullAssumption DEF Ael, Rcn, Threads, Ids
<1>1. Types'
  <2>1. Places'
    BY reconnectCheck DEF Inv, Types, Places, Goto, reconnectCheck, RcnLabels
  <2> QED BY reconnectCheck, <2>1 DEF Inv, Types, Lists, round, reconnectCheck
<1>2. LocksHeld'
  <2> SUFFICES ASSUME NEW l \in Locks, NEW t \in Threads
               PROVE  (owner[l] = t <=> Holds(l, t))'
    BY DEF LocksHeld
  <2>1. owner[l] = t <=> Holds(l, t)
    BY DEF Inv, LocksHeld
  <2>2. \A u \in Threads : u # Rcn => pc'[u] = pc[u]
    BY reconnectCheck, LoopLive DEF Inv, Types, Places, round, Goto, LoopLive, RcnAt,
      reconnectCheck
  <2>3. CASE t = Rcn
    BY reconnectCheck, LoopLive, <2>1, <2>2, <2>3
       DEF Inv, Types, Places, Holds, Locks, round, Goto, LoopLive, RcnAt, reconnectCheck
  <2>4. CASE t # Rcn
    BY reconnectCheck, LoopLive, <2>1, <2>2, <2>4
       DEF Inv, Types, Places, Holds, Locks, round, Goto, LoopLive, RcnAt, reconnectCheck
  <2> QED BY <2>3, <2>4
<1>3. LoopInv'
  BY reconnectCheck DEF Inv, Types, LoopInv, Places, Goto, LoopLive, reconnectCheck
<1>4. RoundInv'
  BY reconnectCheck DEF Inv, Types, RoundInv, Places, Goto, reconnectCheck
<1>5. QuietStep
  <2>1. UNCHANGED <<xc, ac, reconn_list, free_ac_list, cur, visited, woken>> /\
          causes \subseteq causes'
    BY reconnectCheck DEF round, reconnectCheck
  <2>2. \A y \in Apps : pc'[y] = pc[y]
    BY reconnectCheck DEF Inv, Types, Places, Goto, reconnectCheck
  <2>3. \/ pc[Ael] \notin BusyLabels /\ pc'[Ael] \notin BusyLabels
        \/ pc'[Ael] = pc[Ael]
    BY reconnectCheck DEF Inv, Types, Places, Goto, reconnectCheck
  <2>4. \/ {pc[Rcn], pc'[Rcn]} \cap {"raw", "register", "wait"} = {}
        \/ pc'[Rcn] = pc[Rcn]
    OBVIOUS
  <2> QED BY <2>1, <2>2, <2>3, <2>4 DEF QuietStep
<1> QED BY <1>1, <1>2, <1>3, <1>4, <1>5, QuietKeeps DEF Inv

\* The reconnect thread begins a round over reconn_list.
LEMMA ReconnectRoundKeeps ==
    ASSUME Inv, reconnectRound, reconn_list # NULL
    PROVE  Inv'
<1> USE AcAssumption, AppAssumption, NullAssumption DEF Ael, Rcn, Threads, Ids
<1>1. Types'
  <2>1. Places'
    BY reconnectRound DEF Inv, Types, Places, Goto, reconnectRound, BusyLabels, RcnLabels
  <2>2. Lists'
    BY reconnectRound DEF Inv, Types, Lists, reconnectRound
  <2> QED BY reconnectRound, <2>1, <2>2 DEF Inv, Types, Locks, Lock, reconnectRound
<1>2. LocksHeld'
  <2> SUFFICES ASSUME NEW l \in Locks, NEW t \in Threads
               PROVE  (owner[l] = t <=> Holds(l, t))'
    BY DEF LocksHeld
  <2> QED BY reconnectRound
     DEF Inv, Types, LocksHeld, Places, Locks, Goto, Free, Lock, RcnAt, reconnectRound,
         Holds, AppLabels, AelLabels
<1>3. LoopInv'
  BY reconnectRound
     DEF Inv, Types, LoopInv, Places, Goto, LoopLive, RcnAt, reconnectRound, CauseEnd
<1>4. RoundInv'
  BY reconnectRound DEF Inv, Types, RoundInv, Places, Goto, reconnectRound
<1>5. QuietStep
  <2>1. UNCHANGED <<xc, ac, reconn_list, free_ac_list, cur, visited, woken>> /\
          causes \subseteq causes'
    BY reconnectRound DEF reconnectRound
  <2>2. \A y \in Apps : pc'[y] = pc[y]
    BY reconnectRound DEF Inv, Types, Places, Goto, reconnectRound
  <2>3. \/ pc[Ael] \notin BusyLabels /\ pc'[Ael] \notin BusyLabels
        \/ pc'[Ael] = pc[Ael]
    BY reconnectRound DEF Inv, Types, Places, Goto, reconnectRound
  <2>4. \/ {pc[Rcn], pc'[Rcn]} \cap {"raw", "register", "wait"} = {}
        \/ pc'[Rcn] = pc[Rcn]
    OBVIOUS
  <2> QED BY <2>1, <2>2, <2>3, <2>4 DEF QuietStep
<1> QED BY <1>1, <1>2, <1>3, <1>4, <1>5, QuietKeeps DEF Inv

\* The reconnect thread ends its round.
LEMMA ReconnectRoundEndKeeps ==
    ASSUME Inv, reconnectRoundEnd
    PROVE  Inv'
<1> USE AcAssumption, AppAssumption, NullAssumption DEF Ael, Rcn, Threads, Ids
<1>1. Types'
  <2>1. Places'
    BY reconnectRoundEnd DEF Inv, Types, Places, Goto, reconnectRoundEnd, RcnLabels
  <2> QED BY reconnectRoundEnd, <2>1
     DEF Inv, Types, Lists, round, Locks, Unlock, reconnectRoundEnd
<1>2. LocksHeld'
  <2> SUFFICES ASSUME NEW l \in Locks, NEW t \in Threads
               PROVE  (owner[l] = t <=> Holds(l, t))'
    BY DEF LocksHeld
  <2>1. owner[l] = t <=> Holds(l, t)
    BY DEF Inv, LocksHeld
  <2>2. \A u \in Threads : u # Rcn => pc'[u] = pc[u]
    BY reconnectRoundEnd DEF Inv, Types, Places, round, Goto, Unlock, RcnAt, reconnectRoundEnd
  <2>3. CASE t = Rcn
    BY reconnectRoundEnd, <2>1, <2>2, <2>3
       DEF Inv, Types, Places, Holds, Locks, round, Goto, Unlock, RcnAt, reconnectRoundEnd
  <2>4. CASE t # Rcn
    BY reconnectRoundEnd, <2>1, <2>2, <2>4
       DEF Inv, Types, Places, Holds, Locks, round, Goto, Unlock, RcnAt, reconnectRoundEnd
  <2> QED BY <2>3, <2>4
<1>3. LoopInv'
  BY reconnectRoundEnd DEF Inv, LoopInv, Goto, LoopLive, RcnAt, reconnectRoundEnd, CauseEnd
<1>4. RoundInv'
  BY reconnectRoundEnd DEF Inv, RoundInv, round, Goto, reconnectRoundEnd
<1>5. QuietStep
  <2>1. UNCHANGED <<xc, ac, reconn_list, free_ac_list, cur, visited, woken>> /\
          causes \subseteq causes'
    BY reconnectRoundEnd DEF round, reconnectRoundEnd
  <2>2. \A y \in Apps : pc'[y] = pc[y]
    BY reconnectRoundEnd DEF Goto, reconnectRoundEnd
  <2>3. \/ pc[Ael] \notin BusyLabels /\ pc'[Ael] \notin BusyLabels
        \/ pc'[Ael] = pc[Ael]
    BY reconnectRoundEnd DEF Goto, reconnectRoundEnd
  <2>4. \/ {pc[Rcn], pc'[Rcn]} \cap {"raw", "register", "wait"} = {}
        \/ pc'[Rcn] = pc[Rcn]
    OBVIOUS
  <2> QED BY <2>1, <2>2, <2>3, <2>4 DEF QuietStep
<1> QED BY <1>1, <1>2, <1>3, <1>4, <1>5, QuietKeeps DEF Inv

\* The reconnect thread passes a connection whose delay has not run out.
LEMMA ReconnectSkipKeeps ==
    ASSUME Inv, reconnectSkip
    PROVE  Inv'
<1> USE AcAssumption, AppAssumption, NullAssumption DEF Ael, Rcn, Threads, Ids
<1>f. PICK x \in todo :
        IF Alive(x)
          THEN /\ todo' = todo \ {x}
               /\ UNCHANGED <<pc, owner, aeloop, xc, ac, reconn_list, free_ac_list, cur,
                              visited, woken, causes>>
          ELSE Undefined("xc")
  BY reconnectSkip DEF reconnectSkip
<1>u. CASE ~Alive(x)
  BY <1>u, <1>f, UndefinedKeeps
<1> SUFFICES ASSUME Alive(x) PROVE Inv'
  BY <1>u
<1>e. pc[Rcn] = "visit" /\ x \in Apps
  BY reconnectSkip DEF reconnectSkip, RcnAt, Inv, Types, Places, Lists
<1>1. Types'
  <2>1. Places'
    BY <1>f DEF Inv, Types, Places
  <2>2. Lists'
    BY <1>f DEF Inv, Types, Lists
  <2> QED BY <1>f, <2>1, <2>2 DEF Inv, Types
<1>2. LocksHeld'
  <2> SUFFICES ASSUME NEW l \in Locks, NEW t \in Threads
               PROVE  (owner[l] = t <=> Holds(l, t))'
    BY DEF LocksHeld
  <2> QED BY <1>f DEF Inv, LocksHeld, Holds
<1>3. LoopInv'
  BY <1>f DEF Inv, LoopInv, LoopLive, CauseEnd
<1>4. RoundInv'
  BY <1>f DEF Inv, RoundInv
<1>5. QuietStep
  <2>1. UNCHANGED <<xc, ac, reconn_list, free_ac_list, cur, visited, woken>> /\
          causes \subseteq causes'
    BY <1>f
  <2>2. \A y \in Apps : pc'[y] = pc[y]
    BY <1>f
  <2>3. \/ pc[Ael] \notin BusyLabels /\ pc'[Ael] \notin BusyLabels
        \/ pc'[Ael] = pc[Ael]
    BY <1>f
  <2>4. \/ {pc[Rcn], pc'[Rcn]} \cap {"raw", "register", "wait"} = {}
        \/ pc'[Rcn] = pc[Rcn]
    OBVIOUS
  <2> QED BY <2>1, <2>2, <2>3, <2>4 DEF QuietStep
<1> QED BY <1>1, <1>2, <1>3, <1>4, <1>5, QuietKeeps DEF Inv

\* reconnectDis begins with a connection.
LEMMA ReconnectBeginKeeps ==
    ASSUME Inv, reconnectBegin
    PROVE  Inv'
<1> USE AcAssumption, AppAssumption, NullAssumption DEF Ael, Rcn, Threads, Ids
<1>e. PICK x \in Apps :
      /\ pc[Rcn] = "visit" /\ x \in todo
      /\ xc[x].mem = "live" /\ xc[x].last < MaxAc /\ Free(x)
      /\ owner' = [owner EXCEPT ![x] = Rcn]
      /\ xc' = [xc EXCEPT ![x].ctx = RAW]
      /\ todo' = todo \ {x} /\ visited' = x
      /\ pc' = [pc EXCEPT ![Rcn] = "raw"]
      /\ UNCHANGED <<aeloop, ac, reconn_list, free_ac_list, cur, woken, causes>>
  BY reconnectBegin DEF reconnectBegin, RcnAt, Alive, Lock, Goto, Inv, Types, Places, Lists
<1>x. /\ xc' \in [Apps -> Connections]
      /\ \A y \in Apps : y # x => xc'[y] = xc[y]
      /\ xc'[x].ctx = RAW
      /\ xc'[x].mem = xc[x].mem
      /\ xc'[x].status = xc[x].status
      /\ xc'[x].last = xc[x].last
  <2> DEFINE r == [xc[x] EXCEPT !.ctx = RAW]
  <2>1. xc[x] \in Connections
    BY DEF Inv, Types
  <2>2. r \in Connections /\ r.ctx = RAW /\ r.mem = xc[x].mem /\ r.status = xc[x].status /\
          r.last = xc[x].last
    BY <2>1, SetCtx DEF Connections
  <2>3. xc' = [xc EXCEPT ![x] = r]
    BY <1>e, <2>1 DEF Inv, Types
  <2> HIDE DEF r
  <2>4. xc \in [Apps -> Connections] /\ x \in Apps
    BY <1>e DEF Inv, Types
  <2>5. /\ xc' \in [Apps -> Connections]
        /\ \A y \in Apps : xc'[y] = IF y = x THEN r ELSE xc[y]
    BY <2>2, <2>3, <2>4, XcStep
  <2> QED BY <1>e, <2>2, <2>5
<1>1. Types'
  <2>1. Places'
    BY <1>e DEF Inv, Types, Places, RcnLabels
  <2>2. Lists'
    BY <1>e DEF Inv, Types, Lists
  <2> QED BY <1>e, <1>x, <2>1, <2>2 DEF Inv, Types, Locks
<1>2. LocksHeld'
  <2> SUFFICES ASSUME NEW l \in Locks, NEW t \in Threads
               PROVE  (owner[l] = t <=> Holds(l, t))'
    BY DEF LocksHeld
  <2>1. owner[l] = t <=> Holds(l, t)
    BY DEF Inv, LocksHeld
  <2>2. \A u \in Threads : u # Rcn => pc'[u] = pc[u]
    BY <1>e DEF Inv, Types, Places
  <2>3. CASE t = Rcn
    BY <1>e, <2>1, <2>2, <2>3
       DEF Inv, Types, Places, Holds, Locks
  <2>4. CASE t # Rcn
    <3>1. owner'[l] = IF l = x THEN Rcn ELSE owner[l]
      BY <1>e DEF Inv, Types, Locks
    <3>2. owner[x] = NULL
      BY <1>e DEF Free
    <3>3. Holds(l, t)' = Holds(l, t)
      BY <2>2, <2>4 DEF Holds
    <3> QED BY <2>1, <2>4, <3>1, <3>2, <3>3
  <2> QED BY <2>3, <2>4
<1>3. LoopInv'
  BY <1>e DEF Inv, LoopInv, LoopLive, CauseEnd
<1>4. NumberInv'
  BY <1>e DEF Inv, Types, NumberInv, Places, RAW, Marked
<1>5. AppInv'
  BY <1>e DEF Inv, AppInv, RoundInv, Cause2, Cause4, Listed, Marked, AppOK
<1>6. CurInv'
  BY <1>e DEF Inv, CurInv, Cause2, Cause4, CurIs, Torn, Marked
<1>7. StateInv'
  BY <1>e DEF Inv, StateInv, Cause2, Cause4, Listed
<1>8. RoundInv'
  BY <1>e DEF Inv, RoundInv
<1>9. SingleInv'
  BY <1>e DEF Inv, SingleInv, Cause2, Listed, CurIs, Torn, Live, Tearing, Renewing
<1>10. TornInv'
  BY <1>e DEF Inv, TornInv, Cause2, Cause4, Listed, CurIs, Torn, Tearing
<1>11. FreeListInv'
  BY <1>e DEF Inv, FreeListInv, Cause2, Cause4, Marked
<1>12. MarkInv'
  BY <1>e DEF Inv, MarkInv, Cause2, Cause4, CurIs, Torn, Live, Marked
<1>13. MarkListInv'
  BY <1>e DEF Inv, MarkListInv, Cause2, Cause4, Listed, CurIs, Marked
<1>14. MarkTearInv'
  BY <1>e DEF Inv, MarkTearInv, Cause2, Cause4, CurIs, Marked, Tearing
<1>15. WaitInv'
  <2> SUFFICES ASSUME NEW b \in Apps
               PROVE  /\ pc'[b] \in {"free2", "freeLock", "freeWait"} =>
                           \E i \in Ids : ac'[b][i].freed
                      /\ pc'[b] = "done" => Cause4' \/ \E i \in Ids : ac'[b][i].freed
    BY DEF WaitInv, Marked
  <2>1. /\ pc[b] \in {"free2", "freeLock", "freeWait"} => \E i \in Ids : ac[b][i].freed
        /\ pc[b] = "done" => Cause4 \/ \E i \in Ids : ac[b][i].freed
    BY DEF Inv, WaitInv, Marked
  <2>2. ASSUME NEW i \in Ids, ac[b][i].freed PROVE ac'[b][i].freed
    BY <1>e, <2>2
  <2> QED BY <1>e, <2>1 DEF Cause2, Cause4
<1> QED BY <1>1, <1>2, <1>3, <1>4, <1>5, <1>6, <1>7, <1>8, <1>9, <1>10, <1>11, <1>12, <1>13,
           <1>14, <1>15 DEF Inv

\* reconnectDis gives the connection a new context.
LEMMA ReconnectInitializeKeeps ==
    ASSUME Inv, reconnectInitialize
    PROVE  Inv'
<1> USE AcAssumption, AppAssumption, NullAssumption DEF Ael, Rcn, Threads, Ids
<1>o. 1 \in Ids
  OBVIOUS
<1>f. PICK x \in Apps, i \in Ids : x = visited /\ i = xc[x].last + 1
  BY reconnectInitialize DEF reconnectInitialize, RcnAt, Inv, Types, Places, Lists, NumberInv,
    Connections, Ids
<1>e. /\ pc[Rcn] = "raw" /\ x = visited /\ i = xc[x].last + 1
      /\ xc' = [xc EXCEPT ![x] = [@ EXCEPT !.ctx = i, !.last = i]]
      /\ AcSet(x, i, "new")
      /\ pc' = [pc EXCEPT ![Rcn] = "register"]
      /\ UNCHANGED <<owner, aeloop, reconn_list, free_ac_list, cur, todo, visited, woken,
           causes>>
  BY <1>f, reconnectInitialize DEF reconnectInitialize, RcnAt, Goto, round
<1>x. /\ xc' \in [Apps -> Connections]
      /\ \A y \in Apps : y # x => xc'[y] = xc[y]
      /\ xc'[x].ctx = i
      /\ xc'[x].last = i
      /\ xc'[x].mem = xc[x].mem
      /\ xc'[x].status = xc[x].status
  <2> DEFINE r == Renumber(xc[x], i)
  <2>1. xc[x] \in Connections
    BY <1>f DEF Inv, Types
  <2>2. r \in Connections /\ r.ctx = i /\ r.last = i /\ r.mem = xc[x].mem /\
          r.status = xc[x].status
    BY <1>f, <2>1, SetNumber
  <2>3. xc' = [xc EXCEPT ![x] = r]
    BY <1>e, <2>1 DEF Inv, Types, Renumber
  <2> HIDE DEF r
  <2>4. /\ xc' \in [Apps -> Connections]
        /\ \A y \in Apps : xc'[y] = IF y = x THEN r ELSE xc[y]
    BY <1>f, <2>2, <2>3, XcStep DEF Inv, Types
  <2> QED BY <1>f, <2>2, <2>4
<1>c. /\ ac' \in [Apps -> [Ids -> Contexts]]
      /\ \A y \in Apps, j \in Ids :
           /\ ac'[y][j].freed = ac[y][j].freed
           /\ ac'[y][j].st = IF y = x /\ j = i THEN "new" ELSE ac[y][j].st
  <2>1. x \in Apps /\ i \in Ids /\ "new" \in States
    BY <1>f DEF States
  <2>2. ac \in [Apps -> [Ids -> Contexts]] /\ AcSet(x, i, "new")
    BY <1>e DEF Inv, Types
  <2> HIDE DEF Ael, Rcn, Threads, Ids
  <2> QED BY <2>1, <2>2, AcStep
<1>v. /\ \A y \in Apps, k \in Ids :
           /\ Live(y, k)' <=> (Live(y, k) \/ (y = x /\ k = i))
           /\ Tearing(y, k)' = Tearing(y, k) /\ Torn(y, k)' = Torn(y, k)
           /\ Renewing(y, k)' <=> (y = x /\ k = i)
           /\ ~Renewing(y, k) /\ Marked(y, k)' = Marked(y, k)
      /\ \A y \in Apps : Listed(y)' = Listed(y)
      /\ Cause2' = Cause2 /\ Cause4' = Cause4 /\ Listed(x) /\ ~Live(x, i) /\ ~Marked(x, i)
      /\ pc'[Ael] = pc[Ael] /\ pc'[Rcn] = "register" /\ \A y \in Apps : pc'[y] = pc[y]
  <2>1. pc'[Ael] = pc[Ael] /\ pc'[Rcn] = "register" /\ \A y \in Apps : pc'[y] = pc[y]
    BY <1>e DEF Inv, Types, Places
  <2>2. ac[x][i].st = "none" /\ ~Marked(x, i)
    <3>1. xc[x].last \in Nat
      BY <1>f DEF Inv, Types, Connections
    <3> QED BY <1>e, <1>f, <3>1 DEF Inv, NumberInv
  <2>3. \A y \in Apps, k \in Ids :
          /\ Tearing(y, k)' = Tearing(y, k) /\ Torn(y, k)' = Torn(y, k)
          /\ ~Renewing(y, k) /\ Marked(y, k)' = Marked(y, k)
    BY <1>e, <1>c, <2>1 DEF Tearing, Torn, CurIs, Renewing, Marked
  <2>4. \A y \in Apps, k \in Ids : Renewing(y, k)' <=> (y = x /\ k = i)
    BY <1>e, <1>f, <1>x, <2>1 DEF Renewing
  <2>5. ~Torn(x, i)
    BY <1>f, <2>2 DEF Inv, CurInv, Torn
  <2>6. \A y \in Apps, k \in Ids : Live(y, k)' <=> (Live(y, k) \/ (y = x /\ k = i))
    BY <1>c, <2>2, <2>3, <2>5 DEF Live
  <2>7. /\ \A y \in Apps : Listed(y)' = Listed(y)
        /\ Cause2' = Cause2 /\ Cause4' = Cause4 /\ Listed(x) /\ ~Live(x, i)
    BY <1>e, <1>f, <2>2 DEF Listed, Cause2, Cause4, Live, Inv, RoundInv
  <2> QED BY <2>1, <2>2, <2>3, <2>4, <2>6, <2>7
<1>n. /\ ac[x][i].st = "none" /\ pc[Rcn] = "raw" /\ visited = x
      /\ xc[x].last \in Nat /\ i = xc[x].last + 1 /\ xc[x].last >= 0
  <2>1. xc[x].last \in Nat
    BY <1>f DEF Inv, Types, Connections
  <2> QED BY <1>e, <1>f, <2>1 DEF Inv, NumberInv
<1>m. \A y \in Apps, k \in Ids : ac'[y][k].st = IF y = x /\ k = i THEN "new" ELSE ac[y][k].st
  BY <1>c
<1>b. \A y \in Apps : xc'[y].mem = xc[y].mem /\ xc'[y].status = xc[y].status
  BY <1>x
<1>1. Types'
  <2>1. Places'
    BY <1>e, <1>v, <1>n DEF Inv, Types, Places, RcnLabels
  <2> QED BY <1>f, <1>e, <1>x, <1>c, <2>1
     DEF Inv, Types, Lists, Locks, RAW, States, Status, Connections, Contexts, LoopStates
<1>2. LocksHeld'
  <2> SUFFICES ASSUME NEW l \in Locks, NEW t \in Threads PROVE Holds(l, t)' = Holds(l, t)
    BY <1>e DEF Inv, LocksHeld
  <2>1. CASE t = Rcn
    BY <1>e, <1>v, <1>n, <2>1 DEF Holds, Locks
  <2>2. CASE t # Rcn
    <3>1. pc'[t] = pc[t]
      BY <1>v, <2>2
    <3> QED BY <2>2, <3>1 DEF Holds
  <2> QED BY <2>1, <2>2
<1>3. LoopInv'
  BY <1>e, <1>v, <1>n DEF Inv, LoopInv, LoopLive, CauseEnd
<1>4. NumberInv'
  <2> SUFFICES ASSUME NEW y \in Apps
               PROVE  /\ \A k \in Ids : ac'[y][k].st = "none" <=> k > xc'[y].last
                      /\ \A k \in Ids : k > xc'[y].last => ~Marked(y, k)
                      /\ xc'[y].ctx # RAW => xc'[y].ctx <= xc'[y].last
                      /\ ~(xc'[y].ctx = RAW)
                      /\ visited = y => xc'[y].last >= 1
                      /\ xc'[y].ctx = 0 => xc[y].mem = "none" \/ "attach" \in causes \/
                           "stop" \in causes
    BY <1>e, <1>v, <1>b DEF NumberInv
  <2>1. CASE y = x
    <3>1. xc'[y].last = i /\ xc'[y].ctx = i
      BY <1>x, <2>1
    <3>2. i # RAW /\ i # 0 /\ i \in Nat
      BY AcAssumption DEF RAW
    <3>3. /\ \A k \in Ids : ac[y][k].st = "none" <=> k > xc[x].last
          /\ \A k \in Ids : k > xc[x].last => ~Marked(y, k)
      BY <2>1 DEF Inv, NumberInv
    <3>4. \A k \in Ids : k > i <=> k > xc[x].last /\ k # i
      BY <1>n
    <3> QED BY <1>m, <2>1, <3>1, <3>2, <3>3, <3>4
  <2>2. CASE y # x
    <3>1. xc'[y] = xc[y] /\ \A k \in Ids : ac'[y][k].st = ac[y][k].st
      BY <1>x, <1>m, <2>2
    <3> QED BY <1>n, <2>2, <3>1 DEF Inv, NumberInv
  <2> QED BY <2>1, <2>2
<1>5. AppInv'
  <2> SUFFICES ASSUME NEW y \in Apps PROVE AppOK(y)'
    BY DEF AppInv
  <2>1. AppOK(y)
    BY DEF Inv, AppInv
  <2>2. CASE y = x
    <3>1. pc[y] \notin {"idle", "clear2", "register"}
      BY <1>v, <2>1, <2>2 DEF AppOK
    <3>2. xc'[y].last >= 1
      BY <1>x, <2>2
    <3> QED BY <1>e, <1>b, <1>v, <2>1, <3>1, <3>2 DEF AppOK
  <2>3. CASE y # x
    <3>1. xc'[y] = xc[y] /\ \A k \in Ids : ac'[y][k].st = ac[y][k].st
      BY <1>x, <1>m, <2>3
    <3> QED BY <1>e, <1>o, <1>v, <2>1, <3>1 DEF AppOK
  <2> QED BY <2>2, <2>3
<1>6. CurInv'
  <2> SUFFICES ASSUME NEW y \in Apps, NEW k \in Ids, CurIs(y, k)
               PROVE  /\ pc[Ael] \in {"connOK", "connErr"} => ac'[y][k].st = "connecting"
                      /\ pc[Ael] \in {"disc1", "disc2", "disc3"} => ac'[y][k].st = "connected"
                      /\ pc[Ael] = "acFree" => ac'[y][k].st \in {"connecting", "connected"}
                      /\ pc[Ael] = "dealFree" =>
                           /\ ac'[y][k].st \in {"new", "connecting", "connected"}
                           /\ Marked(y, k) /\ <<y, k>> \notin free_ac_list
                      /\ pc[Ael] \in {"disc2", "disc3"} => xc[y].status = "disconnecting" \/
                           Cause4
                      /\ pc[Ael] = "connErr" => "attach" \in causes
                      /\ pc[Ael] = "acFree" /\ ac'[y][k].st = "connecting" =>
                           "attach" \in causes
                      /\ Torn(y, k) /\ Marked(y, k) => Cause4
    BY <1>e, <1>v, <1>b DEF CurInv, CurIs
  <2>1. CASE y = x /\ k = i
    <3>1. pc[Ael] \notin BusyLabels
      BY <1>n, <2>1 DEF Inv, CurInv, BusyLabels
    <3> QED BY <3>1 DEF BusyLabels, Torn
  <2>2. CASE ~(y = x /\ k = i)
    <3>1. ac'[y][k].st = ac[y][k].st
      BY <1>m, <2>2
    <3> QED BY <3>1 DEF Inv, CurInv
  <2> QED BY <2>1, <2>2
<1>7. StateInv'
  <2> SUFFICES ASSUME NEW y \in Apps, NEW k \in Ids
               PROVE  /\ ac'[y][k].st = "new" => (k = 1 /\ pc[y] = "register") \/ (y = x /\
                           k = i)
                      /\ y = x /\ k = i => ac'[y][k].st = "new"
                      /\ ac'[y][k].st = "connecting" => (k = 1 /\ pc[y] = "wait") \/ Cause4
                      /\ ac'[y][k].st = "connecting" /\ xc[y].status = "connected" => Cause4
                      /\ Listed(y) /\ xc[y].status = "connected" => Cause4
    BY <1>b, <1>v DEF StateInv
  <2>1. Listed(y) /\ xc[y].status = "connected" => Cause4
    BY <1>n DEF Inv, StateInv
  <2>2. CASE y = x /\ k = i
    BY <1>m, <2>1, <2>2
  <2>3. CASE ~(y = x /\ k = i)
    <3>1. ac'[y][k].st = ac[y][k].st
      BY <1>m, <2>3
    <3> QED BY <1>n, <2>1, <2>3, <3>1 DEF Inv, StateInv
  <2> QED BY <2>2, <2>3
<1>8. RoundInv'
  BY <1>e, <1>v, <1>n DEF Inv, RoundInv
<1>9. SingleInv'
  <2>1. ASSUME NEW y \in Apps, NEW k \in Ids, Live(y, k) PROVE y = x => Cause2
    BY <2>1, <1>v DEF Inv, SingleInv
  <2>2. ASSUME NEW k \in Ids, Tearing(x, k) PROVE Cause2
    BY <2>2, <1>e, <1>v, <1>f DEF Inv, TornInv
  <2> QED BY <1>v, <2>1, <2>2 DEF Inv, SingleInv
<1>10. TornInv'
  <2>1. \A y \in Apps, k \in Ids : ac'[y][k].st = "dead" => ac[y][k].st = "dead"
    BY <1>m
  <2> QED BY <1>o, <1>v, <1>n, <2>1 DEF Inv, TornInv
<1>11. FreeListInv'
  <2>1. \A y \in Apps, k \in Ids : ac'[y][k].st = "dead" => ac[y][k].st = "dead"
    BY <1>m
  <2> QED BY <1>e, <1>v, <2>1 DEF Inv, FreeListInv
<1>12. MarkInv'
  <2> SUFFICES ASSUME NEW y \in Apps, NEW m \in Ids, Marked(y, m)
               PROVE  /\ pc[y] \in {"free2", "freeLock", "freeWait", "done"}
                      /\ ac'[y][m].st \in {"new", "connecting"} => Cause4
                      /\ (y \in woken /\ pc[y] = "freeWait") \/ pc[y] = "done" =>
                           Cause4 \/ ac'[y][m].st = "dead"
                      /\ \A k \in Ids : k # m => ~Marked(y, k) /\ (Live(y, k)' => Cause4)
    BY <1>e, <1>v DEF MarkInv
  <2>1. ac'[y][m].st = ac[y][m].st
    BY <1>m, <1>v
  <2>2. y = x => Cause4
    BY <1>v DEF Inv, MarkListInv
  <2> QED BY <1>v, <2>1, <2>2 DEF Inv, MarkInv
<1>13. MarkListInv'
  <2> SUFFICES ASSUME NEW y \in Apps, NEW k \in Ids, Marked(y, k), Listed(y)
               PROVE  /\ Cause4
                      /\ ac'[y][k].st # "dead" => Cause2 \/ (pc[Ael] = "acFree" /\ CurIs(y, k))
    BY <1>e, <1>v DEF MarkListInv, CurIs
  <2>1. ac'[y][k].st = ac[y][k].st
    BY <1>m, <1>v
  <2> QED BY <2>1 DEF Inv, MarkListInv
<1>14. MarkTearInv'
  BY <1>v, <1>c DEF Inv, MarkTearInv
<1>15. WaitInv'
  <2> SUFFICES ASSUME NEW b \in Apps
               PROVE  /\ pc'[b] \in {"free2", "freeLock", "freeWait"} =>
                           \E j \in Ids : ac'[b][j].freed
                      /\ pc'[b] = "done" => Cause4' \/ \E j \in Ids : ac'[b][j].freed
    BY DEF WaitInv, Marked
  <2>1. /\ pc[b] \in {"free2", "freeLock", "freeWait"} => \E j \in Ids : ac[b][j].freed
        /\ pc[b] = "done" => Cause4 \/ \E j \in Ids : ac[b][j].freed
    BY DEF Inv, WaitInv, Marked
  <2>2. ASSUME NEW j \in Ids PROVE ac'[b][j].freed = ac[b][j].freed
    BY <1>c
  <2>3. pc'[b] = pc[b]
    BY <1>e DEF Inv, Types, Places, Lists, Threads, Rcn
  <2>4. Cause4' = Cause4
    BY <1>e DEF Cause4, Cause2
  <2> QED BY <2>1, <2>2, <2>3, <2>4
<1> QED BY <1>1, <1>2, <1>3, <1>4, <1>5, <1>6, <1>7, <1>8, <1>9, <1>10, <1>11, <1>12, <1>13,
           <1>14, <1>15 DEF Inv

\* The wait of reconnectDis ends with the connection up.
LEMMA ReconnectUpKeeps ==
    ASSUME Inv, reconnectEnd, AcLive(visited, xc[visited].last), Attached(visited)
    PROVE  Inv'
<1> USE AcAssumption, AppAssumption, NullAssumption DEF Ael, Rcn, Threads, Ids
<1>f. PICK x \in Apps : x = visited /\ xc[x].last \in Ids
  BY reconnectEnd DEF reconnectEnd, RcnAt, Inv, Types, Places, Lists, NumberInv, Connections,
    Ids
<1>e. /\ pc[Rcn] = "wait" /\ x = visited /\ Free(x)
      /\ ac[x][xc[x].last].st # "dead"
      /\ woken' = woken \ {Rcn}
      /\ visited' = NULL
      /\ pc' = [pc EXCEPT ![Rcn] = "visit"]
      /\ xc[x].status = "connected"
      /\ reconn_list' = reconn_list \ {x}
      /\ UNCHANGED <<owner, aeloop, xc, ac, free_ac_list, cur, todo, causes>>
  BY <1>f, reconnectEnd, AcLive(visited, xc[visited].last), Attached(visited)
     DEF reconnectEnd, RcnAt, AcLive, Attached, Goto
<1>1. Types'
  <2>1. Places'
    BY <1>e DEF Inv, Types, Places, RcnLabels
  <2>2. Lists'
    BY <1>e DEF Inv, Types, RoundInv, Lists
  <2> QED BY <1>e, <2>1, <2>2 DEF Inv, Types
<1>2. LocksHeld'
  <2> SUFFICES ASSUME NEW l \in Locks, NEW t \in Threads
               PROVE  (owner[l] = t <=> Holds(l, t))'
    BY DEF LocksHeld
  <2>1. owner[l] = t <=> Holds(l, t)
    BY DEF Inv, LocksHeld
  <2>2. \A u \in Threads : u # Rcn => pc'[u] = pc[u]
    BY <1>f, <1>e DEF Inv, Types, Places
  <2>3. CASE t = Rcn
    BY <1>f, <1>e, <2>1, <2>2, <2>3
       DEF Inv, Types, Places, Holds, Locks
  <2>4. CASE t # Rcn
    BY <1>f, <1>e, <2>1, <2>2, <2>4
       DEF Inv, Types, Places, Holds, Locks
  <2> QED BY <2>3, <2>4
<1>3. LoopInv'
  BY <1>e DEF Inv, Types, LoopInv, Lists, LoopLive, CauseEnd
<1>4. NumberInv'
  BY <1>e DEF Inv, NumberInv, Marked
<1>5. AppInv'
  BY <1>e DEF Inv, AppInv, RoundInv, Cause2, Cause4, Listed, Marked, AppOK
<1>6. CurInv'
  BY <1>e DEF Inv, CurInv, Cause2, Cause4, CurIs, Torn, Marked
<1>7. StateInv'
  BY <1>e DEF Inv, StateInv, RoundInv, Cause2, Cause4, Listed, Renewing
<1>8. RoundInv'
  BY <1>e DEF Inv, Types, RoundInv, Places, Lists
<1>9. SingleInv'
  BY <1>e DEF Inv, RoundInv, SingleInv, Cause2, Listed, CurIs, Torn, Live, Tearing, Renewing
<1>10. TornInv'
  BY <1>e DEF Inv, RoundInv, TornInv, Cause2, Cause4, Listed, CurIs, Torn, Tearing, Renewing
<1>11. FreeListInv'
  BY <1>e DEF Inv, FreeListInv, Cause2, Cause4, Marked
<1>12. MarkInv'
  BY <1>e DEF Inv, MarkInv, Cause2, Cause4, CurIs, Torn, Live, Marked
<1>13. MarkListInv'
  BY <1>e DEF Inv, RoundInv, MarkListInv, Cause2, Cause4, Listed, CurIs, Marked
<1>14. MarkTearInv'
  BY <1>e DEF Inv, MarkTearInv, Cause2, Cause4, CurIs, Marked, Tearing
<1>15. WaitInv'
  <2> SUFFICES ASSUME NEW b \in Apps
               PROVE  /\ pc'[b] \in {"free2", "freeLock", "freeWait"} =>
                           \E i \in Ids : ac'[b][i].freed
                      /\ pc'[b] = "done" => Cause4' \/ \E i \in Ids : ac'[b][i].freed
    BY DEF WaitInv, Marked
  <2>1. /\ pc[b] \in {"free2", "freeLock", "freeWait"} => \E i \in Ids : ac[b][i].freed
        /\ pc[b] = "done" => Cause4 \/ \E i \in Ids : ac[b][i].freed
    BY DEF Inv, WaitInv, Marked
  <2>2. ASSUME NEW i \in Ids, ac[b][i].freed PROVE ac'[b][i].freed
    BY <1>e, <2>2
  <2> QED BY <1>e, <2>1 DEF Cause2, Cause4
<1> QED BY <1>1, <1>2, <1>3, <1>4, <1>5, <1>6, <1>7, <1>8, <1>9, <1>10, <1>11, <1>12, <1>13,
           <1>14, <1>15 DEF Inv

\* The wait of reconnectDis ends without a connection.
LEMMA ReconnectDownKeeps ==
    ASSUME Inv, reconnectEnd, AcLive(visited, xc[visited].last), ~Attached(visited)
    PROVE  Inv'
<1> USE AcAssumption, AppAssumption, NullAssumption DEF Ael, Rcn, Threads, Ids
<1>f. PICK x \in Apps : x = visited /\ xc[x].last \in Ids
  BY reconnectEnd DEF reconnectEnd, RcnAt, Inv, Types, Places, Lists, NumberInv, Connections,
    Ids
<1>e. /\ pc[Rcn] = "wait" /\ x = visited /\ Free(x)
      /\ ac[x][xc[x].last].st # "dead"
      /\ woken' = woken \ {Rcn}
      /\ visited' = NULL
      /\ pc' = [pc EXCEPT ![Rcn] = "visit"]
      /\ xc[x].status # "connected"
      /\ xc' = [xc EXCEPT ![x].ctx = 0]
      /\ causes' = causes \cup {"attach"}
      /\ UNCHANGED <<owner, aeloop, ac, reconn_list, free_ac_list, cur, todo>>
  BY <1>f, reconnectEnd, AcLive(visited, xc[visited].last), ~Attached(visited)
     DEF reconnectEnd, RcnAt, AcLive, Attached, Goto
<1>x. /\ xc' \in [Apps -> Connections]
      /\ \A y \in Apps : y # x => xc'[y] = xc[y]
      /\ xc'[x].ctx = 0
      /\ xc'[x].mem = xc[x].mem
      /\ xc'[x].status = xc[x].status
      /\ xc'[x].last = xc[x].last
  <2> DEFINE r == [xc[x] EXCEPT !.ctx = 0]
  <2>1. xc[x] \in Connections
    BY <1>f DEF Inv, Types
  <2>2. r \in Connections /\ r.ctx = 0 /\ r.mem = xc[x].mem /\ r.status = xc[x].status /\
          r.last = xc[x].last
    BY <2>1, SetCtx DEF Connections
  <2>3. xc' = [xc EXCEPT ![x] = r]
    BY <1>e, <2>1 DEF Inv, Types
  <2> HIDE DEF r
  <2>4. /\ xc' \in [Apps -> Connections]
        /\ \A y \in Apps : xc'[y] = IF y = x THEN r ELSE xc[y]
    BY <1>f, <2>2, <2>3, XcStep DEF Inv, Types
  <2> QED BY <1>f, <2>2, <2>4
<1>1. Types'
  <2>1. Places'
    BY <1>e DEF Inv, Types, Places, RcnLabels
  <2> QED BY <1>e, <1>x, <2>1 DEF Inv, Types, Lists
<1>2. LocksHeld'
  <2> SUFFICES ASSUME NEW l \in Locks, NEW t \in Threads
               PROVE  (owner[l] = t <=> Holds(l, t))'
    BY DEF LocksHeld
  <2>1. owner[l] = t <=> Holds(l, t)
    BY DEF Inv, LocksHeld
  <2>2. \A u \in Threads : u # Rcn => pc'[u] = pc[u]
    BY <1>f, <1>e DEF Inv, Types, Places
  <2>3. CASE t = Rcn
    BY <1>f, <1>e, <2>1, <2>2, <2>3
       DEF Inv, Types, Places, Holds, Locks
  <2>4. CASE t # Rcn
    BY <1>f, <1>e, <2>1, <2>2, <2>4
       DEF Inv, Types, Places, Holds, Locks
  <2> QED BY <2>3, <2>4
<1>3. LoopInv'
  BY <1>e DEF Inv, LoopInv, LoopLive, CauseEnd
<1>4. NumberInv'
  BY <1>f, <1>e DEF Inv, NumberInv, RAW, Marked
<1>5. AppInv'
  BY <1>e DEF Inv, AppInv, RoundInv, Cause2, Cause4, Listed, Marked, AppOK
<1>6. CurInv'
  BY <1>e DEF Inv, CurInv, Cause2, Cause4, CurIs, Marked
<1>7. StateInv'
  BY <1>e DEF Inv, StateInv, Cause2, Cause4
<1>8. RoundInv'
  BY <1>e DEF Inv, Types, RoundInv, Places
<1>9. SingleInv'
  BY <1>e DEF SingleInv, Cause2
<1>10. TornInv'
  BY <1>e DEF TornInv, Cause2, Cause4
<1>11. FreeListInv'
  BY <1>e DEF Inv, FreeListInv, Cause2, Cause4, Marked
<1>12. MarkInv'
  BY <1>e DEF Inv, MarkInv, Cause2, Cause4, Marked
<1>13. MarkListInv'
  BY <1>e DEF MarkListInv, Cause2, Cause4
<1>14. MarkTearInv'
  BY <1>e DEF MarkTearInv, Cause2, Cause4
<1>15. WaitInv'
  <2> SUFFICES ASSUME NEW b \in Apps
               PROVE  /\ pc'[b] \in {"free2", "freeLock", "freeWait"} =>
                           \E i \in Ids : ac'[b][i].freed
                      /\ pc'[b] = "done" => Cause4' \/ \E i \in Ids : ac'[b][i].freed
    BY DEF WaitInv, Marked
  <2>1. /\ pc[b] \in {"free2", "freeLock", "freeWait"} => \E i \in Ids : ac[b][i].freed
        /\ pc[b] = "done" => Cause4 \/ \E i \in Ids : ac[b][i].freed
    BY DEF Inv, WaitInv, Marked
  <2>2. ASSUME NEW i \in Ids, ac[b][i].freed PROVE ac'[b][i].freed
    BY <1>e, <2>2
  <2> QED BY <1>e, <2>1 DEF Cause2, Cause4
<1> QED BY <1>1, <1>2, <1>3, <1>4, <1>5, <1>6, <1>7, <1>8, <1>9, <1>10, <1>11, <1>12, <1>13,
           <1>14, <1>15 DEF Inv


-----------------------------------------------------------------------------
(* The actions *)

\* attachAsyncNoLock, of an application thread or of the reconnect thread.
LEMMA RegisterKeeps ==
    ASSUME Inv, NEW t \in Apps \cup {Rcn}, register(t)
    PROVE  Inv'
<1>1. CASE ~LoopLive
  BY <1>1, register(t), UndefinedKeeps DEF register
<1>2. CASE LoopLive
  <2>1. CASE t \in Apps
    BY <1>2, <2>1, register(t), RegisterAppKeeps
  <2>2. CASE t = Rcn
    BY <1>2, <2>2, register(t), RegisterRcnKeeps
  <2> QED BY <2>1, <2>2
<1> QED BY <1>1, <1>2

\* What xRedisConnect does after redisAeAttach has returned.
LEMMA AttachEndKeeps ==
    ASSUME Inv, NEW a \in Apps, attachEnd(a)
    PROVE  Inv'
<1>1. CASE ~AcLive(a, 1)
  BY <1>1, attachEnd(a), UndefinedKeeps DEF attachEnd
<1>2. CASE AcLive(a, 1) /\ Attached(a)
  BY <1>2, attachEnd(a), AttachUpKeeps
<1>3. CASE AcLive(a, 1) /\ ~Attached(a)
  BY <1>3, attachEnd(a), AttachDoneKeeps
<1> QED BY <1>1, <1>2, <1>3

\* The first part of xRedisFree, for each state of the connection's context.
LEMMA Free1Keeps ==
    ASSUME Inv, NEW a \in Apps, free1(a)
    PROVE  Inv'
<1>1. CASE CtxGone(a)
  BY <1>1, free1(a), Free1CtxKeeps
<1>2. CASE xc[a].ctx = 0
  BY <1>2, free1(a), Free1NoneKeeps
<1>3. CASE xc[a].ctx # 0 /\ ~CtxGone(a)
  BY <1>3, free1(a), Free1MarkKeeps DEF CtxGone
<1> QED BY <1>1, <1>2, <1>3

\* The rest of xRedisFree.
LEMMA FreeingKeeps ==
    ASSUME Inv, NEW a \in Apps, Freeing(a)
    PROVE  Inv'
<1>1. CASE free2(a) /\ reconn_list = NULL
  BY <1>1, UndefinedKeeps DEF free2
<1>2. CASE free2(a) /\ reconn_list # NULL
  BY <1>2, Free2NowKeeps, Free2LockKeeps
<1> QED BY <1>1, <1>2, FreeSleepKeeps, FreeWakeKeeps DEF Freeing

\* Every step of the event-loop thread.
LEMMA LoopStepKeeps ==
    ASSUME Inv, LoopStep
    PROVE  Inv'
<1>1. CASE mainStart
  BY <1>1, MainStartKeeps, UndefinedKeeps DEF mainStart
<1>2. CASE connectedCallback
  <2>1. CASE ~Alive(cur[1])
    BY <1>2, <2>1, UndefinedKeeps DEF connectedCallback
  <2>2. CASE Alive(cur[1])
    BY <1>2, <2>2, ConnectedOKKeeps, ConnectedErrKeeps DEF connectedCallback
  <2> QED BY <2>1, <2>2
<1>3. CASE discStatus
  BY <1>3, DiscStatusKeeps, UndefinedKeeps DEF discStatus
<1>4. CASE clearReconnList
  <2>1. reconn_list # NULL
    BY <1>4 DEF clearReconnList, LoopAt, Inv, LoopInv
  <2>2. CASE \E x \in reconn_list : ~Alive(x) \/ CtxGone(x)
    BY <1>4, <2>2, UndefinedKeeps DEF clearReconnList
  <2>3. CASE \A x \in reconn_list : Alive(x) /\ ~CtxGone(x)
    BY <1>4, <2>1, <2>3, ClearReconnListKeeps
  <2> QED BY <2>2, <2>3
<1> QED BY <1>1, <1>2, <1>3, <1>4, DealLockKeeps, DealNextKeeps, DealEndKeeps, AsyncFreeKeeps,
           PollEndKeeps, DiscCheckKeeps, DiscScheduleKeeps, ClearLoopKeeps DEF LoopStep

\* Every step of the reconnect thread.
LEMMA ReconnectStepKeeps ==
    ASSUME Inv, ReconnectStep
    PROVE  Inv'
<1>1. CASE reconnectCheck
  BY <1>1, ReconnectCheckKeeps, UndefinedKeeps DEF reconnectCheck
<1>2. CASE reconnectRound
  BY <1>2, ReconnectRoundKeeps, UndefinedKeeps DEF reconnectRound
<1>3. CASE reconnectEnd
  <2>1. CASE ~AcLive(visited, xc[visited].last)
    BY <1>3, <2>1, UndefinedKeeps DEF reconnectEnd
  <2>2. CASE AcLive(visited, xc[visited].last)
    BY <1>3, <2>2, ReconnectUpKeeps, ReconnectDownKeeps
  <2> QED BY <2>1, <2>2
<1> QED BY <1>1, <1>2, <1>3, ReconnectRoundEndKeeps, ReconnectSkipKeeps, ReconnectBeginKeeps,
           ReconnectInitializeKeeps DEF ReconnectStep

-----------------------------------------------------------------------------
(* The invariant *)

\* The invariant holds before xRedisClientInit.
LEMMA InitInv == Init => Inv
<1> SUFFICES ASSUME Init PROVE Inv
  OBVIOUS
<1> USE AcAssumption, AppAssumption, NullAssumption DEF Ael, Rcn, Threads, Ids
<1>1. /\ \A a \in Apps : pc[a] = "idle"
      /\ pc[Ael] = "off" /\ pc[Rcn] = "off"
      /\ pc \in [Threads -> {"idle", "off"}]
      /\ \A x \in Apps : xc[x] = [mem |-> "none", status |-> "zero", ctx |-> 0, last |-> 0]
      /\ \A x \in Apps, i \in Ids : ac[x][i] = [st |-> "none", freed |-> FALSE]
      /\ reconn_list = {} /\ free_ac_list = {} /\ todo = {} /\ woken = {}
      /\ aeloop = [mem |-> "none", stop |-> FALSE]
      /\ \A l \in Locks : owner[l] = NULL
  BY DEF Init
<1>2. /\ \A x \in Apps : xc[x].mem = "none" /\ xc[x].ctx = 0 /\ xc[x].last = 0
      /\ \A x \in Apps, i \in Ids : ac[x][i].st = "none" /\ ac[x][i].freed = FALSE
      /\ aeloop.mem = "none"
  BY <1>1
<1>3. Places /\ Lists
  BY <1>1 DEF Places, Lists, AppLabels, AelLabels, RcnLabels, BusyLabels
<1>4. Types
  <2>1. [mem |-> "none", status |-> "zero", ctx |-> 0, last |-> 0] \in Connections
    BY DEF Connections, Status, RAW
  <2>2. [st |-> "none", freed |-> FALSE] \in Contexts
    BY DEF Contexts, States
  <2>3. xc \in [Apps -> Connections] /\ ac \in [Apps -> [Ids -> Contexts]]
    BY <2>1, <2>2 DEF Init
  <2>4. aeloop \in LoopStates
    BY DEF Init, LoopStates
  <2>5. owner \in [Locks -> Threads \cup {NULL}]
    BY DEF Init
  <2>6. woken \subseteq Threads
    BY <1>1
  <2> QED BY <1>3, <2>3, <2>4, <2>5, <2>6 DEF Types
<1>5. LocksHeld
  BY <1>1 DEF LocksHeld, Holds
<1>6. LoopInv
  BY <1>1, <1>2 DEF LoopInv, LoopLive, BusyLabels
<1>7. NumberInv /\ AppInv
  BY <1>1, <1>2 DEF NumberInv, AppInv, AppOK, Marked, Listed, RAW
<1>8. CurInv /\ StateInv /\ RoundInv
  BY <1>1, <1>2 DEF CurInv, StateInv, RoundInv, Torn, Listed, Renewing
<1>9. SingleInv /\ TornInv /\ FreeListInv
  BY <1>1, <1>2 DEF SingleInv, TornInv, FreeListInv, Live, Tearing, Torn, Renewing, Listed
<1>10. MarkInv /\ MarkListInv /\ MarkTearInv /\ WaitInv
  BY <1>1, <1>2 DEF MarkInv, MarkListInv, MarkTearInv, WaitInv, Marked
<1> QED BY <1>4, <1>5, <1>6, <1>7, <1>8, <1>9, <1>10 DEF Inv

\* Every step of every thread keeps the invariant.
LEMMA NextInv == Inv /\ [Next]_vars => Inv'
<1> SUFFICES ASSUME Inv, [Next]_vars PROVE Inv'
  OBVIOUS
<1>1. CASE UNCHANGED vars
  <2>1. QuietStep
    BY <1>1 DEF vars, QuietStep
  <2>2. Types' /\ LocksHeld' /\ LoopInv' /\ RoundInv'
    BY <1>1 DEF vars, round, Inv, Types, Places, Lists, LocksHeld, Holds, LoopInv, LoopLive,
               CauseEnd, RoundInv
  <2> QED BY <2>1, <2>2, QuietKeeps DEF Inv
<1>2. ASSUME NEW a \in Apps, Connecting(a) \/ connectFails(a) \/ free1(a) \/ Freeing(a)
      PROVE  Inv'
  BY <1>2, ConnectBeginKeeps, AttachEndKeeps, ConnectFailsKeeps, Free1Keeps, FreeingKeeps
     DEF Connecting
<1> QED BY <1>1, <1>2, RegisterKeeps, XStopClientKeeps, LoopStepKeeps, ConnectEventKeeps,
           LossEventKeeps, ReconnectStepKeeps DEF Next

\* The inductive invariant holds in every reachable state, for any number of
\* connections and of attempts to connect: which thread may be where with which
\* mutex, context and list.
THEOREM LifecycleInductive == Spec => []Inv
BY InitInv, NextInv, PTL DEF Spec

\* A mutex is held exactly by the thread whose position says so: none is left
\* locked, and none is taken twice.
THEOREM LifecycleLocks == Spec => []LocksHeld
<1>1. Inv => LocksHeld
  BY DEF Inv
<1> QED BY <1>1, LifecycleInductive, PTL

-----------------------------------------------------------------------------
(* Where undefined behaviour comes from *)

\* A connection whose memory is gone was freed by its owner, or by a stop.
LEMMA GoneIsDone ==
    ASSUME Inv, NEW x \in Apps, ~Alive(x), pc[x] \notin {"idle", "clear2"}
    PROVE  Cause4 \/ pc[x] = "done"
<1>1. xc[x].mem # "none"
  BY DEF Inv, AppInv, AppOK, Types, Places, AppLabels
<1>2. xc[x].mem = "freed"
  BY <1>1 DEF Alive, Inv, Types, Connections
<1> QED BY <1>2 DEF Inv, AppInv, AppOK, Cause4

\* A context exists only after its owner has begun to connect.
LEMMA CreatedByOwner ==
    ASSUME Inv, NEW x \in Apps, NEW i \in Ids, ac[x][i].st # "none"
    PROVE  pc[x] \notin {"idle", "clear2"}
<1>1. ~(i > xc[x].last)
  BY DEF Inv, NumberInv
<1>2. i > 0
  BY DEF Ids
<1>3. xc[x].last # 0
  BY <1>1, <1>2
<1> QED BY <1>3 DEF Inv, AppInv, AppOK

\* The reconnect thread meets a freed connection only after such an event.
LEMMA ScheduledGone ==
    ASSUME Inv, NEW x \in Apps, ~Alive(x), Listed(x)
    PROVE  Cause4
<1>1. pc[x] \notin {"idle", "clear2"}
  BY DEF Inv, AppInv, AppOK
<1>2. CASE pc[x] = "done"
  BY <1>2 DEF Inv, WaitInv, MarkListInv
<1> QED BY <1>1, <1>2, GoneIsDone

\* connectedCallback likewise ...
LEMMA ConnectedGone ==
    ASSUME Inv, NEW x \in Apps, NEW i \in Ids, CurIs(x, i), ~Alive(x),
           pc[Ael] \in {"connOK", "connErr"}
    PROVE  Cause4
<1>1. ac[x][i].st = "connecting"
  BY DEF Inv, CurInv
<1>2. Cause4 \/ pc[x] = "done"
  BY <1>1, CreatedByOwner, GoneIsDone
<1>3. CASE pc[x] = "done"
  <2>1. Cause4 \/ (pc[Rcn] = "wait" /\ Renewing(x, i))
    BY <1>1, <1>3 DEF Inv, StateInv
  <2>2. pc[Rcn] = "wait" /\ Renewing(x, i) => Listed(x)
    BY DEF Inv, RoundInv, Renewing, Listed
  <2> QED BY <2>1, <2>2, ScheduledGone
<1> QED BY <1>2, <1>3

\* ... and disconnectedCallback ...
LEMMA LostGone ==
    ASSUME Inv, NEW x \in Apps, NEW i \in Ids, CurIs(x, i), ~Alive(x),
           pc[Ael] = "disc1"
    PROVE  Cause4
<1>1. ac[x][i].st = "connected" /\ Torn(x, i) /\ Tearing(x, i)
  BY DEF Inv, CurInv, Torn, Tearing
<1>2. Cause4 \/ pc[x] = "done"
  BY <1>1, CreatedByOwner, GoneIsDone
<1>3. ASSUME NEW k \in Ids, Marked(x, k) PROVE Cause4
  <2>1. CASE k = i
    BY <1>1, <1>3, <2>1 DEF Inv, CurInv
  <2>2. CASE k # i
    BY <1>1, <1>3, <2>2 DEF Inv, MarkTearInv
  <2> QED BY <2>1, <2>2
<1> QED BY <1>2, <1>3 DEF Inv, WaitInv

\* ... and __redisAsyncFree.
LEMMA SignalledGone ==
    ASSUME Inv, NEW x \in Apps, NEW i \in Ids, CurIs(x, i), ~Alive(x), Marked(x, i),
           pc[Ael] \in {"dealFree", "acFree"}
    PROVE  Cause4
<1>1. ac[x][i].st \notin {"none", "dead"}
  BY DEF Inv, CurInv
<1>2. Cause4 \/ pc[x] = "done"
  BY <1>1, CreatedByOwner, GoneIsDone
<1> QED BY <1>1, <1>2 DEF Inv, MarkInv

\* Threads run only while there is a loop, or was one.
LEMMA LoopGone ==
    ASSUME Inv, ~LoopLive, \E t \in Threads : pc[t] \notin {"idle", "off"}
    PROVE  CauseEnd
<1>1. aeloop.mem # "none"
  BY AppAssumption DEF Inv, LoopInv, Threads, Ael, Rcn
<1>2. aeloop.mem = "freed"
  BY <1>1 DEF Inv, Types, LoopStates, LoopLive
<1> QED BY <1>2 DEF Inv, LoopInv

\* A step that reaches undefined behaviour has one of the causes UndefinedOrigin names.
LEMMA UndefinedStep ==
    ASSUME Inv, Next
    PROVE  UndefinedOrigin'
<1> USE AcAssumption, AppAssumption DEF Ael, Rcn, Threads, Ids
<1>0. ub = {}
  BY DEF Next
<1>a. ASSUME NEW w \in {"xc", "ac"}, Undefined(w), Cause4 PROVE UndefinedOrigin'
  BY <1>0, <1>a DEF Undefined, UndefinedOrigin, Cause4, Cause2
<1>b. ASSUME NEW w \in {"loop", "lists"}, Undefined(w), CauseEnd PROVE UndefinedOrigin'
  BY <1>0, <1>b DEF Undefined, UndefinedOrigin, CauseEnd
<1>c. ASSUME UNCHANGED ub PROVE UndefinedOrigin'
  BY <1>0, <1>c DEF UndefinedOrigin
<1>n. reconn_list = NULL => CauseEnd
  BY DEF Inv, LoopInv
<1>1. ASSUME NEW t \in Apps \cup {Rcn}, register(t) PROVE UndefinedOrigin'
  <2>1. CASE LoopLive
    BY <1>1, <1>c, <2>1 DEF register
  <2>2. CASE ~LoopLive
    <3>1. CauseEnd
      BY <1>1, <2>2, LoopGone DEF register
    <3>2. Undefined("loop")
      BY <1>1, <2>2 DEF register
    <3> QED BY <1>b, <3>1, <3>2
  <2> QED BY <2>1, <2>2
<1>2. ASSUME NEW a \in Apps, attachEnd(a) PROVE UndefinedOrigin'
  <2>1. CASE AcLive(a, 1)
    BY <1>2, <1>c, <2>1 DEF attachEnd
  <2>2. CASE ~AcLive(a, 1)
    <3>1. pc[a] = "wait" /\ ac[a][1].st = "dead" /\ 1 \in Ids
      BY <1>2, <2>2 DEF attachEnd, AcLive
    <3>2. Cause4
      BY <3>1 DEF Inv, TornInv
    <3> QED BY <1>2, <1>a, <2>2, <3>2 DEF attachEnd
  <2> QED BY <2>1, <2>2
<1>3. ASSUME NEW a \in Apps, free1(a) PROVE UndefinedOrigin'
  <2>1. CASE CtxGone(a)
    <3>1. ub' = {"ctx"} /\ "down" \in causes'
      BY <1>0, <1>3, <2>1 DEF free1
    <3> QED BY <3>1 DEF UndefinedOrigin
  <2>2. CASE ~CtxGone(a)
    <3>1. UNCHANGED ub
      BY <1>3, <2>2 DEF free1
    <3> QED BY <1>c, <3>1
  <2> QED BY <2>1, <2>2
<1>4. ASSUME NEW a \in Apps, Freeing(a) PROVE UndefinedOrigin'
  BY <1>4, <1>b, <1>c, <1>n DEF Freeing, free2, freeSleep, freeWake
<1>5. ASSUME NEW a \in Apps, connectBegin(a) \/ connectFails(a) PROVE UndefinedOrigin'
  BY <1>5, <1>c DEF connectBegin, connectFails
<1>6. CASE mainStart \/ reconnectCheck
  <2>1. CASE LoopLive
    BY <1>6, <1>c, <2>1 DEF mainStart, reconnectCheck
  <2>2. CASE ~LoopLive
    <3>1. CauseEnd
      BY <1>6, <2>2, LoopGone DEF mainStart, LoopAt, reconnectCheck, RcnAt
    <3> QED BY <1>6, <1>b, <2>2, <3>1 DEF mainStart, reconnectCheck
  <2> QED BY <2>1, <2>2
<1>7. CASE dealNext
  <2>1. PICK f \in free_ac_list : (Undefined("ac") /\ ~AcLive(f[1], f[2])) \/ UNCHANGED ub
    BY <1>7 DEF dealNext
  <2>2. CASE Undefined("ac") /\ ~AcLive(f[1], f[2])
    <3>1. PICK x \in Apps, i \in Ids : f = <<x, i>>
      BY DEF Inv, Types, Lists
    <3>2. <<x, i>> \in free_ac_list /\ ac[x][i].st = "dead"
      BY <2>2, <3>1 DEF AcLive
    <3>3. Cause4
      BY <3>2 DEF Inv, FreeListInv
    <3> QED BY <1>a, <2>2, <3>3
  <2> QED BY <2>1, <2>2, <1>c
<1>8. ASSUME pc[Ael] \in BusyLabels
      PROVE  \E x \in Apps, i \in Ids : CurIs(x, i) /\ cur[1] = x /\ cur[2] = i
  BY <1>8 DEF Inv, Types, Places, CurIs
<1>9. CASE asyncFree
  <2>1. PICK x \in Apps, i \in Ids : CurIs(x, i) /\ cur[1] = x /\ cur[2] = i
    BY <1>8, <1>9 DEF asyncFree, BusyLabels
  <2>2. CASE Marked(x, i) /\ ~Alive(x)
    <3>1. Cause4
      BY <1>9, <2>1, <2>2, SignalledGone DEF asyncFree
    <3>2. Undefined("xc")
      BY <1>9, <2>1, <2>2 DEF asyncFree, FreedContext, Marked
    <3> QED BY <1>a, <3>1, <3>2
  <2>3. CASE ~(Marked(x, i) /\ ~Alive(x))
    BY <1>9, <1>c, <2>1, <2>3 DEF asyncFree, FreedContext, Marked
  <2> QED BY <2>2, <2>3
<1>10. CASE connectedCallback
  <2>1. PICK x \in Apps, i \in Ids : CurIs(x, i) /\ cur[1] = x /\ cur[2] = i
    BY <1>8, <1>10 DEF connectedCallback, BusyLabels
  <2>2. CASE ~Alive(x)
    <3>1. Cause4
      BY <1>10, <2>1, <2>2, ConnectedGone DEF connectedCallback
    <3> QED BY <1>10, <1>a, <2>1, <2>2, <3>1 DEF connectedCallback
  <2>3. CASE Alive(x)
    BY <1>10, <1>c, <2>1, <2>3 DEF connectedCallback
  <2> QED BY <2>2, <2>3
<1>11. CASE discStatus
  <2>1. PICK x \in Apps, i \in Ids : CurIs(x, i) /\ cur[1] = x /\ cur[2] = i
    BY <1>8, <1>11 DEF discStatus, LoopAt, BusyLabels
  <2>2. CASE ~Alive(x)
    <3>1. Cause4
      BY <1>11, <2>1, <2>2, LostGone DEF discStatus, LoopAt
    <3> QED BY <1>11, <1>a, <2>1, <2>2, <3>1 DEF discStatus
  <2>3. CASE Alive(x)
    BY <1>11, <1>c, <2>1, <2>3 DEF discStatus
  <2> QED BY <2>2, <2>3
<1>12. CASE clearReconnList
  <2>1. Cause4
    BY <1>12 DEF clearReconnList, LoopAt, Inv, LoopInv, Cause4
  <2>2. Undefined("ac") \/ UNCHANGED ub
    BY <1>12, Zenon DEF clearReconnList
  <2> QED BY <1>a, <1>c, <2>1, <2>2
<1>13. CASE reconnectRound
  BY <1>13, <1>b, <1>c, <1>n DEF reconnectRound
<1>14. CASE reconnectSkip
  <2>1. PICK x \in todo : (Undefined("xc") /\ ~Alive(x)) \/ UNCHANGED ub
    BY <1>14 DEF reconnectSkip
  <2>2. CASE Undefined("xc") /\ ~Alive(x)
    <3>1. x \in Apps /\ Listed(x)
      BY <1>14 DEF reconnectSkip, RcnAt, Inv, RoundInv, Types, Lists, Listed
    <3>2. Cause4
      BY <2>2, <3>1, ScheduledGone
    <3> QED BY <1>a, <2>2, <3>2
  <2> QED BY <2>1, <2>2, <1>c
<1>15. CASE reconnectEnd
  <2>1. CASE ~AcLive(visited, xc[visited].last)
    <3>1. visited \in Apps /\ xc[visited].last \in Ids
      BY <1>15 DEF reconnectEnd, RcnAt, Inv, Types, Places, NumberInv, Connections
    <3>2. Renewing(visited, xc[visited].last) /\ ac[visited][xc[visited].last].st = "dead"
      BY <1>15, <2>1 DEF reconnectEnd, RcnAt, AcLive, Renewing
    <3>3. Cause4
      BY <1>15, <3>1, <3>2 DEF Inv, TornInv, reconnectEnd, RcnAt
    <3>4. Undefined("ac")
      BY <1>15, <2>1 DEF reconnectEnd
    <3> QED BY <1>a, <3>3, <3>4
  <2>2. CASE AcLive(visited, xc[visited].last)
    BY <1>15, <1>c, <2>2 DEF reconnectEnd
  <2> QED BY <2>1, <2>2
<1>16. CASE \/ dealLock \/ dealEnd \/ pollEnd \/ discCheck \/ discSchedule \/ clearLoop
            \/ connectEvent \/ lossEvent \/ xStopClient
            \/ reconnectRoundEnd \/ reconnectBegin \/ reconnectInitialize
  <2>1. UNCHANGED ub
    BY <1>16 DEF dealLock, dealEnd, pollEnd, discCheck, discSchedule, clearLoop, connectEvent,
                 lossEvent, xStopClient, reconnectRoundEnd, reconnectBegin,
                 reconnectInitialize
  <2> QED BY <1>c, <2>1
<1> QED BY <1>1, <1>2, <1>3, <1>4, <1>5, <1>6, <1>7, <1>9, <1>10, <1>11, <1>12, <1>13,
           <1>14, <1>15, <1>16
        DEF Next, Connecting, LoopStep, ReconnectStep

\* Freed memory, and a list or a loop that is gone, is touched only after an
\* event the client copes with badly; otherwise no interleaving of connects,
\* frees, losses and reconnects leads to undefined behaviour.
THEOREM LifecycleUbOrigin == Spec => []UndefinedOrigin
<1>1. Init => UndefinedOrigin
  BY DEF Init, UndefinedOrigin
<1>2. Inv /\ UndefinedOrigin /\ [Next]_vars => UndefinedOrigin'
  <2>1. UndefinedOrigin /\ UNCHANGED vars => UndefinedOrigin'
    BY DEF vars, UndefinedOrigin
  <2> QED BY <2>1, UndefinedStep
<1> QED BY <1>1, <1>2, LifecycleInductive, PTL DEF Spec

-----------------------------------------------------------------------------
(* Cycles of waiting threads *)

\* A thread in a cycle waits for a mutex, and the thread that holds it is in
\* the cycle, where its position says that it holds it.
LEMMA CycleOwner ==
    ASSUME Inv, NEW S \in SUBSET Threads, Cycle(S), NEW t \in S
    PROVE  /\ Wants(t) \in Locks
           /\ \E u \in S : Holds(Wants(t), u)
<1> USE AppAssumption, NullAssumption DEF Ael, Rcn, Threads
<1>1. Wants(t) # NULL /\ owner[Wants(t)] \in S
  BY DEF Cycle
<1>2. Wants(t) \in Locks
  <2>1. CASE t = Ael
    <3>1. pc[Ael] \in BusyLabels => cur[1] \in Apps
      BY DEF Inv, Types, Places
    <3> QED BY <1>1, <2>1, <3>1 DEF Wants, Locks, BusyLabels
  <2>2. CASE t = Rcn
    BY <1>1, <2>2 DEF Wants, Locks, WaitsOn, Inv, Types, Places, RcnLabels
  <2>3. CASE t \in Apps
    BY <1>1, <2>3 DEF Wants, Locks, WaitsOn, Inv, Types, Places, AppLabels
  <2> QED BY <2>1, <2>2, <2>3
<1>3. Holds(Wants(t), owner[Wants(t)])
  BY <1>1, <1>2 DEF Inv, LocksHeld
<1> QED BY <1>1, <1>2, <1>3

\* A cycle of threads that wait for each other contains the event loop and the
\* reconnect thread, in the one pair of places where each holds what the other wants.
LEMMA CycleCases ==
    ASSUME Inv, NEW S \in SUBSET Threads, S # {}, Cycle(S),
           \A t \in S : pc[t] # "clear2"
    PROVE  /\ Ael \in S /\ pc[Ael] \in {"clear1", "dealFree"}
           /\ Rcn \in S /\ pc[Rcn] = "register"
           /\ pc[Ael] = "dealFree" => visited = cur[1]
<1> USE AppAssumption, NullAssumption DEF Ael, Rcn, Threads
\* The holder of client.mutex.
<1>1. ASSUME NEW t \in S, Wants(t) = "client"
      PROVE  Ael \in S /\ pc[Ael] \in {"clear1", "dealFree"}
  <2>1. PICK u \in S : Holds("client", u)
    BY <1>1, CycleOwner
  <2>2. pc[u] \in {"dealNext", "dealFree", "clear1"}
    BY <2>1 DEF Holds, Inv, Types, Places
  <2>3. u = Ael
    BY <2>2 DEF Inv, Types, Places, AppLabels, RcnLabels
  <2>4. pc[Ael] # "dealNext"
    <3>1. Wants(u) \in Locks /\ Wants(u) # NULL
      BY CycleOwner DEF Cycle
    <3> QED BY <2>3, <3>1 DEF Wants
  <2> QED BY <2>2, <2>3, <2>4
\* The holder of reconn_mutex.
<1>2. ASSUME Rcn \in S, pc[Rcn] \in {"visit", "raw", "register", "wait"}
      PROVE  pc[Rcn] = "register"
  <2>1. Wants(Rcn) # NULL
    BY <1>2 DEF Cycle
  <2>2. CASE pc[Rcn] = "wait"
    <3>1. Wants(Rcn) = visited /\ visited \in Apps /\ Listed(visited)
      BY <2>2 DEF Wants, WaitsOn, Inv, Types, Places, RoundInv, Listed
    <3>2. PICK u \in S : Holds(visited, u)
      BY <1>2, <3>1, CycleOwner
    <3>3. u = visited /\ pc[visited] = "register"
      BY <2>2, <3>1, <3>2 DEF Holds
    <3> QED BY <3>1, <3>3 DEF Inv, AppInv, AppOK
  <2> QED BY <1>2, <2>1, <2>2 DEF Wants
<1>3. ASSUME NEW t \in S, Wants(t) = "reconn"
      PROVE  Rcn \in S /\ pc[Rcn] = "register"
  <2>1. PICK u \in S : Holds("reconn", u)
    BY <1>3, CycleOwner
  <2>2. u = Rcn /\ pc[Rcn] \in {"visit", "raw", "register", "wait"}
    BY <2>1 DEF Holds
  <2> QED BY <1>2, <2>2
\* The holder of a connection's mutex.
<1>4. ASSUME NEW t \in S, Wants(t) \in Apps
      PROVE  \/ Wants(t) \in S /\ pc[Wants(t)] = "register"
             \/ Rcn \in S /\ pc[Rcn] = "register" /\ visited = Wants(t)
  <2>1. PICK u \in S : Holds(Wants(t), u)
    BY CycleOwner
  <2>2. \/ u = Wants(t) /\ pc[u] = "register"
        \/ u = Rcn /\ pc[Rcn] \in {"raw", "register"} /\ visited = Wants(t)
    BY <1>4, <2>1 DEF Holds
  <2> QED BY <1>2, <2>2
<1>5. Ael \in S /\ pc[Ael] \in {"clear1", "dealFree"}
  <2>1. PICK t \in S : TRUE
    OBVIOUS
  <2>2. Wants(t) \in Locks
    BY CycleOwner
  <2>3. ASSUME NEW u \in S, u # Ael, pc[u] = "register" PROVE Wants(u) = "client"
    BY <2>3 DEF Wants
  <2>4. CASE Wants(t) = "client"
    BY <1>1, <2>4
  <2>5. CASE Wants(t) = "reconn"
    BY <1>1, <1>3, <2>3, <2>5
  <2>6. CASE Wants(t) \in Apps
    BY <1>1, <1>4, <2>3, <2>6
  <2> QED BY <2>2, <2>4, <2>5, <2>6 DEF Locks
<1>6. CASE pc[Ael] = "clear1"
  <2>1. Wants(Ael) = "reconn"
    BY <1>6 DEF Wants
  <2> QED BY <1>3, <1>5, <1>6, <2>1
<1>7. CASE pc[Ael] = "dealFree"
  <2>1. PICK x \in Apps, i \in Ids : CurIs(x, i) /\ cur[1] = x
    BY <1>7 DEF Inv, Types, Places, BusyLabels, CurIs
  <2>2. Wants(Ael) = x
    BY <1>7, <2>1 DEF Wants
  <2>3. pc[x] # "register"
    BY <1>7, <2>1 DEF Inv, CurInv, MarkInv
  <2> QED BY <1>4, <1>5, <1>7, <2>1, <2>2, <2>3
<1> QED BY <1>5, <1>6, <1>7

\* The invariant leaves only the cycles that DeadlockOrigin names.
LEMMA InvDeadlock ==
    ASSUME Inv
    PROVE  DeadlockOrigin
<1> USE DEF Ael, Rcn
<1> SUFFICES ASSUME NEW S \in (SUBSET Threads) \ {{}}, Cycle(S)
             PROVE  \/ \E t \in S : pc[t] = "clear2" /\ causes \cap {"stop", "threads"} # {}
                    \/ /\ {Ael, Rcn} \subseteq S /\ RcnAt("register")
                       /\ \/ LoopAt("clear1") /\ "stop" \in causes
                          \/ LoopAt("dealFree") /\ causes \cap {"down", "attach"} # {}
  BY DEF DeadlockOrigin
<1>1. CASE \E t \in S : pc[t] = "clear2"
  <2>1. PICK t \in S : pc[t] = "clear2"
    BY <1>1
  <2>2. t = Ael \/ t \in Apps
    BY <2>1 DEF Threads, Inv, Types, Places, RcnLabels
  <2>3. "stop" \in causes \/ "threads" \in causes
    BY <2>1, <2>2 DEF Inv, LoopInv
  <2> QED BY <2>1, <2>3
<1>2. CASE \A t \in S : pc[t] # "clear2"
  <2>1. /\ {Ael, Rcn} \subseteq S /\ pc[Rcn] = "register"
        /\ pc[Ael] \in {"clear1", "dealFree"}
        /\ pc[Ael] = "dealFree" => visited = cur[1]
    BY <1>2, CycleCases
  <2>2. CASE pc[Ael] = "clear1"
    BY <2>1, <2>2 DEF RcnAt, LoopAt, Inv, LoopInv
  <2>3. CASE pc[Ael] = "dealFree"
    <3>1. PICK x \in Apps, i \in Ids : CurIs(x, i) /\ cur[1] = x
      BY <2>3 DEF Inv, Types, Places, BusyLabels, CurIs
    <3>2. Marked(x, i) /\ ac[x][i].st # "dead"
      BY <2>3, <3>1 DEF Inv, CurInv
    <3>3. Listed(x)
      BY <2>1, <2>3, <3>1 DEF Inv, RoundInv, Listed
    <3>4. Cause2
      BY <2>3, <3>1, <3>2, <3>3 DEF Inv, MarkListInv
    <3> QED BY <2>1, <2>3, <3>4 DEF RcnAt, LoopAt, Cause2
  <2> QED BY <2>1, <2>2, <2>3
<1> QED BY <1>1, <1>2

\* Threads block each other for ever only after a stop, after a thread could not
\* be created, or when freeAsyncContextDeal and attachAsyncNoLock meet on one
\* connection, which needs a free of a connection that is down or an attempt
\* that was given up.
THEOREM LifecycleDeadlockOrigin == Spec => []DeadlockOrigin
BY InvDeadlock, LifecycleInductive, PTL
=============================================================================
