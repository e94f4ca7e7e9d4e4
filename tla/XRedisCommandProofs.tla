------------------------- MODULE XRedisCommandProofs -------------------------
(***************************************************************************)
(* Proofs about XRedisCommand for any number of callers, any pipe and read *)
(* size and any number of reconnections: first what the callers rely on    *)
(* (IndInv), then on top of it the queues between the callers, the event   *)
(* loop and the server.                                                    *)
(***************************************************************************)
EXTENDS XRedisCommand, SequenceTheorems, FiniteSetTheorems, TLAPS

USE DEF callVars, infoVars, loopVars, listVars, bufVars, netVars, xcVars,
        histVars, InitialRef, LastRef, PipeWritten, Posted, TimesOut, RoundOver,
        PushCallback, Unsent, MoreToWrite, Stored, LostStatus, AttemptOK,
        Alive, FailConnect

------------------------------------------------------------------------------
(* Queues as sets of members *)

\* Adding a new element at the end keeps the elements distinct.
LEMMA AppendMembers ==
    ASSUME NEW S, NEW s \in Seq(S), NEW e \in S
    PROVE  /\ Append(s, e) \in Seq(S)
           /\ \A x : Contains(Append(s, e), x) <=> Contains(s, x) \/ x = e
           /\ NoDup(s) /\ ~Contains(s, e) => NoDup(Append(s, e))
  BY DEF Contains, NoDup

\* Taking the head removes exactly the head when the elements are distinct.
LEMMA TailMembers ==
    ASSUME NEW S, NEW s \in Seq(S), s # <<>>, NoDup(s)
    PROVE  /\ Head(s) \in S /\ Tail(s) \in Seq(S) /\ NoDup(Tail(s))
           /\ Contains(s, Head(s))
           /\ \A x : Contains(Tail(s), x) <=> Contains(s, x) /\ x # Head(s)
<1>1. /\ Head(s) \in S /\ Tail(s) \in Seq(S) /\ Len(s) \in Nat \ {0}
      /\ Len(Tail(s)) = Len(s) - 1 /\ Head(s) = s[1]
      /\ \A i \in 1..Len(Tail(s)) : Tail(s)[i] = s[i + 1]
  BY HeadTailProperties, EmptySeq
<1>2. ASSUME NEW x, Contains(s, x), x # Head(s) PROVE Contains(Tail(s), x)
  <2>1. PICK i \in 1..Len(s) : s[i] = x BY <1>2 DEF Contains
  <2>2. i - 1 \in 1..Len(Tail(s)) /\ Tail(s)[i - 1] = x
    BY <1>1, <1>2, <2>1
  <2> QED BY <2>2 DEF Contains
<1>3. ASSUME NEW x, Contains(Tail(s), x) PROVE Contains(s, x)
  <2>1. PICK i \in 1..Len(Tail(s)) : Tail(s)[i] = x BY <1>3 DEF Contains
  <2>2. i + 1 \in 1..Len(s) /\ s[i + 1] = x BY <1>1, <2>1
  <2> QED BY <2>2 DEF Contains
<1>4. Contains(s, Head(s))
  BY <1>1 DEF Contains
<1>5. NoDup(Tail(s)) /\ ~Contains(Tail(s), Head(s))
  BY <1>1 DEF NoDup, Contains
<1> QED BY <1>1, <1>2, <1>3, <1>4, <1>5

\* Removing one position removes exactly that element.
LEMMA RemoveMembers ==
    ASSUME NEW S, NEW s \in Seq(S), NEW k \in 1..Len(s), NoDup(s)
    PROVE  /\ RemoveAt(s, k) \in Seq(S) /\ NoDup(RemoveAt(s, k))
           /\ \A x : Contains(RemoveAt(s, k), x) <=> Contains(s, x) /\ x # s[k]
<1> DEFINE r == RemoveAt(s, k)
           a == SubSeq(s, 1, k - 1)
           b == SubSeq(s, k + 1, Len(s))
<1>1. Len(s) \in Nat /\ \A i \in 1..Len(s) : s[i] \in S
  BY LenProperties, ElementOfSeq
<1>2. /\ a \in Seq(S) /\ Len(a) = k - 1
      /\ \A i \in 1..(k - 1) : a[i] = s[i]
  BY <1>1
<1>3. /\ b \in Seq(S) /\ Len(b) = Len(s) - k
      /\ \A i \in 1..(Len(s) - k) : b[i] = s[k + i]
  BY <1>1
<1>4. /\ r \in Seq(S) /\ Len(r) = Len(s) - 1
      /\ \A i \in 1..(Len(s) - 1) : r[i] = IF i < k THEN s[i] ELSE s[i + 1]
  <2>1. r = a \o b BY DEF RemoveAt
  <2> HIDE DEF r, a, b
  <2>2. /\ r \in Seq(S) /\ Len(r) = Len(a) + Len(b)
        /\ \A i \in 1..(Len(a) + Len(b)) :
              r[i] = IF i <= Len(a) THEN a[i] ELSE b[i - Len(a)]
    BY <1>2, <1>3, <2>1, ConcatProperties
  <2>3. ASSUME NEW i \in 1..(Len(s) - 1)
        PROVE  r[i] = IF i < k THEN s[i] ELSE s[i + 1]
    <3>0. i \in 1..(Len(a) + Len(b)) BY <1>1, <1>2, <1>3
    <3>1. CASE i < k
      <4>1. i \in 1..(k - 1) /\ i <= Len(a) BY <1>1, <1>2, <3>1
      <4> QED BY <1>2, <2>2, <3>0, <3>1, <4>1
    <3>2. CASE ~(i < k)
      <4>1. i - Len(a) \in 1..(Len(s) - k) /\ k + (i - Len(a)) = i + 1
        BY <1>1, <1>2, <3>2
      <4>2. r[i] = b[i - Len(a)] BY <1>2, <2>2, <3>0, <3>2
      <4> QED BY <1>3, <3>2, <4>1, <4>2
    <3> QED BY <3>1, <3>2
  <2> QED BY <1>1, <1>2, <1>3, <2>2, <2>3
<1> HIDE DEF r
<1>5. ASSUME NEW x, Contains(s, x), x # s[k] PROVE Contains(r, x)
  <2>1. PICK i \in 1..Len(s) : s[i] = x BY <1>5 DEF Contains
  <2>2. CASE i < k
    <3>1. i \in 1..Len(r) /\ r[i] = x BY <1>1, <1>4, <2>1, <2>2
    <3> QED BY <3>1 DEF Contains
  <2>3. CASE i > k
    <3>1. i - 1 \in 1..Len(r) /\ r[i - 1] = x BY <1>1, <1>4, <2>1, <2>3
    <3> QED BY <3>1 DEF Contains
  <2> QED BY <1>1, <1>5, <2>1, <2>2, <2>3
<1>6. ASSUME NEW x, Contains(r, x) PROVE Contains(s, x)
  <2>1. PICK i \in 1..Len(r) : r[i] = x BY <1>6 DEF Contains
  <2>2. \/ i \in 1..Len(s) /\ s[i] = x
        \/ i + 1 \in 1..Len(s) /\ s[i + 1] = x
    BY <1>1, <1>4, <2>1
  <2> QED BY <2>2 DEF Contains
<1>7. NoDup(r)
  BY <1>1, <1>4, SMTT(60) DEF NoDup
<1>8. ~Contains(r, s[k])
  BY <1>1, <1>4 DEF NoDup, Contains
<1> QED BY <1>4, <1>5, <1>6, <1>7, <1>8 DEF r

\* An empty queue has no members.
LEMMA EmptyMembers == NoDup(<<>>) /\ \A x : ~Contains(<<>>, x)
  BY DEF Contains, NoDup

------------------------------------------------------------------------------
(* Every action keeps the invariant *)

\* A caller that allocates its cmdInfo with two references keeps the
\* invariant.
LEMMA BeginStep ==
    ASSUME IndInv, NEW c \in Callers, Begin(c)
    PROVE  IndInv'
<1>0. /\ TypeOK /\ LoopInv /\ ConnInv /\ ListInv /\ UbInv
      /\ \A d \in Callers : InfoInv(d) /\ CauseInv(d)
  BY DEF IndInv
<1>1. TypeOK'
  <2>1. TypeCall'
    BY <1>0 DEF TypeOK, TypeCall, CallerPCs, Begin
  <2>2. TypeInfo'
    BY <1>0 DEF TypeOK, TypeInfo, Begin
  <2>3. TypeLoop' /\ TypeQueues' /\ TypeXc' /\ TypeHist'
    BY <1>0 DEF TypeOK, TypeLoop, TypeQueues, TypeXc, TypeHist, Begin
  <2> QED BY <2>1, <2>2, <2>3 DEF TypeOK
<1>2. LoopInv'
  BY <1>0, ConstantsOK DEF LoopInv, Begin
<1>3. ConnInv'
  BY <1>0, ConstantsOK
     DEF ConnInv, Begin, Closing, Serving, Conns, MutexFree, Connected
<1>4. ListInv'
  BY <1>0 DEF ListInv, Begin, InHand, InCallback
<1>5. UbInv'
  BY <1>0 DEF UbInv, Begin, InHand, InCallback, Owed, Holds, Defined
<1>6. ASSUME NEW d \in Callers PROVE InfoInv(d)'
  <2>1. CASE d = c
    BY <1>0, <1>6, <2>1
       DEF TypeOK, TypeCall, TypeInfo, InfoInv, Begin, Owed, InHand,
           InCallback, Holds, Serving
  <2>2. CASE d # c
    BY <1>0, <1>6, <2>2
       DEF TypeOK, TypeCall, TypeInfo, InfoInv, Begin, Owed, InHand,
           InCallback, Holds, Serving
  <2> QED BY <2>1, <2>2
<1>7. ASSUME NEW d \in Callers PROVE CauseInv(d)'
  <2>1. CASE d = c
    BY <1>0, <1>7, <2>1
       DEF TypeOK, TypeCall, InfoInv, CauseInv, Begin, Owed, InHand,
           InCallback, Holds, Serving
  <2>2. CASE d # c
    BY <1>0, <1>7, <2>2
       DEF TypeOK, TypeCall, TypeInfo, InfoInv, CauseInv, Begin, Owed, InHand,
           InCallback, Holds, Serving
  <2> QED BY <2>1, <2>2
<1> QED BY <1>1, <1>2, <1>3, <1>4, <1>5, <1>6, <1>7 DEF IndInv

\* A connection that is up has a context that is not freed.
LEMMA UpAllocated ==
    ASSUME IndInv, status = "CONNECTED"
    PROVE  ctx # 0 /\ Allocated(ctx)
  BY DEF IndInv, TypeOK, TypeXc, Conns, ConnInv, Allocated

\* listAddNodeTail under the mutex gives the new cmdInfo its one place.
LEMMA EnqueueStep ==
    ASSUME IndInv, NEW c \in Callers, Enqueue(c)
    PROVE  IndInv'
<1>0. /\ TypeOK /\ LoopInv /\ ConnInv /\ ListInv /\ UbInv
      /\ \A d \in Callers : InfoInv(d) /\ CauseInv(d)
  BY DEF IndInv
<1>u. status = "CONNECTED" => ctx # 0 /\ Allocated(ctx)
  BY UpAllocated
<1>q. /\ cmd_list' \in Seq(Callers) /\ NoDup(cmd_list')
      /\ \A d \in Callers : Contains(cmd_list', d)
             <=> Contains(cmd_list, d) \/ (d = c /\ pc'[c] = "notify")
  <2>1. c \in Callers /\ ~Contains(cmd_list, c) /\ NoDup(cmd_list)
        /\ cmd_list \in Seq(Callers) /\ pc \in [Callers -> CallerPCs]
    BY <1>0 DEF TypeOK, TypeCall, TypeQueues, ListInv, InfoInv, Owed, Enqueue
  <2>2. CASE cmd_list' = Append(cmd_list, c) /\ pc' = [pc EXCEPT ![c] = "notify"]
    BY <2>1, <2>2, AppendMembers
  <2>3. CASE cmd_list' = cmd_list /\ pc' = [pc EXCEPT ![c] = "done"]
    BY <2>1, <2>3
  <2> QED BY <1>u, <2>2, <2>3 DEF Enqueue
<1>1. TypeOK'
  <2>1. TypeCall'
    <3>1. /\ pc' \in {[pc EXCEPT ![c] = "done"], [pc EXCEPT ![c] = "notify"]}
          /\ myac' \in {myac, [myac EXCEPT ![c] = ctx]}
          /\ got' = got
      BY <1>u DEF Enqueue
    <3> QED BY <1>0, <3>1 DEF TypeOK, TypeCall, TypeXc, CallerPCs
  <2>2. TypeInfo'
    <3>1. /\ ref' \in {ref, [ref EXCEPT ![c] = @ + 1]}
          /\ life' \in {life, [life EXCEPT ![c] = "freed"]}
          /\ UNCHANGED <<reply, sem>>
      BY DEF Enqueue
    <3>2. ref[c] = 1 BY <1>0 DEF InfoInv, Enqueue
    <3> QED BY <1>0, <3>1, <3>2 DEF TypeOK, TypeInfo
  <2>3. TypeQueues'
    BY <1>0, <1>q DEF TypeOK, TypeQueues, Enqueue
  <2>4. TypeLoop' /\ TypeXc' /\ TypeHist'
    BY <1>0, <1>u DEF TypeOK, TypeLoop, TypeXc, TypeHist, Enqueue
  <2> QED BY <2>1, <2>2, <2>3, <2>4 DEF TypeOK
<1>2. LoopInv'
  BY <1>0, <1>q, ConstantsOK DEF LoopInv, Enqueue
<1>3. ConnInv'
  BY <1>0, <1>q, ConstantsOK
     DEF ConnInv, Enqueue, Closing, Serving, Conns, MutexFree, Connected
<1>4. ListInv'
  BY <1>0, <1>q DEF ListInv, InfoInv, Owed, Enqueue, InHand, InCallback
<1>5. UbInv'
  BY <1>0, <1>u DEF UbInv, Enqueue, InHand, InCallback, Owed, Holds, Defined
<1>6. ASSUME NEW d \in Callers PROVE InfoInv(d)'
  <2>1. CASE d = c
    BY <1>0, <1>6, <1>q, <1>u, <2>1
       DEF TypeOK, TypeCall, TypeInfo, InfoInv, Enqueue, Owed, InHand,
           InCallback, Holds, Serving
  <2>2. CASE d # c
    BY <1>0, <1>6, <1>q, <1>u, <2>2
       DEF TypeOK, TypeCall, TypeInfo, InfoInv, Enqueue, Owed, InHand,
           InCallback, Holds, Serving
  <2> QED BY <2>1, <2>2
<1>7. ASSUME NEW d \in Callers PROVE CauseInv(d)'
  <2>1. CASE d = c
    BY <1>0, <1>7, <1>q, <1>u, <2>1
       DEF TypeOK, TypeCall, TypeInfo, InfoInv, CauseInv, Enqueue, Owed,
           InHand, InCallback, Holds, Serving
  <2>2. CASE d # c
    BY <1>0, <1>7, <1>q, <1>u, <2>2
       DEF TypeOK, TypeCall, TypeInfo, InfoInv, CauseInv, Enqueue, Owed,
           InHand, InCallback, Holds, Serving
  <2> QED BY <2>1, <2>2
<1> QED BY <1>1, <1>2, <1>3, <1>4, <1>5, <1>6, <1>7 DEF IndInv

\* Writing the notification byte keeps the invariant, also when the pipe is
\* full.
LEMMA NotifyStep ==
    ASSUME IndInv, NEW c \in Callers, Notify(c)
    PROVE  IndInv'
<1>0. /\ TypeOK /\ LoopInv /\ ConnInv /\ ListInv /\ UbInv
      /\ \A d \in Callers : InfoInv(d) /\ CauseInv(d)
  BY DEF IndInv
<1>1. TypeOK'
  <2>1. TypeCall'
    BY <1>0 DEF TypeOK, TypeCall, CallerPCs, Notify
  <2>2. TypeXc'
    BY <1>0, ConstantsOK DEF TypeOK, TypeXc, Notify
  <2>3. TypeInfo' /\ TypeLoop' /\ TypeQueues' /\ TypeHist'
    BY <1>0 DEF TypeOK, TypeInfo, TypeLoop, TypeQueues, TypeHist, Notify
  <2> QED BY <2>1, <2>2, <2>3 DEF TypeOK
<1>2. LoopInv'
  BY <1>0 DEF LoopInv, Notify
<1>3. ConnInv'
  BY <1>0, ConstantsOK
     DEF ConnInv, Notify, Closing, Conns, MutexFree, Connected
<1>4. ListInv'
  BY <1>0 DEF ListInv, Notify, InHand, InCallback
<1>5. UbInv'
  BY <1>0 DEF UbInv, Notify, InCallback, Owed, Holds, Defined
<1>6. ASSUME NEW d \in Callers PROVE InfoInv(d)'
  <2>1. CASE d = c
    BY <1>0, <1>6, <2>1
       DEF InfoInv, Notify, Owed, InHand, InCallback, Holds, Serving
  <2>2. CASE d # c
    BY <1>0, <1>6, <2>2
       DEF InfoInv, Notify, Owed, InHand, InCallback, Holds, Serving
  <2> QED BY <2>1, <2>2
<1>7. ASSUME NEW d \in Callers PROVE CauseInv(d)'
  <2>1. CASE d = c
    BY <1>0, <1>7, <2>1
       DEF CauseInv, Notify, Owed, InHand, InCallback, Holds, Serving
  <2>2. CASE d # c
    BY <1>0, <1>7, <2>2
       DEF CauseInv, Notify, Owed, InHand, InCallback, Holds, Serving
  <2> QED BY <2>1, <2>2
<1> QED BY <1>1, <1>2, <1>3, <1>4, <1>5, <1>6, <1>7 DEF IndInv

\* A sem_getvalue that finds the reply posted lets the caller skip its wait.
LEMMA PeekStep ==
    ASSUME IndInv, NEW c \in Callers, Peek(c)
    PROVE  IndInv'
<1>0. /\ TypeOK /\ LoopInv /\ ConnInv /\ ListInv /\ UbInv
      /\ \A d \in Callers : InfoInv(d) /\ CauseInv(d)
  BY DEF IndInv
<1>1. TypeOK'
  <2>1. TypeCall'
    BY <1>0 DEF TypeOK, TypeCall, CallerPCs, Peek
  <2>2. TypeHist'
    BY <1>0 DEF TypeOK, TypeHist, Peek
  <2>3. TypeInfo' /\ TypeLoop' /\ TypeQueues' /\ TypeXc'
    BY <1>0 DEF TypeOK, TypeInfo, TypeLoop, TypeQueues, TypeXc, Peek
  <2> QED BY <2>1, <2>2, <2>3 DEF TypeOK
<1>2. LoopInv'
  BY <1>0, ConstantsOK DEF LoopInv, Peek
<1>3. ConnInv'
  BY <1>0, ConstantsOK
     DEF ConnInv, Peek, Closing, Serving, Conns, MutexFree, Connected
<1>4. ListInv'
  BY <1>0 DEF ListInv, ConnInv, Peek, InHand, InCallback
<1>5. UbInv'
  BY <1>0 DEF UbInv, Peek, InHand, InCallback, Owed, Holds, Defined
<1>6. ASSUME NEW d \in Callers PROVE InfoInv(d)'
  <2>1. CASE d = c
    BY <1>0, <1>6, <2>1
       DEF TypeOK, TypeCall, ListInv, InfoInv, Peek, Owed, InHand, InCallback,
           Holds, Serving
  <2>2. CASE d # c
    BY <1>0, <1>6, <2>2
       DEF TypeOK, TypeCall, ListInv, InfoInv, Peek, Owed, InHand, InCallback,
           Holds, Serving
  <2> QED BY <2>1, <2>2
<1>7. ASSUME NEW d \in Callers PROVE CauseInv(d)'
  <2>1. CASE d = c
    BY <1>0, <1>7, <2>1
       DEF TypeOK, TypeCall, ListInv, InfoInv, CauseInv, Peek, Owed, InHand,
           InCallback, Holds, Serving
  <2>2. CASE d # c
    BY <1>0, <1>7, <2>2
       DEF TypeOK, TypeCall, ListInv, InfoInv, CauseInv, Peek, Owed, InHand,
           InCallback, Holds, Serving
  <2> QED BY <2>1, <2>2
<1> QED BY <1>1, <1>2, <1>3, <1>4, <1>5, <1>6, <1>7 DEF IndInv

\* A wait that takes the posted semaphore keeps the invariant.
LEMMA WaitStep ==
    ASSUME IndInv, NEW c \in Callers, Wait(c)
    PROVE  IndInv'
<1>0. /\ TypeOK /\ LoopInv /\ ConnInv /\ ListInv /\ UbInv
      /\ \A d \in Callers : InfoInv(d) /\ CauseInv(d)
  BY DEF IndInv
<1>1. TypeOK'
  <2>1. TypeCall'
    BY <1>0 DEF TypeOK, TypeCall, CallerPCs, Wait
  <2>2. TypeInfo'
    BY <1>0 DEF TypeOK, TypeInfo, Wait
  <2>3. TypeLoop' /\ TypeQueues' /\ TypeXc' /\ TypeHist'
    BY <1>0 DEF TypeOK, TypeLoop, TypeQueues, TypeXc, TypeHist, Wait
  <2> QED BY <2>1, <2>2, <2>3 DEF TypeOK
<1>2. LoopInv'
  BY <1>0, ConstantsOK DEF LoopInv, Wait
<1>3. ConnInv'
  BY <1>0, ConstantsOK
     DEF ConnInv, Wait, Closing, Serving, Conns, MutexFree, Connected
<1>4. ListInv'
  BY <1>0 DEF ListInv, Wait, InHand, InCallback
<1>5. UbInv'
  BY <1>0 DEF UbInv, Wait, InHand, InCallback, Owed, Holds, Defined
<1>6. ASSUME NEW d \in Callers PROVE InfoInv(d)'
  <2>1. CASE d = c
    BY <1>0, <1>6, <2>1
       DEF InfoInv, Wait, Owed, InHand, InCallback, Holds, Serving
  <2>2. CASE d # c
    BY <1>0, <1>6, <2>2
       DEF InfoInv, Wait, Owed, InHand, InCallback, Holds, Serving
  <2> QED BY <2>1, <2>2
<1>7. ASSUME NEW d \in Callers PROVE CauseInv(d)'
  <2>1. CASE d = c
    BY <1>0, <1>7, <2>1
       DEF InfoInv, CauseInv, Wait, Owed, InHand, InCallback, Holds, Serving
  <2>2. CASE d # c
    BY <1>0, <1>7, <2>2
       DEF InfoInv, CauseInv, Wait, Owed, InHand, InCallback, Holds, Serving
  <2> QED BY <2>1, <2>2
<1> QED BY <1>1, <1>2, <1>3, <1>4, <1>5, <1>6, <1>7 DEF IndInv

\* A wait that times out is recorded as such and drops nothing yet.
LEMMA ExpireStep ==
    ASSUME IndInv, NEW c \in Callers, Expire(c)
    PROVE  IndInv'
<1>0. /\ TypeOK /\ LoopInv /\ ConnInv /\ ListInv /\ UbInv
      /\ \A d \in Callers : InfoInv(d) /\ CauseInv(d)
  BY DEF IndInv
<1>1. TypeOK'
  <2>1. TypeCall'
    BY <1>0 DEF TypeOK, TypeCall, CallerPCs, Expire
  <2>2. TypeHist'
    BY <1>0 DEF TypeOK, TypeHist, Expire
  <2>3. TypeInfo' /\ TypeLoop' /\ TypeQueues' /\ TypeXc'
    BY <1>0 DEF TypeOK, TypeInfo, TypeLoop, TypeQueues, TypeXc, Expire
  <2> QED BY <2>1, <2>2, <2>3 DEF TypeOK
<1>2. LoopInv'
  BY <1>0, ConstantsOK DEF LoopInv, Expire
<1>3. ConnInv'
  BY <1>0, ConstantsOK
     DEF ConnInv, Expire, Closing, Serving, Conns, MutexFree, Connected
<1>4. ListInv'
  BY <1>0 DEF ListInv, Expire, InHand, InCallback
<1>5. UbInv'
  BY <1>0 DEF UbInv, Expire, InHand, InCallback, Owed, Holds, Defined
<1>6. ASSUME NEW d \in Callers PROVE InfoInv(d)'
  <2>1. CASE d = c
    BY <1>0, <1>6, <2>1
       DEF InfoInv, Expire, Owed, InHand, InCallback, Holds, Serving
  <2>2. CASE d # c
    BY <1>0, <1>6, <2>2
       DEF InfoInv, Expire, Owed, InHand, InCallback, Holds, Serving
  <2> QED BY <2>1, <2>2
<1>7. ASSUME NEW d \in Callers PROVE CauseInv(d)'
  <2>1. CASE d = c
    BY <1>0, <1>7, <2>1
       DEF InfoInv, CauseInv, Expire, Owed, InHand, InCallback, Holds, Serving
  <2>2. CASE d # c
    BY <1>0, <1>7, <2>2
       DEF InfoInv, CauseInv, Expire, Owed, InHand, InCallback, Holds, Serving
  <2> QED BY <2>1, <2>2
<1> QED BY <1>1, <1>2, <1>3, <1>4, <1>5, <1>6, <1>7 DEF IndInv

\* Taking the reply out of the cmdInfo keeps the invariant.
LEMMA TakeStep ==
    ASSUME IndInv, NEW c \in Callers, Take(c)
    PROVE  IndInv'
<1>0. /\ TypeOK /\ LoopInv /\ ConnInv /\ ListInv /\ UbInv
      /\ \A d \in Callers : InfoInv(d) /\ CauseInv(d)
  BY DEF IndInv
<1>1. TypeOK'
  <2>1. TypeCall'
    BY <1>0 DEF TypeOK, TypeCall, TypeInfo, CallerPCs, Take
  <2>2. TypeInfo' /\ TypeLoop' /\ TypeQueues' /\ TypeXc' /\ TypeHist'
    BY <1>0 DEF TypeOK, TypeInfo, TypeLoop, TypeQueues, TypeXc, TypeHist, Take
  <2> QED BY <2>1, <2>2 DEF TypeOK
<1>2. LoopInv'
  BY <1>0 DEF LoopInv, Take
<1>3. ConnInv'
  BY <1>0, ConstantsOK DEF ConnInv, Take, Closing, Conns, MutexFree, Connected
<1>4. ListInv'
  BY <1>0 DEF ListInv, Take, InHand, InCallback
<1>5. UbInv'
  BY <1>0 DEF UbInv, Take, InCallback, Owed, Holds, Defined
<1>6. ASSUME NEW d \in Callers PROVE InfoInv(d)'
  <2>1. CASE d = c
    BY <1>0, <1>6, <2>1
       DEF InfoInv, Take, Owed, InHand, InCallback, Holds, Serving
  <2>2. CASE d # c
    BY <1>0, <1>6, <2>2
       DEF InfoInv, Take, Owed, InHand, InCallback, Holds, Serving
  <2> QED BY <2>1, <2>2
<1>7. ASSUME NEW d \in Callers PROVE CauseInv(d)'
  <2>1. CASE d = c
    BY <1>0, <1>7, <2>1
       DEF CauseInv, Take, Owed, InHand, InCallback, Holds, Serving
  <2>2. CASE d # c
    BY <1>0, <1>7, <2>2
       DEF CauseInv, Take, Owed, InHand, InCallback, Holds, Serving
  <2> QED BY <2>1, <2>2
<1> QED BY <1>1, <1>2, <1>3, <1>4, <1>5, <1>6, <1>7 DEF IndInv

\* The caller's reference is dropped once, and the last owner frees the
\* cmdInfo.
LEMMA DropStep ==
    ASSUME IndInv, NEW c \in Callers, Drop(c)
    PROVE  IndInv'
<1>0. /\ TypeOK /\ LoopInv /\ ConnInv /\ ListInv /\ UbInv
      /\ \A d \in Callers : InfoInv(d) /\ CauseInv(d)
  BY DEF IndInv
<1>1. TypeOK'
  <2>1. TypeCall'
    BY <1>0 DEF TypeOK, TypeCall, CallerPCs, Drop
  <2>2. TypeInfo'
    BY <1>0, ConstantsOK
       DEF TypeOK, TypeInfo, InfoInv, Holds, InHand, InCallback, Drop
  <2>3. TypeLoop' /\ TypeQueues' /\ TypeXc' /\ TypeHist'
    BY <1>0 DEF TypeOK, TypeLoop, TypeQueues, TypeXc, TypeHist, Drop
  <2> QED BY <2>1, <2>2, <2>3 DEF TypeOK
<1>2. LoopInv'
  BY <1>0, ConstantsOK DEF LoopInv, Drop
<1>3. ConnInv'
  BY <1>0, ConstantsOK
     DEF ConnInv, Drop, Closing, Serving, Conns, MutexFree, Connected
<1>4. ListInv'
  BY <1>0 DEF ListInv, ConnInv, Drop, InHand, InCallback
<1>5. UbInv'
  BY <1>0 DEF UbInv, Drop, InHand, InCallback, Owed, Holds, Defined
<1>6. ASSUME NEW d \in Callers PROVE InfoInv(d)'
  <2>1. CASE d = c
    BY <1>0, <1>6, <2>1
       DEF TypeOK, TypeCall, TypeInfo, ListInv, InfoInv, Drop, Owed, InHand,
           InCallback, Holds, Serving
  <2>2. CASE d # c
    BY <1>0, <1>6, <2>2
       DEF TypeOK, TypeCall, TypeInfo, ListInv, InfoInv, Drop, Owed, InHand,
           InCallback, Holds, Serving
  <2> QED BY <2>1, <2>2
<1>7. ASSUME NEW d \in Callers PROVE CauseInv(d)'
  <2>1. CASE d = c
    BY <1>0, <1>7, <2>1
       DEF TypeOK, TypeCall, TypeInfo, ListInv, InfoInv, CauseInv, Drop, Owed,
           InHand, InCallback, Holds, Serving
  <2>2. CASE d # c
    BY <1>0, <1>7, <2>2
       DEF TypeOK, TypeCall, TypeInfo, ListInv, InfoInv, CauseInv, Drop, Owed,
           InHand, InCallback, Holds, Serving
  <2> QED BY <2>1, <2>2
<1> QED BY <1>1, <1>2, <1>3, <1>4, <1>5, <1>6, <1>7 DEF IndInv

\* The late path that looks for the cmdInfo on cmd_list keeps the invariant.
LEMMA SearchStep ==
    ASSUME IndInv, NEW c \in Callers, Search(c)
    PROVE  IndInv'
<1>0. /\ TypeOK /\ LoopInv /\ ConnInv /\ ListInv /\ UbInv
      /\ \A d \in Callers : InfoInv(d) /\ CauseInv(d)
  BY DEF IndInv
<1>1. TypeOK'
  <2>1. TypeCall'
    BY <1>0 DEF TypeOK, TypeCall, CallerPCs, Search
  <2>2. TypeHist'
    BY <1>0 DEF TypeOK, TypeHist, UbKinds, Search
  <2>3. TypeInfo' /\ TypeLoop' /\ TypeQueues' /\ TypeXc'
    BY <1>0 DEF TypeOK, TypeInfo, TypeLoop, TypeQueues, TypeXc, Search
  <2> QED BY <2>1, <2>2, <2>3 DEF TypeOK
<1>2. LoopInv'
  BY <1>0, ConstantsOK DEF LoopInv, Search
<1>3. ConnInv'
  BY <1>0, ConstantsOK
     DEF ConnInv, Search, Closing, Serving, Conns, MutexFree, Connected
<1>4. ListInv'
  BY <1>0 DEF ListInv, Search, InHand, InCallback
<1>5. UbInv'
  BY <1>0
     DEF UbInv, CauseInv, Search, InHand, InCallback, Owed, Holds, Defined
<1>6. ASSUME NEW d \in Callers PROVE InfoInv(d)'
  <2>1. CASE d = c
    BY <1>0, <1>6, <2>1
       DEF TypeOK, TypeCall, InfoInv, Search, Owed, InHand, InCallback, Holds,
           Serving
  <2>2. CASE d # c
    BY <1>0, <1>6, <2>2
       DEF TypeOK, TypeCall, InfoInv, Search, Owed, InHand, InCallback, Holds,
           Serving
  <2> QED BY <2>1, <2>2
<1>7. ASSUME NEW d \in Callers PROVE CauseInv(d)'
  <2>1. CASE d = c
    BY <1>0, <1>7, <2>1
       DEF InfoInv, CauseInv, Search, Owed, InHand, InCallback, Holds, Serving
  <2>2. CASE d # c
    BY <1>0, <1>7, <2>2
       DEF TypeOK, TypeCall, InfoInv, CauseInv, Search, Owed, InHand,
           InCallback, Holds, Serving
  <2> QED BY <2>1, <2>2
<1> QED BY <1>1, <1>2, <1>3, <1>4, <1>5, <1>6, <1>7 DEF IndInv

\* Taking a timed-out command off cmd_list drops the loop's reference with
\* it.
LEMMA UnlinkStep ==
    ASSUME IndInv, NEW c \in Callers, Unlink(c)
    PROVE  IndInv'
<1>0. /\ TypeOK /\ LoopInv /\ ConnInv /\ ListInv /\ UbInv
      /\ \A d \in Callers : InfoInv(d) /\ CauseInv(d)
  BY DEF IndInv
<1>q. /\ cmd_list' \in Seq(Callers) /\ NoDup(cmd_list')
      /\ \A d \in Callers : Contains(cmd_list', d)
             <=> Contains(cmd_list, d) /\ ~(d = c /\ pc'[c] = "status")
  BY <1>0, RemoveMembers DEF TypeOK, TypeCall, TypeQueues, ListInv, Unlink
<1>1. TypeOK'
  <2>1. TypeCall'
    BY <1>0 DEF TypeOK, TypeCall, CallerPCs, Unlink
  <2>2. TypeQueues'
    BY <1>0, <1>q DEF TypeOK, TypeQueues, Unlink
  <2>3. TypeHist'
    BY <1>0 DEF TypeOK, TypeHist, UbKinds, Unlink
  <2>4. TypeInfo' /\ TypeLoop' /\ TypeXc'
    BY <1>0 DEF TypeOK, TypeInfo, TypeLoop, TypeXc, Unlink
  <2> QED BY <2>1, <2>2, <2>3, <2>4 DEF TypeOK
<1>2. LoopInv'
  BY <1>0, <1>q, ConstantsOK DEF LoopInv, Unlink
<1>3. ConnInv'
  BY <1>0, <1>q, ConstantsOK
     DEF ConnInv, Unlink, Closing, Serving, Conns, MutexFree, Connected
<1>4. ListInv'
  BY <1>0, <1>q DEF ListInv, Unlink, InHand, InCallback
<1>5. UbInv'
  BY <1>0
     DEF UbInv, CauseInv, Unlink, InHand, InCallback, Owed, Holds, Defined
<1>6. ASSUME NEW d \in Callers PROVE InfoInv(d)'
  <2>1. CASE d = c
    BY <1>0, <1>6, <1>q, <2>1
       DEF TypeOK, TypeCall, InfoInv, Unlink, Owed, InHand, InCallback, Holds,
           Serving
  <2>2. CASE d # c
    BY <1>0, <1>6, <1>q, <2>2
       DEF TypeOK, TypeCall, InfoInv, Unlink, Owed, InHand, InCallback, Holds,
           Serving
  <2> QED BY <2>1, <2>2
<1>7. ASSUME NEW d \in Callers PROVE CauseInv(d)'
  <2>1. CASE d = c
    BY <1>0, <1>7, <1>q, <2>1
       DEF InfoInv, CauseInv, Unlink, Owed, InHand, InCallback, Holds, Serving
  <2>2. CASE d # c
    BY <1>0, <1>7, <1>q, <2>2
       DEF TypeOK, TypeCall, InfoInv, CauseInv, Unlink, Owed, InHand,
           InCallback, Holds, Serving
  <2> QED BY <2>1, <2>2
<1> QED BY <1>1, <1>2, <1>3, <1>4, <1>5, <1>6, <1>7 DEF IndInv

\* A walk of cmd_list that races with taskDeal has a timeout behind it.
LEMMA ListRaceStep ==
    ASSUME IndInv, NEW c \in Callers, ListRace(c)
    PROVE  IndInv'
<1>0. /\ TypeOK /\ LoopInv /\ ConnInv /\ ListInv /\ UbInv
      /\ \A d \in Callers : InfoInv(d) /\ CauseInv(d)
  BY DEF IndInv
<1>1. TypeOK'
  <2>1. TypeHist'
    BY <1>0 DEF TypeOK, TypeHist, UbKinds, ListRace
  <2>2. TypeCall' /\ TypeInfo' /\ TypeLoop' /\ TypeQueues' /\ TypeXc'
    BY <1>0
       DEF TypeOK, TypeCall, TypeInfo, TypeLoop, TypeQueues, TypeXc, ListRace
  <2> QED BY <2>1, <2>2 DEF TypeOK
<1>2. LoopInv'
  BY <1>0 DEF LoopInv, ListRace
<1>3. ConnInv'
  BY <1>0, ConstantsOK
     DEF ConnInv, ListRace, Closing, Conns, MutexFree, Connected
<1>4. ListInv'
  BY <1>0 DEF ListInv, ListRace, InHand, InCallback
<1>5. UbInv'
  BY <1>0 DEF UbInv, CauseInv, ListRace, InCallback, Owed, Holds, Defined
<1>6. ASSUME NEW d \in Callers PROVE InfoInv(d)'
  <2>1. CASE d = c
    BY <1>0, <1>6, <2>1
       DEF InfoInv, ListRace, Owed, InHand, InCallback, Holds, Serving
  <2>2. CASE d # c
    BY <1>0, <1>6, <2>2
       DEF InfoInv, ListRace, Owed, InHand, InCallback, Holds, Serving
  <2> QED BY <2>1, <2>2
<1>7. ASSUME NEW d \in Callers PROVE CauseInv(d)'
  <2>1. CASE d = c
    BY <1>0, <1>7, <2>1
       DEF CauseInv, ListRace, Owed, InHand, InCallback, Holds, Serving
  <2>2. CASE d # c
    BY <1>0, <1>7, <2>2
       DEF CauseInv, ListRace, Owed, InHand, InCallback, Holds, Serving
  <2> QED BY <2>1, <2>2
<1> QED BY <1>1, <1>2, <1>3, <1>4, <1>5, <1>6, <1>7 DEF IndInv

\* A caller refused because the connection is down keeps the invariant.
LEMMA CheckStatusStep ==
    ASSUME IndInv, NEW c \in Callers, CheckStatus(c)
    PROVE  IndInv'
<1>0. /\ TypeOK /\ LoopInv /\ ConnInv /\ ListInv /\ UbInv
      /\ \A d \in Callers : InfoInv(d) /\ CauseInv(d)
  BY DEF IndInv
<1>1. TypeOK'
  <2>1. TypeCall'
    BY <1>0 DEF TypeOK, TypeCall, CallerPCs, CheckStatus
  <2>2. TypeInfo'
    BY <1>0 DEF TypeOK, TypeInfo, CheckStatus
  <2>3. TypeHist'
    BY <1>0 DEF TypeOK, TypeHist, UbKinds, CheckStatus
  <2>4. TypeLoop' /\ TypeQueues' /\ TypeXc'
    BY <1>0 DEF TypeOK, TypeLoop, TypeQueues, TypeXc, CheckStatus
  <2> QED BY <2>1, <2>2, <2>3, <2>4 DEF TypeOK
<1>2. LoopInv'
  BY <1>0, ConstantsOK DEF LoopInv, CheckStatus
<1>3. ConnInv'
  BY <1>0, ConstantsOK
     DEF ConnInv, CheckStatus, Closing, Serving, Conns, MutexFree, Connected
<1>4. ListInv'
  BY <1>0 DEF ListInv, ConnInv, CheckStatus, InHand, InCallback
<1>5. UbInv'
  BY <1>0
     DEF UbInv, CauseInv, CheckStatus, InHand, InCallback, Owed, Holds,
         Defined
<1>6. ASSUME NEW d \in Callers PROVE InfoInv(d)'
  <2>1. CASE d = c
    BY <1>0, <1>6, <2>1
       DEF TypeOK, TypeCall, TypeInfo, ConnInv, ListInv, InfoInv, CheckStatus,
           Owed, InHand, InCallback, Holds, Serving
  <2>2. CASE d # c
    BY <1>0, <1>6, <2>2
       DEF TypeOK, TypeCall, TypeInfo, ListInv, InfoInv, CheckStatus, Owed,
           InHand, InCallback, Holds, Serving
  <2> QED BY <2>1, <2>2
<1>7. ASSUME NEW d \in Callers PROVE CauseInv(d)'
  <2>1. CASE d = c
    BY <1>0, <1>7, <2>1
       DEF ListInv, InfoInv, CauseInv, CheckStatus, Owed, InHand, InCallback,
           Holds, Serving
  <2>2. CASE d # c
    BY <1>0, <1>7, <2>2
       DEF TypeOK, TypeCall, TypeInfo, ListInv, InfoInv, CauseInv,
           CheckStatus, Owed, InHand, InCallback, Holds, Serving
  <2> QED BY <2>1, <2>2
<1> QED BY <1>1, <1>2, <1>3, <1>4, <1>5, <1>6, <1>7 DEF IndInv

\* taskDeal's read of the pipe keeps the invariant.
LEMMA TaskReadStep ==
    ASSUME IndInv, TaskRead
    PROVE  IndInv'
<1>0. /\ TypeOK /\ LoopInv /\ ConnInv /\ ListInv /\ UbInv
      /\ \A d \in Callers : InfoInv(d) /\ CauseInv(d)
  BY DEF IndInv
<1>1. TypeOK'
  <2>1. TypeLoop'
    BY <1>0, ConstantsOK DEF TypeOK, TypeLoop, TypeXc, LoopPCs, TaskRead
  <2>2. TypeXc'
    BY <1>0, ConstantsOK DEF TypeOK, TypeXc, TaskRead
  <2>3. TypeCall' /\ TypeInfo' /\ TypeQueues' /\ TypeHist'
    BY <1>0 DEF TypeOK, TypeCall, TypeInfo, TypeQueues, TypeHist, TaskRead
  <2> QED BY <2>1, <2>2, <2>3 DEF TypeOK
<1>2. LoopInv'
  BY ConstantsOK DEF LoopInv, TaskRead
<1>3. ConnInv'
  BY <1>0, ConstantsOK
     DEF ConnInv, TaskRead, Closing, Serving, Conns, MutexFree, Connected
<1>4. ListInv'
  BY <1>0 DEF ListInv, TaskRead, InHand, InCallback
<1>5. UbInv'
  BY <1>0 DEF UbInv, TaskRead, InHand, InCallback, Owed, Holds, Defined
<1>6. ASSUME NEW d \in Callers PROVE InfoInv(d)'
  BY <1>0, <1>6
     DEF InfoInv, TaskRead, Owed, InHand, InCallback, Holds, Serving
<1>7. ASSUME NEW d \in Callers PROVE CauseInv(d)'
  BY <1>0, <1>7
     DEF InfoInv, CauseInv, TaskRead, Owed, InHand, InCallback, Holds, Serving
<1> QED BY <1>1, <1>2, <1>3, <1>4, <1>5, <1>6, <1>7 DEF IndInv

\* taskDeal finds a usable context under the mutex, or gives up.
LEMMA TaskLockStep ==
    ASSUME IndInv, TaskLock
    PROVE  IndInv'
<1>0. /\ TypeOK /\ LoopInv /\ ConnInv /\ ListInv /\ UbInv
      /\ \A d \in Callers : InfoInv(d) /\ CauseInv(d)
  BY DEF IndInv
<1>u. status = "CONNECTED" => ctx # 0 /\ Allocated(ctx)
  BY UpAllocated
<1>1. TypeOK'
  <2>1. TypeLoop'
    BY <1>0, ConstantsOK DEF TypeOK, TypeLoop, LoopPCs, TaskLock
  <2>2. TypeCall' /\ TypeInfo' /\ TypeQueues' /\ TypeXc' /\ TypeHist'
    BY <1>0, <1>u
       DEF TypeOK, TypeCall, TypeInfo, TypeQueues, TypeXc, TypeHist, TaskLock
  <2> QED BY <2>1, <2>2 DEF TypeOK
<1>2. LoopInv'
  BY <1>0, ConstantsOK DEF LoopInv, TaskLock
<1>3. ConnInv'
  BY <1>0, ConstantsOK
     DEF ConnInv, TaskLock, Closing, Serving, Conns, MutexFree, Connected
<1>4. ListInv'
  BY <1>0 DEF ListInv, TaskLock, InHand, InCallback
<1>5. UbInv'
  BY <1>0, <1>u DEF UbInv, TaskLock, InHand, InCallback, Owed, Holds, Defined
<1>6. ASSUME NEW d \in Callers PROVE InfoInv(d)'
  BY <1>0, <1>6
     DEF InfoInv, TaskLock, Owed, InHand, InCallback, Holds, Serving
<1>7. ASSUME NEW d \in Callers PROVE CauseInv(d)'
  BY <1>0, <1>7
     DEF InfoInv, CauseInv, TaskLock, Owed, InHand, InCallback, Holds, Serving
<1> QED BY <1>1, <1>2, <1>3, <1>4, <1>5, <1>6, <1>7 DEF IndInv

\* Popping cmd_list moves the command from the list into the loop's hand.
LEMMA TaskPopStep ==
    ASSUME IndInv, TaskPop
    PROVE  IndInv'
<1>0. /\ TypeOK /\ LoopInv /\ ConnInv /\ ListInv /\ UbInv
      /\ \A d \in Callers : InfoInv(d) /\ CauseInv(d)
  BY DEF IndInv
<1>q. cmd_list # <<>>
        => /\ Head(cmd_list) \in Callers /\ Tail(cmd_list) \in Seq(Callers)
           /\ NoDup(Tail(cmd_list)) /\ Contains(cmd_list, Head(cmd_list))
           /\ \A d \in Callers : Contains(Tail(cmd_list), d)
                  <=> Contains(cmd_list, d) /\ d # Head(cmd_list)
  BY <1>0, TailMembers DEF TypeOK, TypeQueues, ListInv
<1>1. TypeOK'
  <2>1. TypeLoop'
    BY <1>0, <1>q, ConstantsOK DEF TypeOK, TypeLoop, LoopPCs, TaskPop
  <2>2. TypeQueues'
    BY <1>0, <1>q DEF TypeOK, TypeQueues, TaskPop
  <2>3. TypeCall' /\ TypeInfo' /\ TypeXc' /\ TypeHist'
    BY <1>0 DEF TypeOK, TypeCall, TypeInfo, TypeXc, TypeHist, TaskPop
  <2> QED BY <2>1, <2>2, <2>3 DEF TypeOK
<1>2. LoopInv'
  BY <1>0, <1>q, ConstantsOK DEF LoopInv, TaskPop
<1>3. ConnInv'
  BY <1>0, <1>q, ConstantsOK
     DEF ConnInv, TaskPop, Closing, Serving, Conns, MutexFree, Connected
<1>4. ListInv'
  BY <1>0, <1>q DEF ListInv, TaskPop, InHand, InCallback
<1>5. UbInv'
  BY <1>0 DEF UbInv, TaskPop, InCallback, Owed, Holds, Defined
<1>6. ASSUME NEW d \in Callers PROVE InfoInv(d)'
  <2>1. CASE d = Head(cmd_list)
    BY <1>0, <1>6, <1>q, <2>1
       DEF InfoInv, TaskPop, Owed, InHand, InCallback, Holds, Serving
  <2>2. CASE d # Head(cmd_list)
    BY <1>0, <1>6, <1>q, <2>2
       DEF InfoInv, TaskPop, Owed, InHand, InCallback, Holds, Serving
  <2> QED BY <2>1, <2>2
<1>7. ASSUME NEW d \in Callers PROVE CauseInv(d)'
  <2>1. CASE d = Head(cmd_list)
    BY <1>0, <1>7, <1>q, <2>1
       DEF CauseInv, TaskPop, Owed, InHand, InCallback, Holds, Serving
  <2>2. CASE d # Head(cmd_list)
    BY <1>0, <1>7, <1>q, <2>2
       DEF CauseInv, TaskPop, Owed, InHand, InCallback, Holds, Serving
  <2> QED BY <2>1, <2>2
<1> QED BY <1>1, <1>2, <1>3, <1>4, <1>5, <1>6, <1>7 DEF IndInv

\* Submitting the command moves it from the loop's hand to the reply queue.
LEMMA TaskSubmitStep ==
    ASSUME IndInv, TaskSubmit
    PROVE  IndInv'
<1>0. /\ TypeOK /\ LoopInv /\ ConnInv /\ ListInv /\ UbInv
      /\ \A d \in Callers : InfoInv(d) /\ CauseInv(d)
  BY DEF IndInv
<1>q. /\ replies' \in Seq(Callers) /\ NoDup(replies')
      /\ \A d \in Callers : Contains(replies', d)
             <=> \/ Contains(replies, d)
                 \/ d = cur /\ pc[cur] # "done" /\ cur \notin Refused
  <2>1. /\ cur \in Callers /\ ~Contains(replies, cur) /\ NoDup(replies)
        /\ replies \in Seq(Callers)
    BY <1>0 DEF TypeOK, TypeQueues, LoopInv, ListInv, InHand, TaskSubmit
  <2>2. CASE /\ replies' = Append(replies, cur)
             /\ pc[cur] # "done" /\ cur \notin Refused
    BY <2>1, <2>2, AppendMembers
  <2>3. CASE /\ replies' = replies
             /\ pc[cur] = "done" \/ cur \in Refused
    BY <2>1, <2>3
  <2> QED BY <2>2, <2>3 DEF TaskSubmit
<1>1. TypeOK'
  <2>1. TypeLoop'
    BY <1>0, <1>q, ConstantsOK
       DEF TypeOK, TypeLoop, LoopInv, LoopPCs, TaskSubmit
  <2>2. TypeQueues'
    <3>1. cur \in Callers /\ obuf \in Seq(Callers)
      BY <1>0 DEF TypeOK, TypeQueues, LoopInv, TaskSubmit
    <3>2. obuf' \in Seq(Callers)
      <4>1. CASE obuf' = Append(obuf, cur) BY <3>1, <4>1, AppendMembers
      <4>2. CASE obuf' = obuf BY <3>1, <4>2
      <4> QED BY <4>1, <4>2 DEF TaskSubmit
    <3> QED BY <1>0, <1>q, <3>2 DEF TypeOK, TypeQueues, TaskSubmit
  <2>3. TypeXc'
    BY <1>0, ConstantsOK DEF TypeOK, TypeXc, TaskSubmit
  <2>4. TypeHist'
    BY <1>0, ConstantsOK DEF TypeOK, TypeHist, UbKinds, TaskSubmit
  <2>5. TypeCall' /\ TypeInfo'
    BY <1>0 DEF TypeOK, TypeCall, TypeInfo, TaskSubmit
  <2> QED BY <2>1, <2>2, <2>3, <2>4, <2>5 DEF TypeOK
<1>2. LoopInv'
  BY <1>0, <1>q, ConstantsOK DEF TypeOK, TypeLoop, LoopInv, TaskSubmit
<1>3. ConnInv'
  BY <1>0, <1>q, ConstantsOK
     DEF ConnInv, TaskSubmit, Closing, Serving, Conns, MutexFree, Connected
<1>4. ListInv'
  BY <1>0, <1>q DEF ListInv, ConnInv, TaskSubmit, InHand, InCallback
<1>5. UbInv'
  BY <1>0
     DEF LoopInv, UbInv, InfoInv, CauseInv, TaskSubmit, InHand, InCallback,
         Owed, Holds, Defined
<1>6. ASSUME NEW d \in Callers PROVE InfoInv(d)'
  <2>1. CASE d = cur
    BY <1>0, <1>6, <1>q, <2>1
       DEF ListInv, InfoInv, TaskSubmit, Owed, InHand, InCallback, Holds,
           Serving
  <2>2. CASE d # cur
    BY <1>0, <1>6, <1>q, <2>2
       DEF ListInv, InfoInv, TaskSubmit, Owed, InHand, InCallback, Holds,
           Serving
  <2> QED BY <2>1, <2>2
<1>7. ASSUME NEW d \in Callers PROVE CauseInv(d)'
  <2>1. CASE d = cur
    BY <1>0, <1>7, <1>q, <2>1
       DEF ListInv, InfoInv, CauseInv, TaskSubmit, Owed, InHand, InCallback,
           Holds, Serving
  <2>2. CASE d # cur
    BY <1>0, <1>7, <1>q, <2>2
       DEF ListInv, InfoInv, CauseInv, TaskSubmit, Owed, InHand, InCallback,
           Holds, Serving
  <2> QED BY <2>1, <2>2
<1> QED BY <1>1, <1>2, <1>3, <1>4, <1>5, <1>6, <1>7 DEF IndInv

\* Writing out the output buffer keeps the invariant.
LEMMA HandleWriteStep ==
    ASSUME IndInv, NEW g \in Conns, HandleWrite(g)
    PROVE  IndInv'
<1>0. /\ TypeOK /\ LoopInv /\ ConnInv /\ ListInv /\ UbInv
      /\ \A d \in Callers : InfoInv(d) /\ CauseInv(d)
  BY DEF IndInv
<1>1. TypeOK'
  <2>1. TypeLoop'
    BY <1>0 DEF TypeOK, TypeLoop, LoopPCs, HandleWrite, Close
  <2>2. TypeQueues'
    <3>1. obuf \in Seq(Callers) /\ tx \in Seq(Callers) /\ Len(obuf) \in Nat
      BY <1>0 DEF TypeOK, TypeQueues
    <3>2. ASSUME NEW k \in 1..Len(obuf)
          PROVE  /\ SubSeq(obuf, k + 1, Len(obuf)) \in Seq(Callers)
                 /\ tx \o SubSeq(obuf, 1, k) \in Seq(Callers)
      <4>1. SubSeq(obuf, k + 1, Len(obuf)) \in Seq(Callers) BY <3>1
      <4>2. SubSeq(obuf, 1, k) \in Seq(Callers) BY <3>1
      <4> QED BY <3>1, <4>1, <4>2, ConcatProperties
    <3>3. obuf' \in Seq(Callers) /\ tx' \in Seq(Callers)
      BY <3>1, <3>2 DEF HandleWrite
    <3> QED BY <1>0, <3>3 DEF TypeOK, TypeQueues, HandleWrite
  <2>3. TypeXc'
    <3>1. writing' \in BOOLEAN
      <4>1. writing \in BOOLEAN BY <1>0 DEF TypeOK, TypeXc
      <4>2. \/ writing' = writing
            \/ \E k \in 1..Len(obuf) : writing' = (k < Len(obuf))
        BY Zenon DEF HandleWrite
      <4>3. ASSUME NEW k \in 1..Len(obuf), writing' = (k < Len(obuf))
            PROVE  writing' \in BOOLEAN
        BY <4>3
      <4> QED BY <4>1, <4>2, <4>3
    <3>2. /\ net' = net /\ UNCHANGED <<status, ctx, gen, pipe, inReconn, rpc>>
          /\ link' = link \/ link' = [link EXCEPT ![g] = "closing"]
      BY DEF HandleWrite, Close
    <3> QED BY <1>0, <3>1, <3>2 DEF TypeOK, TypeXc
  <2>4. TypeCall' /\ TypeInfo' /\ TypeHist'
    BY <1>0 DEF TypeOK, TypeCall, TypeInfo, TypeHist, HandleWrite
  <2> QED BY <2>1, <2>2, <2>3, <2>4 DEF TypeOK
<1>2. LoopInv'
  BY <1>0, ConstantsOK DEF LoopInv, HandleWrite, Close
<1>3. ConnInv'
  BY <1>0, ConstantsOK
     DEF TypeOK, TypeXc, ConnInv, HandleWrite, Close, Closing, Serving, Conns,
         MutexFree, Connected
<1>4. ListInv'
  BY <1>0 DEF ListInv, HandleWrite, Close, InHand, InCallback
<1>5. UbInv'
  BY <1>0
     DEF UbInv, HandleWrite, Close, InHand, InCallback, Owed, Holds, Defined
<1>6. ASSUME NEW d \in Callers PROVE InfoInv(d)'
  BY <1>0, <1>6
     DEF InfoInv, HandleWrite, Close, Owed, InHand, InCallback, Holds, Serving
<1>7. ASSUME NEW d \in Callers PROVE CauseInv(d)'
  BY <1>0, <1>7
     DEF InfoInv, CauseInv, HandleWrite, Close, Owed, InHand, InCallback,
         Holds, Serving
<1> QED BY <1>1, <1>2, <1>3, <1>4, <1>5, <1>6, <1>7 DEF IndInv

\* Reading replies off the socket keeps the invariant.
LEMMA HandleReadStep ==
    ASSUME IndInv, NEW g \in Conns, HandleRead(g)
    PROVE  IndInv'
<1>0. /\ TypeOK /\ LoopInv /\ ConnInv /\ ListInv /\ UbInv
      /\ \A d \in Callers : InfoInv(d) /\ CauseInv(d)
  BY DEF IndInv
<1>1. TypeOK'
  <2>1. TypeLoop'
    BY <1>0 DEF TypeOK, TypeLoop, LoopPCs, HandleRead, Close
  <2>2. TypeQueues'
    <3>1. rx \in Seq(Callers) /\ rbuf \in Seq(Callers) /\ Len(rx) \in Nat
      BY <1>0 DEF TypeOK, TypeQueues
    <3>2. ASSUME NEW k \in 1..Len(rx)
          PROVE  /\ SubSeq(rx, k + 1, Len(rx)) \in Seq(Callers)
                 /\ rbuf \o SubSeq(rx, 1, k) \in Seq(Callers)
      <4>1. SubSeq(rx, k + 1, Len(rx)) \in Seq(Callers) BY <3>1
      <4>2. SubSeq(rx, 1, k) \in Seq(Callers) BY <3>1
      <4> QED BY <3>1, <4>1, <4>2, ConcatProperties
    <3>3. rx' \in Seq(Callers) /\ rbuf' \in Seq(Callers)
      BY <3>1, <3>2 DEF HandleRead
    <3> QED BY <1>0, <3>3 DEF TypeOK, TypeQueues, HandleRead
  <2>3. TypeXc'
    BY <1>0 DEF TypeOK, TypeXc, HandleRead, Close
  <2>4. TypeCall' /\ TypeInfo' /\ TypeHist'
    BY <1>0 DEF TypeOK, TypeCall, TypeInfo, TypeHist, HandleRead
  <2> QED BY <2>1, <2>2, <2>3, <2>4 DEF TypeOK
<1>2. LoopInv'
  BY <1>0, ConstantsOK DEF LoopInv, HandleRead, Close
<1>3. ConnInv'
  BY <1>0, ConstantsOK
     DEF TypeOK, TypeXc, ConnInv, HandleRead, Close, Closing, Serving, Conns,
         MutexFree, Connected
<1>4. ListInv'
  BY <1>0 DEF ListInv, HandleRead, Close, InHand, InCallback
<1>5. UbInv'
  BY <1>0
     DEF UbInv, HandleRead, Close, InHand, InCallback, Owed, Holds, Defined
<1>6. ASSUME NEW d \in Callers PROVE InfoInv(d)'
  BY <1>0, <1>6
     DEF InfoInv, HandleRead, Close, Owed, InHand, InCallback, Holds, Serving
<1>7. ASSUME NEW d \in Callers PROVE CauseInv(d)'
  BY <1>0, <1>7
     DEF InfoInv, CauseInv, HandleRead, Close, Owed, InHand, InCallback,
         Holds, Serving
<1> QED BY <1>1, <1>2, <1>3, <1>4, <1>5, <1>6, <1>7 DEF IndInv

\* Shifting a callback off the reply queue puts its cmdInfo in the callback.
LEMMA ProcessStep ==
    ASSUME IndInv, Process
    PROVE  IndInv'
<1>0. /\ TypeOK /\ LoopInv /\ ConnInv /\ ListInv /\ UbInv
      /\ \A d \in Callers : InfoInv(d) /\ CauseInv(d)
  BY DEF IndInv
<1>q. replies # <<>>
        => /\ Head(replies) \in Callers /\ Tail(replies) \in Seq(Callers)
           /\ NoDup(Tail(replies)) /\ Contains(replies, Head(replies))
           /\ \A d \in Callers : Contains(Tail(replies), d)
                  <=> Contains(replies, d) /\ d # Head(replies)
  BY <1>0, TailMembers DEF TypeOK, TypeQueues, ListInv
<1>1. TypeOK'
  <2>1. TypeLoop'
    BY <1>0 DEF TypeOK, TypeLoop, TypeQueues, LoopPCs, Process
  <2>2. TypeQueues'
    <3>1. rbuf # <<>> => Tail(rbuf) \in Seq(Callers)
      BY <1>0 DEF TypeOK, TypeQueues
    <3>2. /\ \/ rbuf' = rbuf /\ replies' = replies
             \/ /\ rbuf # <<>> /\ rbuf' = Tail(rbuf)
                /\ replies # <<>> /\ replies' = Tail(replies)
          /\ UNCHANGED <<cmd_list, obuf, tx, rx, executed>>
      BY DEF Process
    <3> QED BY <1>0, <1>q, <3>1, <3>2 DEF TypeOK, TypeQueues
  <2>3. TypeHist'
    BY <1>0 DEF TypeOK, TypeHist, UbKinds, Process
  <2>4. TypeCall' /\ TypeInfo' /\ TypeXc'
    BY <1>0 DEF TypeOK, TypeCall, TypeInfo, TypeXc, Process
  <2> QED BY <2>1, <2>2, <2>3, <2>4 DEF TypeOK
<1>2. LoopInv'
  BY <1>q, ConstantsOK DEF LoopInv, Process
<1>3. ConnInv'
  BY <1>0, <1>q, ConstantsOK
     DEF TypeOK, TypeLoop, TypeQueues, ConnInv, Process, Closing, Serving,
         Conns, MutexFree, Connected
<1>4. ListInv'
  BY <1>0, <1>q DEF ListInv, Process, InHand, InCallback
<1>5. UbInv'
  BY <1>0 DEF UbInv, Process, InCallback, Owed, Holds, Defined
<1>6. ASSUME NEW d \in Callers PROVE InfoInv(d)'
  <2>1. CASE d = Head(replies)
    BY <1>0, <1>6, <1>q, <2>1
       DEF InfoInv, Process, Owed, InHand, InCallback, Holds, Serving
  <2>2. CASE d # Head(replies)
    BY <1>0, <1>6, <1>q, <2>2
       DEF InfoInv, Process, Owed, InHand, InCallback, Holds, Serving
  <2> QED BY <2>1, <2>2
<1>7. ASSUME NEW d \in Callers PROVE CauseInv(d)'
  <2>1. CASE d = Head(replies)
    BY <1>0, <1>7, <1>q, <2>1
       DEF CauseInv, Process, Owed, InHand, InCallback, Holds, Serving
  <2>2. CASE d # Head(replies)
    BY <1>0, <1>7, <1>q, <2>2
       DEF CauseInv, Process, Owed, InHand, InCallback, Holds, Serving
  <2> QED BY <2>1, <2>2
<1> QED BY <1>1, <1>2, <1>3, <1>4, <1>5, <1>6, <1>7 DEF IndInv

\* replyCallback's decrement decides who frees the cmdInfo.
LEMMA CbDecStep ==
    ASSUME IndInv, CbDec
    PROVE  IndInv'
<1>0. /\ TypeOK /\ LoopInv /\ ConnInv /\ ListInv /\ UbInv
      /\ \A d \in Callers : InfoInv(d) /\ CauseInv(d)
  BY DEF IndInv
<1>u. Alive(cur)
  BY <1>0 DEF LoopInv, InfoInv, Owed, InHand, CbDec
<1>1. TypeOK'
  <2>1. TypeInfo'
    BY <1>0, <1>u, ConstantsOK
       DEF TypeOK, TypeInfo, LoopInv, InfoInv, Owed, Holds, InHand,
           InCallback, CbDec, AfterCallback
  <2>2. TypeLoop'
    BY <1>0, <1>u, ConstantsOK DEF TypeOK, TypeLoop, LoopPCs, CbDec, AfterCallback
  <2>3. TypeCall' /\ TypeQueues' /\ TypeXc' /\ TypeHist'
    BY <1>0, <1>u
       DEF TypeOK, TypeCall, TypeQueues, TypeXc, TypeHist, CbDec,
           AfterCallback
  <2> QED BY <2>1, <2>2, <2>3 DEF TypeOK
<1>2. LoopInv'
  BY <1>0, <1>u, ConstantsOK DEF LoopInv, CbDec, AfterCallback
<1>3. ConnInv'
  BY <1>0, <1>u, ConstantsOK
     DEF ConnInv, CbDec, AfterCallback, Closing, Serving, Conns, MutexFree,
         Connected
<1>4. ListInv'
  BY <1>0, <1>u DEF ListInv, ConnInv, CbDec, AfterCallback, InHand, InCallback
<1>5. UbInv'
  BY <1>0, <1>u
     DEF UbInv, CbDec, AfterCallback, InHand, InCallback, Owed, Holds, Defined
<1>6. ASSUME NEW d \in Callers PROVE InfoInv(d)'
  <2>1. CASE d = cur
    BY <1>0, <1>u, <1>6, <2>1
       DEF TypeOK, TypeInfo, ListInv, InfoInv, CbDec, AfterCallback, Owed,
           InHand, InCallback, Holds, Serving
  <2>2. CASE d # cur
    BY <1>0, <1>u, <1>6, <2>2
       DEF TypeOK, TypeInfo, ListInv, InfoInv, CbDec, AfterCallback, Owed,
           InHand, InCallback, Holds, Serving
  <2> QED BY <2>1, <2>2
<1>7. ASSUME NEW d \in Callers PROVE CauseInv(d)'
  <2>1. CASE d = cur
    BY <1>0, <1>u, <1>7, <2>1
       DEF ListInv, InfoInv, CauseInv, CbDec, AfterCallback, Owed, InHand,
           InCallback, Holds, Serving
  <2>2. CASE d # cur
    BY <1>0, <1>u, <1>7, <2>2
       DEF TypeOK, TypeInfo, ListInv, InfoInv, CauseInv, CbDec, AfterCallback,
           Owed, InHand, InCallback, Holds, Serving
  <2> QED BY <2>1, <2>2
<1> QED BY <1>1, <1>2, <1>3, <1>4, <1>5, <1>6, <1>7 DEF IndInv

\* replyCallback stores only into a cmdInfo its caller may have left by
\* timeout.
LEMMA CbStoreStep ==
    ASSUME IndInv, CbStore
    PROVE  IndInv'
<1>0. /\ TypeOK /\ LoopInv /\ ConnInv /\ ListInv /\ UbInv
      /\ \A d \in Callers : InfoInv(d) /\ CauseInv(d)
  BY DEF IndInv
<1>1. TypeOK'
  <2>1. TypeInfo'
    BY <1>0, ConstantsOK
       DEF TypeOK, TypeInfo, TypeLoop, InHand, InCallback, CbStore
  <2>2. TypeLoop'
    BY <1>0 DEF TypeOK, TypeLoop, LoopPCs, CbStore
  <2>3. TypeHist'
    BY <1>0 DEF TypeOK, TypeHist, UbKinds, CbStore
  <2>4. TypeCall' /\ TypeQueues' /\ TypeXc'
    BY <1>0 DEF TypeOK, TypeCall, TypeQueues, TypeXc, CbStore
  <2> QED BY <2>1, <2>2, <2>3, <2>4 DEF TypeOK
<1>2. LoopInv'
  BY <1>0, ConstantsOK DEF LoopInv, CbStore
<1>3. ConnInv'
  BY <1>0, ConstantsOK
     DEF ConnInv, CbStore, Closing, Serving, Conns, MutexFree, Connected
<1>4. ListInv'
  BY <1>0 DEF ListInv, CbStore, InHand, InCallback
<1>5. UbInv'
  BY <1>0
     DEF LoopInv, UbInv, InfoInv, CauseInv, CbStore, InHand, InCallback, Owed,
         Holds, Defined
<1>6. ASSUME NEW d \in Callers PROVE InfoInv(d)'
  <2>1. CASE d = cur
    BY <1>0, <1>6, <2>1
       DEF ListInv, InfoInv, CbStore, Owed, InHand, InCallback, Holds, Serving
  <2>2. CASE d # cur
    BY <1>0, <1>6, <2>2
       DEF TypeOK, TypeInfo, InfoInv, CbStore, Owed, InHand, InCallback,
           Holds, Serving
  <2> QED BY <2>1, <2>2
<1>7. ASSUME NEW d \in Callers PROVE CauseInv(d)'
  <2>1. CASE d = cur
    BY <1>0, <1>7, <2>1
       DEF InfoInv, CauseInv, CbStore, Owed, InHand, InCallback, Holds,
           Serving
  <2>2. CASE d # cur
    BY <1>0, <1>7, <2>2
       DEF TypeOK, TypeInfo, InfoInv, CauseInv, CbStore, Owed, InHand,
           InCallback, Holds, Serving
  <2> QED BY <2>1, <2>2
<1> QED BY <1>1, <1>2, <1>3, <1>4, <1>5, <1>6, <1>7 DEF IndInv

\* replyCallback's sem_post wakes the caller at most once.
LEMMA CbPostStep ==
    ASSUME IndInv, CbPost
    PROVE  IndInv'
<1>0. /\ TypeOK /\ LoopInv /\ ConnInv /\ ListInv /\ UbInv
      /\ \A d \in Callers : InfoInv(d) /\ CauseInv(d)
  BY DEF IndInv
<1>1. TypeOK'
  <2>1. TypeInfo'
    BY <1>0, ConstantsOK
       DEF TypeOK, TypeInfo, InfoInv, InHand, InCallback, CbPost,
           AfterCallback
  <2>2. TypeLoop'
    BY <1>0 DEF TypeOK, TypeLoop, LoopPCs, CbPost, AfterCallback
  <2>3. TypeHist'
    BY <1>0 DEF TypeOK, TypeHist, UbKinds, CbPost
  <2>4. TypeCall' /\ TypeQueues' /\ TypeXc'
    BY <1>0 DEF TypeOK, TypeCall, TypeQueues, TypeXc, CbPost
  <2> QED BY <2>1, <2>2, <2>3, <2>4 DEF TypeOK
<1>2. LoopInv'
  BY <1>0, ConstantsOK DEF LoopInv, CbPost, AfterCallback
<1>3. ConnInv'
  BY <1>0, ConstantsOK
     DEF ConnInv, CbPost, AfterCallback, Closing, Serving, Conns, MutexFree,
         Connected
<1>4. ListInv'
  BY <1>0 DEF ListInv, CbPost, AfterCallback, InHand, InCallback
<1>5. UbInv'
  BY <1>0
     DEF LoopInv, UbInv, InfoInv, CauseInv, CbPost, AfterCallback, InHand,
         InCallback, Owed, Holds, Defined
<1>6. ASSUME NEW d \in Callers PROVE InfoInv(d)'
  <2>1. CASE d = cur
    BY <1>0, <1>6, <2>1
       DEF ListInv, InfoInv, CbPost, AfterCallback, Owed, InHand, InCallback,
           Holds, Serving
  <2>2. CASE d # cur
    BY <1>0, <1>6, <2>2
       DEF TypeOK, TypeInfo, InfoInv, CbPost, AfterCallback, Owed, InHand,
           InCallback, Holds, Serving
  <2> QED BY <2>1, <2>2
<1>7. ASSUME NEW d \in Callers PROVE CauseInv(d)'
  <2>1. CASE d = cur
    BY <1>0, <1>7, <2>1
       DEF InfoInv, CauseInv, CbPost, AfterCallback, Owed, InHand, InCallback,
           Holds, Serving
  <2>2. CASE d # cur
    BY <1>0, <1>7, <2>2
       DEF InfoInv, CauseInv, CbPost, AfterCallback, Owed, InHand, InCallback,
           Holds, Serving
  <2> QED BY <2>1, <2>2
<1> QED BY <1>1, <1>2, <1>3, <1>4, <1>5, <1>6, <1>7 DEF IndInv

\* __redisAsyncFree answers each queued callback with NULL, one at a time.
LEMMA FreeRepliesStep ==
    ASSUME IndInv, FreeReplies
    PROVE  IndInv'
<1>0. /\ TypeOK /\ LoopInv /\ ConnInv /\ ListInv /\ UbInv
      /\ \A d \in Callers : InfoInv(d) /\ CauseInv(d)
  BY DEF IndInv
<1>q. replies # <<>>
        => /\ Head(replies) \in Callers /\ Tail(replies) \in Seq(Callers)
           /\ NoDup(Tail(replies)) /\ Contains(replies, Head(replies))
           /\ \A d \in Callers : Contains(Tail(replies), d)
                  <=> Contains(replies, d) /\ d # Head(replies)
  BY <1>0, TailMembers DEF TypeOK, TypeQueues, ListInv
<1>1. TypeOK'
  <2>1. TypeLoop'
    BY <1>0, <1>q DEF TypeOK, TypeLoop, LoopPCs, FreeReplies
  <2>2. TypeQueues'
    BY <1>0, <1>q DEF TypeOK, TypeQueues, FreeReplies
  <2>3. TypeXc'
    BY <1>0 DEF TypeOK, TypeXc, FreeReplies
  <2>4. TypeCall' /\ TypeInfo' /\ TypeHist'
    BY <1>0 DEF TypeOK, TypeCall, TypeInfo, TypeHist, FreeReplies
  <2> QED BY <2>1, <2>2, <2>3, <2>4 DEF TypeOK
<1>2. LoopInv'
  BY <1>q, ConstantsOK DEF LoopInv, FreeReplies
<1>3. ConnInv'
  BY <1>0, <1>q, ConstantsOK
     DEF ConnInv, FreeReplies, Closing, Serving, Conns, MutexFree, Connected
<1>4. ListInv'
  BY <1>0, <1>q DEF ListInv, FreeReplies, InHand, InCallback
<1>5. UbInv'
  BY <1>0 DEF UbInv, FreeReplies, InCallback, Owed, Holds, Defined
<1>6. ASSUME NEW d \in Callers PROVE InfoInv(d)'
  <2>1. CASE d = Head(replies)
    BY <1>0, <1>6, <1>q, <2>1
       DEF InfoInv, FreeReplies, Owed, InHand, InCallback, Holds, Serving
  <2>2. CASE d # Head(replies)
    BY <1>0, <1>6, <1>q, <2>2
       DEF InfoInv, FreeReplies, Owed, InHand, InCallback, Holds, Serving
  <2> QED BY <2>1, <2>2
<1>7. ASSUME NEW d \in Callers PROVE CauseInv(d)'
  <2>1. CASE d = Head(replies)
    BY <1>0, <1>7, <1>q, <2>1
       DEF CauseInv, FreeReplies, Owed, InHand, InCallback, Holds, Serving
  <2>2. CASE d # Head(replies)
    BY <1>0, <1>7, <1>q, <2>2
       DEF CauseInv, FreeReplies, Owed, InHand, InCallback, Holds, Serving
  <2> QED BY <2>1, <2>2
<1> QED BY <1>1, <1>2, <1>3, <1>4, <1>5, <1>6, <1>7 DEF IndInv

\* disconnectedCallback pops each command that was never submitted.
LEMMA DiscPopStep ==
    ASSUME IndInv, DiscPop
    PROVE  IndInv'
<1>0. /\ TypeOK /\ LoopInv /\ ConnInv /\ ListInv /\ UbInv
      /\ \A d \in Callers : InfoInv(d) /\ CauseInv(d)
  BY DEF IndInv
<1>q. cmd_list # <<>>
        => /\ Head(cmd_list) \in Callers /\ Tail(cmd_list) \in Seq(Callers)
           /\ NoDup(Tail(cmd_list)) /\ Contains(cmd_list, Head(cmd_list))
           /\ \A d \in Callers : Contains(Tail(cmd_list), d)
                  <=> Contains(cmd_list, d) /\ d # Head(cmd_list)
  BY <1>0, TailMembers DEF TypeOK, TypeQueues, ListInv
<1>1. TypeOK'
  <2>1. TypeLoop'
    BY <1>0, <1>q, ConstantsOK DEF TypeOK, TypeLoop, LoopPCs, DiscPop
  <2>2. TypeQueues'
    BY <1>0, <1>q DEF TypeOK, TypeQueues, DiscPop
  <2>3. TypeXc'
    BY <1>0, ConstantsOK DEF TypeOK, TypeXc, DiscPop
  <2>4. TypeCall' /\ TypeInfo' /\ TypeHist'
    BY <1>0 DEF TypeOK, TypeCall, TypeInfo, TypeHist, DiscPop
  <2> QED BY <2>1, <2>2, <2>3, <2>4 DEF TypeOK
<1>2. LoopInv'
  BY <1>0, <1>q, ConstantsOK DEF LoopInv, DiscPop
<1>3. ConnInv'
  <2>1. CASE cmd_list = <<>>
    <3>1. /\ status' = "DISCONNECTING" /\ lpc' = "reconnAdd" /\ Closing
          /\ UNCHANGED <<ctx, link, gen, rpc, replies, cmd_list, inReconn>>
      BY <2>1 DEF DiscPop, Closing
    <3>2. replies = <<>>
      BY <1>0 DEF ConnInv, DiscPop
    <3> QED BY <1>0, <2>1, <3>1, <3>2 DEF ConnInv, Serving
  <2>2. CASE cmd_list # <<>>
    BY <1>0, <2>2 DEF ConnInv, DiscPop, Closing
  <2> QED BY <2>1, <2>2
<1>4. ListInv'
  BY <1>0, <1>q DEF ListInv, ConnInv, DiscPop, InHand, InCallback
<1>5. UbInv'
  BY <1>0 DEF UbInv, DiscPop, InHand, InCallback, Owed, Holds, Defined
<1>6. ASSUME NEW d \in Callers PROVE InfoInv(d)'
  <2>1. CASE d = Head(cmd_list)
    BY <1>0, <1>6, <1>q, <2>1
       DEF ListInv, InfoInv, DiscPop, Owed, InHand, InCallback, Holds, Serving
  <2>2. CASE d # Head(cmd_list)
    BY <1>0, <1>6, <1>q, <2>2
       DEF ListInv, InfoInv, DiscPop, Owed, InHand, InCallback, Holds, Serving
  <2> QED BY <2>1, <2>2
<1>7. ASSUME NEW d \in Callers PROVE CauseInv(d)'
  <2>1. CASE d = Head(cmd_list)
    BY <1>0, <1>7, <1>q, <2>1
       DEF ListInv, InfoInv, CauseInv, DiscPop, Owed, InHand, InCallback,
           Holds, Serving
  <2>2. CASE d # Head(cmd_list)
    BY <1>0, <1>7, <1>q, <2>2
       DEF ListInv, InfoInv, CauseInv, DiscPop, Owed, InHand, InCallback,
           Holds, Serving
  <2> QED BY <2>1, <2>2
<1> QED BY <1>1, <1>2, <1>3, <1>4, <1>5, <1>6, <1>7 DEF IndInv

\* disconnectedCallback drops the loop's reference of a popped command.
LEMMA DiscDecStep ==
    ASSUME IndInv, DiscDec
    PROVE  IndInv'
<1>0. /\ TypeOK /\ LoopInv /\ ConnInv /\ ListInv /\ UbInv
      /\ \A d \in Callers : InfoInv(d) /\ CauseInv(d)
  BY DEF IndInv
<1>u. Alive(cur)
  BY <1>0 DEF LoopInv, InfoInv, Owed, InHand, DiscDec
<1>d. /\ ref' = [ref EXCEPT ![cur] = @ - 1]
      /\ life' = [life EXCEPT ![cur] = IF ref[cur] - 1 = 0 THEN "freed" ELSE @]
      /\ lpc = "discDec" /\ lpc' = "discPop" /\ cur' = NULL
      /\ UNCHANGED <<pc, reply, sem, cmd_list, replies, expired, fast>>
  BY <1>u DEF DiscDec
<1>1. TypeOK'
  <2>1. TypeInfo'
    BY <1>0, <1>u, ConstantsOK
       DEF TypeOK, TypeInfo, LoopInv, InfoInv, Owed, InHand, InCallback,
           DiscDec
  <2>2. TypeLoop'
    BY <1>0, <1>u DEF TypeOK, TypeLoop, LoopPCs, DiscDec
  <2>3. TypeCall' /\ TypeQueues' /\ TypeXc' /\ TypeHist'
    BY <1>0, <1>u DEF TypeOK, TypeCall, TypeQueues, TypeXc, TypeHist, DiscDec
  <2> QED BY <2>1, <2>2, <2>3 DEF TypeOK
<1>2. LoopInv'
  BY <1>u, ConstantsOK DEF LoopInv, DiscDec
<1>3. ConnInv'
  BY <1>0, <1>u, ConstantsOK
     DEF ConnInv, DiscDec, Closing, Serving, Conns, MutexFree, Connected
<1>4. ListInv'
  BY <1>0, <1>u DEF ListInv, DiscDec, InHand, InCallback
<1>5. UbInv'
  BY <1>0, <1>u DEF UbInv, DiscDec, InHand, InCallback, Owed, Holds, Defined
<1>6. ASSUME NEW d \in Callers PROVE InfoInv(d)'
  <2>1. CASE d = cur
    BY <1>0, <1>u, <1>6, <2>1
       DEF TypeOK, TypeInfo, ListInv, InfoInv, DiscDec, Owed, InHand,
           InCallback, Holds, Serving
  <2>2. CASE d # cur
    BY <1>0, <1>d, <1>6, <2>2
       DEF TypeOK, TypeInfo, InfoInv, Owed, InHand, InCallback, Holds, Serving
  <2> QED BY <2>1, <2>2
<1>7. ASSUME NEW d \in Callers PROVE CauseInv(d)'
  <2>1. CASE d = cur
    BY <1>0, <1>u, <1>7, <2>1
       DEF InfoInv, CauseInv, DiscDec, Owed, InHand, InCallback, Holds,
           Serving
  <2>2. CASE d # cur
    BY <1>0, <1>d, <1>7, <2>2
       DEF TypeOK, TypeInfo, InfoInv, CauseInv, Owed, InHand, InCallback,
           Holds, Serving
  <2> QED BY <2>1, <2>2
<1> QED BY <1>1, <1>2, <1>3, <1>4, <1>5, <1>6, <1>7 DEF IndInv

\* The lost connection is put on reconn_list once.
LEMMA ReconnAddStep ==
    ASSUME IndInv, ReconnAdd
    PROVE  IndInv'
<1>0. /\ TypeOK /\ LoopInv /\ ConnInv /\ ListInv /\ UbInv
      /\ \A d \in Callers : InfoInv(d) /\ CauseInv(d)
  BY DEF IndInv
<1>1. TypeOK'
  <2>1. TypeLoop'
    BY <1>0 DEF TypeOK, TypeLoop, LoopPCs, ReconnAdd
  <2>2. TypeXc'
    BY <1>0 DEF TypeOK, TypeXc, ReconnAdd
  <2>3. TypeCall' /\ TypeInfo' /\ TypeQueues' /\ TypeHist'
    BY <1>0 DEF TypeOK, TypeCall, TypeInfo, TypeQueues, TypeHist, ReconnAdd
  <2> QED BY <2>1, <2>2, <2>3 DEF TypeOK
<1>2. LoopInv'
  BY ConstantsOK DEF LoopInv, ReconnAdd
<1>3. ConnInv'
  BY <1>0, ConstantsOK
     DEF ConnInv, ReconnAdd, Serving, Conns, MutexFree, Connected
<1>4. ListInv'
  BY <1>0 DEF ListInv, ReconnAdd, InHand, InCallback
<1>5. UbInv'
  BY <1>0 DEF UbInv, ReconnAdd, InHand, InCallback, Owed, Holds, Defined
<1>6. ASSUME NEW d \in Callers PROVE InfoInv(d)'
  BY <1>0, <1>6
     DEF InfoInv, ReconnAdd, Owed, InHand, InCallback, Holds, Serving
<1>7. ASSUME NEW d \in Callers PROVE CauseInv(d)'
  BY <1>0, <1>7
     DEF InfoInv, CauseInv, ReconnAdd, Owed, InHand, InCallback, Holds,
         Serving
<1> QED BY <1>1, <1>2, <1>3, <1>4, <1>5, <1>6, <1>7 DEF IndInv

\* Freeing the context leaves none in xc->ctx that a caller would use.
LEMMA FreeAcStep ==
    ASSUME IndInv, FreeAc
    PROVE  IndInv'
<1>0. /\ TypeOK /\ LoopInv /\ ConnInv /\ ListInv /\ UbInv
      /\ \A d \in Callers : InfoInv(d) /\ CauseInv(d)
  BY DEF IndInv
<1>q. cmd_list = <<>> /\ \A d \in Callers : ~Contains(cmd_list, d)
  BY <1>0, EmptyMembers DEF ConnInv, FreeAc
<1>1. TypeOK'
  <2>1. TypeInfo'
    BY <1>0 DEF TypeOK, TypeInfo, FreeAc
  <2>2. TypeLoop'
    BY <1>0 DEF TypeOK, TypeLoop, LoopPCs, FreeAc
  <2>3. TypeQueues'
    <3>1. /\ cmd_list' \in {cmd_list, <<>>} /\ obuf' \in {obuf, <<>>}
          /\ rbuf' \in {rbuf, <<>>} /\ tx' \in {tx, <<>>}
          /\ rx' \in {rx, <<>>} /\ UNCHANGED <<replies, executed>>
      BY DEF FreeAc
    <3>2. <<>> \in Seq(Callers)
      BY EmptySeq
    <3> QED BY <1>0, <3>1, <3>2 DEF TypeOK, TypeQueues
  <2>4. TypeXc'
    BY <1>0 DEF TypeOK, TypeXc, FreeAc
  <2>5. TypeCall' /\ TypeHist'
    BY <1>0 DEF TypeOK, TypeCall, TypeHist, FreeAc
  <2> QED BY <2>1, <2>2, <2>3, <2>4, <2>5 DEF TypeOK
<1>2. LoopInv'
  BY ConstantsOK DEF LoopInv, FreeAc
<1>3. ConnInv'
  BY <1>0, <1>q, ConstantsOK
     DEF ConnInv, FreeAc, Serving, Conns, MutexFree, Connected
<1>4. ListInv'
  BY <1>0, <1>q DEF ListInv, FreeAc, InHand, InCallback
<1>5. UbInv'
  BY <1>0 DEF UbInv, FreeAc, InCallback, Owed, Holds, Defined
<1>6. ASSUME NEW d \in Callers PROVE InfoInv(d)'
  BY <1>0, <1>6, <1>q
     DEF InfoInv, FreeAc, Owed, InHand, InCallback, Holds, Serving
<1>7. ASSUME NEW d \in Callers PROVE CauseInv(d)'
  BY <1>0, <1>7, <1>q
     DEF CauseInv, FreeAc, Owed, InHand, InCallback, Holds, Serving
<1> QED BY <1>1, <1>2, <1>3, <1>4, <1>5, <1>6, <1>7 DEF IndInv

\* The reconnect thread's new context replaces the freed one.
LEMMA ReconnectAttachStep ==
    ASSUME IndInv, ReconnectAttach
    PROVE  IndInv'
<1>0. /\ TypeOK /\ LoopInv /\ ConnInv /\ ListInv /\ UbInv
      /\ \A d \in Callers : InfoInv(d) /\ CauseInv(d)
  BY DEF IndInv
<1>1. TypeOK'
  <2>1. TypeXc'
    BY <1>0, ConstantsOK DEF TypeOK, TypeXc, Conns, ReconnectAttach
  <2>2. TypeCall' /\ TypeInfo' /\ TypeLoop' /\ TypeQueues' /\ TypeHist'
    BY <1>0
       DEF TypeOK, TypeCall, TypeInfo, TypeLoop, TypeQueues, TypeHist,
           ReconnectAttach
  <2> QED BY <2>1, <2>2 DEF TypeOK
<1>2. LoopInv'
  BY <1>0, ConstantsOK DEF LoopInv, ReconnectAttach
<1>3. ConnInv'
  BY <1>0, ConstantsOK
     DEF ConnInv, ReconnectAttach, Closing, Serving, Conns, MutexFree,
         Connected
<1>4. ListInv'
  BY <1>0 DEF ListInv, ConnInv, ReconnectAttach, InHand, InCallback
<1>5. UbInv'
  BY <1>0 DEF UbInv, ReconnectAttach, InHand, InCallback, Owed, Holds, Defined
<1>6. ASSUME NEW d \in Callers PROVE InfoInv(d)'
  BY <1>0, <1>6
     DEF ListInv, InfoInv, ReconnectAttach, Owed, InHand, InCallback, Holds,
         Serving
<1>7. ASSUME NEW d \in Callers PROVE CauseInv(d)'
  BY <1>0, <1>7
     DEF ListInv, InfoInv, CauseInv, ReconnectAttach, Owed, InHand,
         InCallback, Holds, Serving
<1> QED BY <1>1, <1>2, <1>3, <1>4, <1>5, <1>6, <1>7 DEF IndInv

\* A connection that is established is CONNECTED with a live context.
LEMMA HandleConnectStep ==
    ASSUME IndInv, NEW g \in Conns, HandleConnect(g)
    PROVE  IndInv'
<1>0. /\ TypeOK /\ LoopInv /\ ConnInv /\ ListInv /\ UbInv
      /\ \A d \in Callers : InfoInv(d) /\ CauseInv(d)
  BY DEF IndInv
<1>1. TypeOK'
  <2>1. TypeXc'
    BY <1>0 DEF TypeOK, TypeXc, HandleConnect
  <2>2. TypeCall' /\ TypeInfo' /\ TypeLoop' /\ TypeQueues' /\ TypeHist'
    BY <1>0
       DEF TypeOK, TypeCall, TypeInfo, TypeLoop, TypeQueues, TypeHist,
           HandleConnect
  <2> QED BY <2>1, <2>2 DEF TypeOK
<1>2. LoopInv'
  BY ConstantsOK DEF LoopInv, HandleConnect
<1>3. ConnInv'
  BY <1>0, ConstantsOK
     DEF TypeOK, TypeXc, ConnInv, HandleConnect, Closing, Serving, Conns,
         MutexFree, Connected
<1>4. ListInv'
  BY <1>0 DEF ListInv, HandleConnect, InHand, InCallback
<1>5. UbInv'
  BY <1>0 DEF UbInv, HandleConnect, InHand, InCallback, Owed, Holds, Defined
<1>6. ASSUME NEW d \in Callers PROVE InfoInv(d)'
  BY <1>0, <1>6
     DEF InfoInv, HandleConnect, Owed, InHand, InCallback, Holds, Serving
<1>7. ASSUME NEW d \in Callers PROVE CauseInv(d)'
  BY <1>0, <1>7
     DEF InfoInv, CauseInv, HandleConnect, Owed, InHand, InCallback, Holds,
         Serving
<1> QED BY <1>1, <1>2, <1>3, <1>4, <1>5, <1>6, <1>7 DEF IndInv

\* A context that fails to connect while the status is down has no command,
\* and nothing but its end is left of it.
LEMMA FailsEmpty ==
    ASSUME IndInv, NEW g \in Conns, HandleConnectError(g) \/ OrphanError(g)
    PROVE  /\ link' = [link EXCEPT ![g] = "freed"]
           /\ writing' = (writing /\ g # gen) /\ lpc' = lpc
<1>1. g = gen => status # "CONNECTED" /\ cmd_list = <<>> /\ replies = <<>>
  BY DEF IndInv, ConnInv, HandleConnectError, OrphanError
<1> QED BY <1>1 DEF HandleConnectError, OrphanError

\* A failed attempt to connect leaves the connection down.
LEMMA HandleConnectErrorStep ==
    ASSUME IndInv, NEW g \in Conns, HandleConnectError(g)
    PROVE  IndInv'
<1>0. /\ TypeOK /\ LoopInv /\ ConnInv /\ ListInv /\ UbInv
      /\ \A d \in Callers : InfoInv(d) /\ CauseInv(d)
  BY DEF IndInv
<1>u. /\ link' = [link EXCEPT ![g] = "freed"]
      /\ writing' = (writing /\ g # gen) /\ lpc' = lpc
  BY FailsEmpty
<1>1. TypeOK'
  <2>1. TypeXc'
    <3>1. writing' \in BOOLEAN
      BY <1>u, Zenon
    <3>2. link' \in [Conns -> {"none", "connecting", "connected", "closing",
                              "failing", "leaving", "orphan", "freed"}]
      BY <1>0, <1>u DEF TypeOK, TypeXc
    <3> QED BY <1>0, <3>1, <3>2 DEF TypeOK, TypeXc, HandleConnectError
  <2>2. TypeCall' /\ TypeInfo' /\ TypeLoop' /\ TypeQueues' /\ TypeHist'
    BY <1>0, <1>u
       DEF TypeOK, TypeCall, TypeInfo, TypeLoop, TypeQueues, TypeHist,
           HandleConnectError
  <2> QED BY <2>1, <2>2 DEF TypeOK
<1>2. LoopInv'
  BY <1>0, <1>u, ConstantsOK DEF LoopInv, HandleConnectError
<1>3. ConnInv'
  BY <1>0, <1>u, ConstantsOK
     DEF ConnInv, HandleConnectError, Serving, Conns, MutexFree, Connected
<1>4. ListInv'
  BY <1>0, <1>u DEF ListInv, HandleConnectError, InHand, InCallback
<1>5. UbInv'
  BY <1>0, <1>u
     DEF UbInv, HandleConnectError, InHand, InCallback, Owed, Holds, Defined
<1>6. ASSUME NEW d \in Callers PROVE InfoInv(d)'
  BY <1>0, <1>u, <1>6
     DEF InfoInv, HandleConnectError, Owed, InHand, InCallback, Holds, Serving
<1>7. ASSUME NEW d \in Callers PROVE CauseInv(d)'
  BY <1>0, <1>u, <1>7
     DEF InfoInv, CauseInv, HandleConnectError, Owed, InHand, InCallback,
         Holds, Serving
<1> QED BY <1>1, <1>2, <1>3, <1>4, <1>5, <1>6, <1>7 DEF IndInv

\* The reconnect thread that is woken takes the connection off reconn_list.
LEMMA ReconnectWakeStep ==
    ASSUME IndInv, ReconnectWake
    PROVE  IndInv'
<1>0. /\ TypeOK /\ LoopInv /\ ConnInv /\ ListInv /\ UbInv
      /\ \A d \in Callers : InfoInv(d) /\ CauseInv(d)
  BY DEF IndInv
<1>1. TypeOK'
  <2>1. TypeXc'
    <3>1. /\ inReconn \in BOOLEAN /\ inReconn' \in {inReconn, FALSE}
          /\ ctx' \in {ctx, 0}
      BY <1>0 DEF TypeOK, TypeXc, ReconnectWake
    <3>2. inReconn' \in BOOLEAN BY <3>1, Zenon
    <3> QED BY <1>0, <3>2, ConstantsOK DEF TypeOK, TypeXc, ReconnectWake
  <2>2. TypeCall' /\ TypeInfo' /\ TypeLoop' /\ TypeQueues' /\ TypeHist'
    BY <1>0
       DEF TypeOK, TypeCall, TypeInfo, TypeLoop, TypeQueues, TypeHist,
           ReconnectWake
  <2> QED BY <2>1, <2>2 DEF TypeOK
<1>2. LoopInv'
  BY <1>0 DEF LoopInv, ReconnectWake
<1>3. ConnInv'
  BY <1>0, ConstantsOK
     DEF ConnInv, ReconnectWake, Closing, Conns, MutexFree, Connected
<1>4. ListInv'
  BY <1>0 DEF ListInv, ReconnectWake, InHand, InCallback
<1>5. UbInv'
  BY <1>0 DEF UbInv, ReconnectWake, InCallback, Owed, Holds, Defined
<1>6. ASSUME NEW d \in Callers PROVE InfoInv(d)'
  BY <1>0, <1>6
     DEF InfoInv, ReconnectWake, Owed, InHand, InCallback, Holds, Serving
<1>7. ASSUME NEW d \in Callers PROVE CauseInv(d)'
  BY <1>0, <1>7
     DEF CauseInv, ReconnectWake, Owed, InHand, InCallback, Holds, Serving
<1> QED BY <1>1, <1>2, <1>3, <1>4, <1>5, <1>6, <1>7 DEF IndInv

\* The reconnect thread that times out leaves its context orphaned.
LEMMA ReconnectTimeoutStep ==
    ASSUME IndInv, ReconnectTimeout
    PROVE  IndInv'
<1>0. /\ TypeOK /\ LoopInv /\ ConnInv /\ ListInv /\ UbInv
      /\ \A d \in Callers : InfoInv(d) /\ CauseInv(d)
  BY DEF IndInv
<1>u. status # "CONNECTED"
  BY <1>0 DEF ConnInv, ReconnectTimeout
<1>1. TypeOK'
  <2>1. TypeXc'
    <3>1. ctx \in Conns
      BY <1>0 DEF TypeOK, TypeXc, ConnInv, ReconnectTimeout
    <3>2. /\ link' = [link EXCEPT ![ctx] = "orphan"] /\ ctx' = 0
          /\ rpc' = "idle"
          /\ UNCHANGED <<status, gen, pipe, net, inReconn, writing>>
      BY <1>u DEF ReconnectTimeout
    <3>3. link' \in [Conns -> {"none", "connecting", "connected", "closing",
                              "failing", "leaving", "orphan", "freed"}]
      BY <1>0, <3>2 DEF TypeOK, TypeXc
    <3>4. 0 \in 0..MaxConn BY ConstantsOK
    <3> QED BY <1>0, <3>2, <3>4, Zenon DEF TypeOK, TypeXc
  <2>2. TypeCall' /\ TypeInfo' /\ TypeLoop' /\ TypeQueues' /\ TypeHist'
    BY <1>0
       DEF TypeOK, TypeCall, TypeInfo, TypeLoop, TypeQueues, TypeHist,
           ReconnectTimeout
  <2> QED BY <2>1, <2>2 DEF TypeOK
<1>2. LoopInv'
  BY <1>0, <1>u, ConstantsOK DEF LoopInv, ReconnectTimeout
<1>3. ConnInv'
  BY <1>0, <1>u, ConstantsOK
     DEF TypeOK, TypeXc, ConnInv, ReconnectTimeout, Closing, Serving, Conns,
         MutexFree, Connected
<1>4. ListInv'
  BY <1>0, <1>u DEF ListInv, ConnInv, ReconnectTimeout, InHand, InCallback
<1>5. UbInv'
  BY <1>0, <1>u
     DEF UbInv, ReconnectTimeout, InHand, InCallback, Owed, Holds, Defined
<1>6. ASSUME NEW d \in Callers PROVE InfoInv(d)'
  BY <1>0, <1>u, <1>6
     DEF ListInv, InfoInv, ReconnectTimeout, Owed, InHand, InCallback, Holds,
         Serving
<1>7. ASSUME NEW d \in Callers PROVE CauseInv(d)'
  BY <1>0, <1>u, <1>7
     DEF ListInv, InfoInv, CauseInv, ReconnectTimeout, Owed, InHand,
         InCallback, Holds, Serving
<1> QED BY <1>1, <1>2, <1>3, <1>4, <1>5, <1>6, <1>7 DEF IndInv

\* A late failure of an orphaned attempt keeps the invariant.
LEMMA OrphanErrorStep ==
    ASSUME IndInv, NEW g \in Conns, OrphanError(g)
    PROVE  IndInv'
<1>0. /\ TypeOK /\ LoopInv /\ ConnInv /\ ListInv /\ UbInv
      /\ \A d \in Callers : InfoInv(d) /\ CauseInv(d)
  BY DEF IndInv
<1>u. /\ link' = [link EXCEPT ![g] = "freed"]
      /\ writing' = (writing /\ g # gen) /\ lpc' = lpc
  BY FailsEmpty
<1>1. TypeOK'
  <2>1. TypeXc'
    <3>1. writing' \in BOOLEAN
      BY <1>u, Zenon
    <3>2. link' \in [Conns -> {"none", "connecting", "connected", "closing",
                              "failing", "leaving", "orphan", "freed"}]
      BY <1>0, <1>u DEF TypeOK, TypeXc
    <3> QED BY <1>0, <3>1, <3>2 DEF TypeOK, TypeXc, OrphanError
  <2>2. TypeCall' /\ TypeInfo' /\ TypeLoop' /\ TypeQueues' /\ TypeHist'
    BY <1>0, <1>u
       DEF TypeOK, TypeCall, TypeInfo, TypeLoop, TypeQueues, TypeHist,
           OrphanError
  <2> QED BY <2>1, <2>2 DEF TypeOK
<1>2. LoopInv'
  BY <1>0, <1>u, ConstantsOK DEF LoopInv, OrphanError
<1>3. ConnInv'
  BY <1>0, <1>u, ConstantsOK
     DEF ConnInv, OrphanError, Closing, Serving, Conns, MutexFree, Connected
<1>4. ListInv'
  BY <1>0, <1>u DEF ListInv, OrphanError, InHand, InCallback
<1>5. UbInv'
  BY <1>0, <1>u DEF UbInv, OrphanError, InHand, InCallback, Owed, Holds, Defined
<1>6. ASSUME NEW d \in Callers PROVE InfoInv(d)'
  BY <1>0, <1>u, <1>6
     DEF InfoInv, OrphanError, Owed, InHand, InCallback, Holds, Serving
<1>7. ASSUME NEW d \in Callers PROVE CauseInv(d)'
  BY <1>0, <1>u, <1>7
     DEF InfoInv, CauseInv, OrphanError, Owed, InHand, InCallback, Holds,
         Serving
<1> QED BY <1>1, <1>2, <1>3, <1>4, <1>5, <1>6, <1>7 DEF IndInv

\* As long as no orphaned attempt has connected, none is lost.
LEMMA OrphanLostStep ==
    ASSUME IndInv, NEW g \in Conns, OrphanLost(g)
    PROVE  FALSE
  BY DEF IndInv, ConnInv, OrphanLost

\* Until then no caller finds its cmdInfo freed either.
LEMMA UseFreedStep ==
    ASSUME IndInv, NEW c \in Callers, UseFreed(c)
    PROVE  FALSE
  BY DEF IndInv, InfoInv, Holds, UseFreed

\* An attempt started on a context that is gone is a step of its own.
LEMMA ReconnectStaleStep ==
    ASSUME IndInv, ReconnectStale
    PROVE  IndInv'
<1>0. /\ TypeOK /\ LoopInv /\ ConnInv /\ ListInv /\ UbInv
      /\ \A d \in Callers : InfoInv(d) /\ CauseInv(d)
  BY DEF IndInv
<1>1. TypeOK'
  <2>1. TypeHist'
    BY <1>0 DEF TypeOK, TypeHist, UbKinds, ReconnectStale
  <2>2. TypeCall' /\ TypeInfo' /\ TypeLoop' /\ TypeQueues' /\ TypeXc'
    BY <1>0
       DEF TypeOK, TypeCall, TypeInfo, TypeLoop, TypeQueues, TypeXc,
           ReconnectStale
  <2> QED BY <2>1, <2>2 DEF TypeOK
<1>2. LoopInv'
  BY <1>0 DEF LoopInv, ReconnectStale
<1>3. ConnInv'
  BY <1>0, ConstantsOK
     DEF ConnInv, ReconnectStale, Closing, Conns, MutexFree, Connected
<1>4. ListInv'
  BY <1>0 DEF ListInv, ReconnectStale, InHand, InCallback
<1>5. UbInv'
  BY <1>0 DEF UbInv, ReconnectStale, InCallback, Owed, Holds, Defined
<1>6. ASSUME NEW d \in Callers PROVE InfoInv(d)'
  BY <1>0, <1>6
     DEF InfoInv, ReconnectStale, Owed, InHand, InCallback, Holds, Serving
<1>7. ASSUME NEW d \in Callers PROVE CauseInv(d)'
  BY <1>0, <1>7
     DEF CauseInv, ReconnectStale, Owed, InHand, InCallback, Holds, Serving
<1> QED BY <1>1, <1>2, <1>3, <1>4, <1>5, <1>6, <1>7 DEF IndInv

\* The server executes and answers in order, which keeps the invariant.
LEMMA ExecuteStep ==
    ASSUME IndInv, Execute
    PROVE  IndInv'
<1>0. /\ TypeOK /\ LoopInv /\ ConnInv /\ ListInv /\ UbInv
      /\ \A d \in Callers : InfoInv(d) /\ CauseInv(d)
  BY DEF IndInv
<1>1. TypeOK'
  <2>1. TypeQueues'
    BY <1>0 DEF TypeOK, TypeQueues, Execute
  <2>2. TypeCall' /\ TypeInfo' /\ TypeLoop' /\ TypeXc' /\ TypeHist'
    BY <1>0
       DEF TypeOK, TypeCall, TypeInfo, TypeLoop, TypeXc, TypeHist, Execute
  <2> QED BY <2>1, <2>2 DEF TypeOK
<1>2. LoopInv'
  BY <1>0, ConstantsOK DEF LoopInv, Execute
<1>3. ConnInv'
  BY <1>0, ConstantsOK
     DEF ConnInv, Execute, Closing, Serving, Conns, MutexFree, Connected
<1>4. ListInv'
  BY <1>0 DEF ListInv, ConnInv, Execute, InHand, InCallback
<1>5. UbInv'
  BY <1>0 DEF UbInv, Execute, InHand, InCallback, Owed, Holds, Defined
<1>6. ASSUME NEW d \in Callers PROVE InfoInv(d)'
  BY <1>0, <1>6
     DEF ListInv, InfoInv, Execute, Owed, InHand, InCallback, Holds, Serving
<1>7. ASSUME NEW d \in Callers PROVE CauseInv(d)'
  BY <1>0, <1>7
     DEF ListInv, InfoInv, CauseInv, Execute, Owed, InHand, InCallback, Holds,
         Serving
<1> QED BY <1>1, <1>2, <1>3, <1>4, <1>5, <1>6, <1>7 DEF IndInv

\* Losing the connection at any point keeps the invariant.
LEMMA ConnLostStep ==
    ASSUME IndInv, NEW g \in Conns, ConnLost(g)
    PROVE  IndInv'
<1>0. /\ TypeOK /\ LoopInv /\ ConnInv /\ ListInv /\ UbInv
      /\ \A d \in Callers : InfoInv(d) /\ CauseInv(d)
  BY DEF IndInv
<1>1. TypeOK'
  <2>1. TypeQueues'
    BY <1>0 DEF TypeOK, TypeQueues, ConnLost
  <2>2. TypeXc'
    BY <1>0 DEF TypeOK, TypeXc, ConnLost
  <2>3. TypeCall' /\ TypeInfo' /\ TypeLoop' /\ TypeHist'
    BY <1>0 DEF TypeOK, TypeCall, TypeInfo, TypeLoop, TypeHist, ConnLost
  <2> QED BY <2>1, <2>2, <2>3 DEF TypeOK
<1>2. LoopInv'
  BY <1>0, ConstantsOK DEF LoopInv, ConnLost
<1>3. ConnInv'
  BY <1>0, ConstantsOK
     DEF ConnInv, ConnLost, Closing, Serving, Conns, MutexFree, Connected
<1>4. ListInv'
  BY <1>0 DEF ListInv, ConnLost, InHand, InCallback
<1>5. UbInv'
  BY <1>0 DEF UbInv, ConnLost, InHand, InCallback, Owed, Holds, Defined
<1>6. ASSUME NEW d \in Callers PROVE InfoInv(d)'
  BY <1>0, <1>6
     DEF InfoInv, ConnLost, Owed, InHand, InCallback, Holds, Serving
<1>7. ASSUME NEW d \in Callers PROVE CauseInv(d)'
  BY <1>0, <1>7
     DEF InfoInv, CauseInv, ConnLost, Owed, InHand, InCallback, Holds, Serving
<1> QED BY <1>1, <1>2, <1>3, <1>4, <1>5, <1>6, <1>7 DEF IndInv

------------------------------------------------------------------------------
(* The theorems *)

\* A connection just opened satisfies the invariant.
LEMMA InitInd == Init => IndInv
<1> SUFFICES ASSUME Init PROVE IndInv
  OBVIOUS
<1>1. TypeOK
  <2>1. TypeCall /\ TypeInfo
    BY ConstantsOK DEF Init, TypeCall, TypeInfo, CallerPCs
  <2>2. TypeLoop /\ TypeQueues
    BY ConstantsOK DEF Init, TypeLoop, TypeQueues, LoopPCs
  <2>4. TypeHist
    <3>1. late \in BOOLEAN
      BY Zenon DEF Init
    <3> QED BY <3>1 DEF Init, TypeHist
  <2>3. TypeXc
    <3>1. writing \in BOOLEAN /\ inReconn \in BOOLEAN
      BY Zenon DEF Init
    <3> QED BY <3>1, ConstantsOK DEF Init, TypeXc, Conns
  <2> QED BY <2>1, <2>2, <2>3, <2>4 DEF TypeOK
<1>2. LoopInv /\ UbInv
  BY DEF Init, LoopInv, UbInv
<1>3. ConnInv
  BY ConstantsOK DEF Init, ConnInv, Conns, Serving, Closing
<1>4. ListInv
  BY EmptyMembers DEF Init, ListInv, InHand, InCallback
<1>5. ASSUME NEW c \in Callers PROVE InfoInv(c) /\ CauseInv(c)
  BY <1>5, EmptyMembers, ConstantsOK
     DEF Init, InfoInv, CauseInv, Holds, Owed, InHand, InCallback
<1> QED BY <1>1, <1>2, <1>3, <1>4, <1>5 DEF IndInv

\* Every step of any thread, of the server and of the network keeps it.
LEMMA NextInd == IndInv /\ [Next]_vars /\ ~late' => IndInv'
<1> SUFFICES ASSUME IndInv, [Next]_vars, ~late' PROVE IndInv'
  OBVIOUS
<1>1. ASSUME NEW c \in Callers, Caller(c) PROVE IndInv'
  BY <1>1, BeginStep, EnqueueStep, NotifyStep, PeekStep, WaitStep,
     ExpireStep, TakeStep, DropStep, UseFreedStep, SearchStep, UnlinkStep,
     ListRaceStep, CheckStatusStep DEF Caller
<1>2. CASE LoopTask
  BY <1>2, TaskReadStep, TaskLockStep, TaskPopStep, TaskSubmitStep
     DEF LoopTask
<1>3. CASE LoopSocket
  BY <1>3, HandleWriteStep, HandleReadStep, ProcessStep, CbDecStep,
     CbStoreStep, CbPostStep DEF LoopSocket
<1>4. CASE LoopFree
  BY <1>4, FreeRepliesStep, DiscPopStep, DiscDecStep, ReconnAddStep,
     FreeAcStep DEF LoopFree
<1>5. CASE LoopConnect
  <2>1. ASSUME NEW g \in Conns, OrphanConnect(g) PROVE FALSE
    BY <2>1 DEF OrphanConnect
  <2> QED BY <1>5, <2>1, HandleConnectStep, HandleConnectErrorStep,
             OrphanErrorStep, OrphanLostStep DEF LoopConnect
<1>6. CASE Reconnect
  BY <1>6, ReconnectAttachStep, ReconnectWakeStep, ReconnectTimeoutStep,
     ReconnectStaleStep DEF Reconnect
<1>7. CASE Network
  BY <1>7, ExecuteStep, ConnLostStep DEF Network
<1>8. CASE UNCHANGED vars
  <2>1. /\ TypeOK' /\ LoopInv' /\ ConnInv' /\ ListInv' /\ UbInv'
        /\ \A d \in Callers : InfoInv(d)' /\ CauseInv(d)'
    <3>1. TypeOK'
      BY <1>8 DEF vars, IndInv, TypeOK, TypeCall, TypeInfo, TypeLoop,
         TypeQueues, TypeXc, TypeHist
    <3>2. LoopInv' /\ ConnInv' /\ ListInv' /\ UbInv'
      BY <1>8 DEF vars, IndInv, LoopInv, ConnInv, ListInv, UbInv, Closing,
         InHand, InCallback
    <3>3. \A d \in Callers : InfoInv(d)' /\ CauseInv(d)'
      BY <1>8 DEF vars, IndInv, InfoInv, CauseInv, Holds, Owed, InHand,
         InCallback
    <3> QED BY <3>1, <3>2, <3>3
  <2> QED BY <2>1 DEF IndInv
<1> QED BY <1>1, <1>2, <1>3, <1>4, <1>5, <1>6, <1>7, <1>8
        DEF Next, Idle, Undefined

\* That an attempt has connected late is never forgotten.
LEMMA LateStays == late /\ [Next]_vars => late'
<1> SUFFICES ASSUME late, [Next]_vars PROVE late'
  OBVIOUS
<1>1. ASSUME NEW c \in Callers, Caller(c) PROVE late'
  BY <1>1 DEF Caller, Begin, Enqueue, Notify, Peek, Wait, Expire, Take, Drop,
     UseFreed, Search, Unlink, ListRace, CheckStatus
<1>2. CASE LoopTask
  BY <1>2 DEF LoopTask, TaskRead, TaskLock, TaskPop, TaskSubmit
<1>3. CASE LoopSocket
  BY <1>3 DEF LoopSocket, HandleWrite, HandleRead, Process, CbDec, CbStore,
     CbPost
<1>4. CASE LoopFree
  BY <1>4 DEF LoopFree, FreeReplies, DiscPop, DiscDec, ReconnAdd, FreeAc
<1>5. CASE LoopConnect
  BY <1>5 DEF LoopConnect, HandleConnect, HandleConnectError, OrphanError,
     OrphanConnect, OrphanLost
<1>6. CASE Reconnect
  BY <1>6 DEF Reconnect, ReconnectAttach, ReconnectWake, ReconnectTimeout,
     ReconnectStale
<1>7. CASE Network
  BY <1>7 DEF Network, Execute, ConnLost
<1>8. CASE UNCHANGED vars
  BY <1>8 DEF vars
<1> QED BY <1>1, <1>2, <1>3, <1>4, <1>5, <1>6, <1>7, <1>8
        DEF Next, Idle, Undefined

\* The invariant holds, whatever the callers, the event loop, the reconnect
\* thread and the network do, until an attempt that was given up connects.
THEOREM CommandInductive == Spec => [](late \/ IndInv)
<1>1. Init => late \/ IndInv BY InitInd
<1>2. (late \/ IndInv) /\ [Next]_vars => (late \/ IndInv)'
  BY NextInd, LateStays
<1> QED BY <1>1, <1>2, PTL DEF Spec

\* Until then every variable keeps its type: in particular ci->reference stays
\* between 0 and 2 and reply_sem is posted at most once.
THEOREM CommandTypes == Spec => [](late \/ TypeOK)
<1>1. IndInv => TypeOK BY DEF IndInv
<1> QED BY <1>1, CommandInductive, PTL

\* No free of a cmdInfo (in __xRedisCommand, replyCallback,
\* disconnectedCallback or __redisAsyncFree) takes it away from a thread that
\* still owns it, unless a given-up attempt has connected.
THEOREM CommandInfoLive == Spec => []InfoLiveWhileOwned
<1>1. late \/ IndInv => InfoLiveWhileOwned
  BY DEF IndInv, InfoInv, InfoLiveWhileOwned
<1> QED BY <1>1, CommandInductive, PTL

\* xc->ctx is NULL only between attempts, while the connection is scheduled.
CtxInv ==
    /\ gen \in Conns
    /\ ctx = 0 => inReconn
    /\ rpc = "waiting" => ctx # 0 /\ inReconn

\* Only the reconnect thread changes xc->ctx, and it takes the connection off
\* reconn_list only with the context of its attempt.
LEMMA CtxStep == CtxInv /\ [Next]_vars => CtxInv'
<1> SUFFICES ASSUME CtxInv, [Next]_vars PROVE CtxInv'
  OBVIOUS
<1> USE DEF CtxInv
<1>1. ASSUME NEW c \in Callers, Caller(c) PROVE CtxInv'
  BY <1>1 DEF Caller, Begin, Enqueue, Notify, Peek, Wait, Expire, Take, Drop,
     UseFreed, Search, Unlink, ListRace, CheckStatus
<1>2. CASE LoopTask
  BY <1>2 DEF LoopTask, TaskRead, TaskLock, TaskPop, TaskSubmit
<1>3. CASE LoopSocket
  BY <1>3 DEF LoopSocket, HandleWrite, HandleRead, Process, CbDec, CbStore,
     CbPost
<1>4. CASE LoopFree
  BY <1>4 DEF LoopFree, FreeReplies, DiscPop, DiscDec, ReconnAdd, FreeAc
<1>5. CASE LoopConnect
  BY <1>5 DEF LoopConnect, HandleConnect, HandleConnectError, OrphanError,
     OrphanConnect, OrphanLost
<1>6. CASE Reconnect
  BY <1>6, ConstantsOK DEF Reconnect, ReconnectAttach, ReconnectWake,
     ReconnectTimeout, ReconnectStale, Conns
<1>7. CASE Network
  BY <1>7 DEF Network, Execute, ConnLost
<1>8. CASE UNCHANGED vars
  BY <1>8 DEF vars
<1> QED BY <1>1, <1>2, <1>3, <1>4, <1>5, <1>6, <1>7, <1>8
        DEF Next, Idle, Undefined

\* A caller or taskDeal that finds the status CONNECTED under the mutex finds a
\* context in xc->ctx that is not freed, unless connectedCallback raised the
\* status for an attempt given up before; and then a connection that has no
\* context at all is still on reconn_list.
THEOREM CommandCtxUsable == Spec => []CtxUsable
<1>1. Init => CtxInv
  BY ConstantsOK DEF Init, CtxInv, Conns
<1>2. (late \/ IndInv) /\ CtxInv => CtxUsable
  BY DEF IndInv, TypeOK, TypeXc, Conns, ConnInv, CtxInv, CtxUsable
<1> QED BY <1>1, <1>2, CtxStep, CommandInductive, PTL DEF Spec

\* A call whose wait was not cut short by the timeout leaves no cmdInfo
\* allocated when it returns, also when the connection is lost under it, as
\* long as no given-up attempt connects.
THEOREM CommandReleased == Spec => [](late \/ ReleasedUnlessExpired)
<1>1. IndInv => ReleasedUnlessExpired
  BY DEF IndInv, CauseInv, ReleasedUnlessExpired
<1> QED BY <1>1, CommandInductive, PTL

\* A step on a freed cmdInfo, command text or context in the command path has
\* a timeout behind it, or, for sem_post, a caller that skipped its wait; or a
\* given-up attempt that connected.
THEOREM CommandUbCauses == Spec => [](late \/ UbInv)
<1>1. IndInv => UbInv BY DEF IndInv
<1> QED BY <1>1, CommandInductive, PTL

------------------------------------------------------------------------------
(* The invariant *)

\* A connection that is down is scheduled, except between the two critical
\* sections of disconnectedCallback.
SchedInv == status # "CONNECTED" /\ lpc # "reconnAdd" => inReconn

\* A connection that is up and not being closed has a connected socket; one
\* that is down keeps no bytes once its context is freed.
LinkInv ==
    /\ status = "CONNECTED" /\ ~Closing => link[gen] = "connected"
    /\ \A g \in Conns : link[g] = "connecting" => status # "CONNECTED"
    /\ status # "CONNECTED" /\ lpc \notin {"reconnAdd", "freeAc"}
          => obuf = <<>> /\ rbuf = <<>> /\ tx = <<>> /\ rx = <<>>

\* The pending callbacks are those of the replies received and on their way,
\* followed by the rest: while the link is up, the commands in flight and
\* unsent.
AlignedWith(rest) ==
    /\ replies = (rbuf \o rx) \o rest
    /\ net = "up" => rest = tx \o obuf
AlignInv ==
    link[gen] = "connected" => \E rest \in Seq(Callers) : AlignedWith(rest)

\* The reply in the hands of replyCallback is the one its cmdInfo waits for.
ReplyInv ==
    /\ lpc \in {"cbDec", "cbStore"} => curReply \in {NULL, cur}
    /\ OwnReply

\* The part of UndefinedBehaviourOrigin that UbInv leaves open.
OriginInv ==
    /\ ub # "assert"
    /\ ub = "ac_attach" => status # "CONNECTED"

\* Unsent output has its write event.
WriteInv == obuf # <<>> /\ link[gen] = "connected" => writing

\* Callers that have queued a command and not yet written their byte.
Notifying == {c \in Callers : pc[c] = "notify"}

\* Every queued command is covered by a byte: in the pipe, in the budget of
\* taskDeal's round or about to be written.
CoverInv ==
    Cardinality(Callers) <= PipeCap
        => Len(cmd_list) <= pipe + Covered + Cardinality(Notifying)

\* The command was handed to the socket ...
Sent(c) == Contains(executed, c) \/ Contains(tx, c) \/ Contains(obuf, c)
\* ... or will be.
ToSend(c) == Contains(cmd_list, c) \/ (cur = c /\ lpc = "taskSubmit")

\* A command is in at most one of the places between caller and server, and
\* at most once.
OnceInv ==
    /\ NoDup(executed) /\ NoDup(tx) /\ NoDup(obuf)
    /\ \A c \in Callers :
          /\ ~(Contains(executed, c) /\ Contains(tx, c))
          /\ ~(Contains(executed, c) /\ Contains(obuf, c))
          /\ ~(Contains(tx, c) /\ Contains(obuf, c))
          /\ ~(Sent(c) /\ ToSend(c))

\* Exactly the calls that got past the second check have a context, and only
\* their commands are ever sent.
CallInv ==
    \A c \in Callers :
        /\ pc[c] \in {"idle", "enqueue"} => myac[c] = 0
        /\ pc[c] \notin {"idle", "enqueue", "done"} => myac[c] # 0
        /\ Sent(c) \/ ToSend(c) => myac[c] # 0
        /\ myac[c] = 0 => got[c] = NULL

\* Every reply, wherever it is, is that of a command the server executed.
AnsweredInv ==
    /\ \A c \in Callers :
          /\ Contains(rx, c) \/ Contains(rbuf, c) => Contains(executed, c)
          /\ reply[c] = c \/ got[c] = c => Contains(executed, c)
    /\ lpc \in {"cbDec", "cbStore"} /\ curReply # NULL
          => Contains(executed, curReply)

PipeInv ==
    /\ SchedInv /\ LinkInv /\ AlignInv /\ ReplyInv /\ OriginInv /\ WriteInv
    /\ CoverInv /\ OnceInv /\ CallInv /\ AnsweredInv

------------------------------------------------------------------------------
(* Sequences *)

\* The equations that move a border of the pipeline.  They are named because a
\* quantified equation between concatenations sends the provers in circles.
Regroups(s, t, u) == (s \o t) \o u = s \o (t \o u)
AppendsLast(s, t, e) == Append(s \o t, e) = s \o Append(t, e)
ShiftsHead(s, t) == Append(s, Head(t)) \o Tail(t) = s \o t
TakesFirst(s, t) ==
    /\ s \o t # <<>>
    /\ Head(s \o t) = Head(s) /\ Tail(s \o t) = Tail(s) \o t
Cuts(s, k) == SubSeq(s, 1, k) \o SubSeq(s, k + 1, Len(s)) = s

\* Concatenation is associative.
LEMMA RegroupsAll ==
    ASSUME NEW S, NEW s \in Seq(S), NEW t \in Seq(S), NEW u \in Seq(S)
    PROVE  Regroups(s, t, u)
  BY DEF Regroups

\* Appending to a concatenation appends to its last part.
LEMMA AppendsLastAll ==
    ASSUME NEW S, NEW s \in Seq(S), NEW t \in Seq(S), NEW e \in S
    PROVE  AppendsLast(s, t, e)
  BY DEF AppendsLast

\* Moving the head of the second part to the end of the first changes nothing.
LEMMA ShiftsHeadAll ==
    ASSUME NEW S, NEW s \in Seq(S), NEW t \in Seq(S), t # <<>>
    PROVE  ShiftsHead(s, t)
  BY DEF ShiftsHead

\* The first element of a concatenation is that of its first part.
LEMMA TakesFirstAll ==
    ASSUME NEW S, NEW s \in Seq(S), NEW t \in Seq(S), s # <<>>
    PROVE  TakesFirst(s, t)
  BY DEF TakesFirst

\* Cutting a sequence in two and joining the pieces gives it back.
LEMMA CutsAll ==
    ASSUME NEW S, NEW s \in Seq(S), NEW k \in 0..Len(s)
    PROVE  /\ SubSeq(s, 1, k) \in Seq(S)
           /\ SubSeq(s, k + 1, Len(s)) \in Seq(S)
           /\ Cuts(s, k)
<1>1. Len(s) \in Nat /\ \A i \in 1..Len(s) : s[i] \in S
  BY LenProperties, ElementOfSeq
<1>2. SubSeq(s, 1, k) \in Seq(S) /\ SubSeq(s, k + 1, Len(s)) \in Seq(S)
  BY <1>1, SubSeqProperties
<1>3. 1 \in 1..(Len(s) + 1) /\ k \in (1 - 1)..Len(s) /\ Len(s) \in k..Len(s)
  BY <1>1
<1>4. SubSeq(s, 1, k) \o SubSeq(s, k + 1, Len(s)) = SubSeq(s, 1, Len(s))
  BY <1>3, ConcatAdjacentSubSeq
<1> QED BY <1>2, <1>4, SubSeqFull DEF Cuts

\* The first part of a concatenation is a prefix of it.
LEMMA ConcatPrefix ==
    ASSUME NEW S, NEW s \in Seq(S), NEW t \in Seq(S)
    PROVE  IsPrefix(s, s \o t)
<1>1. /\ s \o t \in Seq(S) /\ Len(s \o t) = Len(s) + Len(t)
      /\ Len(s) \in Nat /\ Len(t) \in Nat
      /\ \A i \in 1..(Len(s) + Len(t)) :
            (s \o t)[i] = IF i <= Len(s) THEN s[i] ELSE t[i - Len(s)]
  BY ConcatProperties, LenProperties
<1> DEFINE u == s \o t
<1> HIDE DEF u
<1>2. CASE Len(s) = 0
  <2>1. SubSeq(s, 1, Len(s)) = <<>> /\ SubSeq(u, 1, Len(s)) = <<>>
    BY <1>2, SubSeqEmpty
  <2> QED BY <1>1, <2>1 DEF IsPrefix, u
<1>3. CASE Len(s) # 0
  <2>1. 1 \in 1..Len(s) /\ Len(s) \in 1..Len(s)
    BY <1>1, <1>3
  <2>2. SubSeq(u, 1, Len(s)) = SubSeq(s, 1, Len(s))
    BY <2>1, SubSeqOfConcat1 DEF u
  <2> QED BY <1>1, <2>2 DEF IsPrefix, u
<1> QED BY <1>2, <1>3

\* The members of a concatenation are those of its parts.
LEMMA ConcatMembers ==
    ASSUME NEW S, NEW s \in Seq(S), NEW t \in Seq(S)
    PROVE  /\ s \o t \in Seq(S)
           /\ \A x : Contains(s \o t, x) <=> Contains(s, x) \/ Contains(t, x)
           /\ NoDup(s \o t) <=>
                 /\ NoDup(s) /\ NoDup(t)
                 /\ \A x \in S : ~(Contains(s, x) /\ Contains(t, x))
<1> DEFINE u == s \o t
<1>1. /\ u \in Seq(S) /\ Len(u) = Len(s) + Len(t)
      /\ Len(s) \in Nat /\ Len(t) \in Nat
      /\ \A i \in 1..Len(s) : s[i] \in S
      /\ \A i \in 1..(Len(s) + Len(t)) :
            u[i] = IF i <= Len(s) THEN s[i] ELSE t[i - Len(s)]
  BY ConcatProperties, LenProperties, ElementOfSeq
<1> HIDE DEF u
<1>2. ASSUME NEW i \in 1..Len(s) PROVE i \in 1..Len(u) /\ u[i] = s[i]
  BY <1>1, <1>2
<1>3. ASSUME NEW i \in 1..Len(t)
      PROVE  Len(s) + i \in 1..Len(u) /\ u[Len(s) + i] = t[i]
  <2>1. Len(s) + i \in 1..(Len(s) + Len(t)) /\ ~(Len(s) + i <= Len(s))
        /\ (Len(s) + i) - Len(s) = i
    BY <1>1, <1>3
  <2> QED BY <1>1, <2>1
<1>4. ASSUME NEW i \in 1..Len(u)
      PROVE  \/ i \in 1..Len(s) /\ u[i] = s[i]
             \/ i - Len(s) \in 1..Len(t) /\ u[i] = t[i - Len(s)]
  <2>1. CASE i <= Len(s) BY <1>1, <2>1
  <2>2. CASE ~(i <= Len(s))
    <3>1. i - Len(s) \in 1..Len(t) BY <1>1, <2>2
    <3> QED BY <1>1, <2>2, <3>1
  <2> QED BY <2>1, <2>2
<1>5. ASSUME NEW x PROVE Contains(u, x) <=> Contains(s, x) \/ Contains(t, x)
  <2>1. Contains(s, x) => Contains(u, x) BY <1>2 DEF Contains
  <2>2. Contains(t, x) => Contains(u, x) BY <1>3 DEF Contains
  <2>3. Contains(u, x) => Contains(s, x) \/ Contains(t, x)
    BY <1>4 DEF Contains
  <2> QED BY <2>1, <2>2, <2>3
<1>6. ASSUME NoDup(u)
      PROVE  /\ NoDup(s) /\ NoDup(t)
             /\ \A x \in S : ~(Contains(s, x) /\ Contains(t, x))
  <2>1. NoDup(s)
    BY <1>2, <1>6 DEF NoDup
  <2>2. NoDup(t)
    <3> SUFFICES ASSUME NEW i \in 1..Len(t), NEW j \in 1..Len(t), t[i] = t[j]
                 PROVE  i = j
      BY DEF NoDup
    <3>1. Len(s) + i = Len(s) + j BY <1>3, <1>6 DEF NoDup
    <3> QED BY <1>1, <3>1
  <2>3. ASSUME NEW i \in 1..Len(s), NEW j \in 1..Len(t), s[i] = t[j]
        PROVE  FALSE
    <3>1. i = Len(s) + j BY <1>2, <1>3, <1>6, <2>3 DEF NoDup
    <3> QED BY <1>1, <3>1
  <2> QED BY <2>1, <2>2, <2>3 DEF Contains
<1>7. ASSUME NoDup(s), NoDup(t),
             \A x \in S : ~(Contains(s, x) /\ Contains(t, x))
      PROVE  NoDup(u)
  <2> SUFFICES ASSUME NEW i \in 1..Len(u), NEW j \in 1..Len(u), u[i] = u[j]
               PROVE  i = j
    BY DEF NoDup
  <2>1. CASE i \in 1..Len(s) /\ j \in 1..Len(s)
    BY <1>2, <1>7, <2>1 DEF NoDup
  <2>2. CASE /\ i - Len(s) \in 1..Len(t) /\ u[i] = t[i - Len(s)]
             /\ j - Len(s) \in 1..Len(t) /\ u[j] = t[j - Len(s)]
    <3>1. i - Len(s) = j - Len(s) BY <1>7, <2>2 DEF NoDup
    <3> QED BY <1>1, <3>1
  <2>3. ASSUME NEW a \in 1..Len(s), NEW b \in 1..Len(t), s[a] = t[b]
        PROVE  FALSE
    BY <1>1, <1>7, <2>3 DEF Contains
  <2> QED BY <1>2, <1>4, <2>1, <2>2, <2>3
<1> QED BY <1>1, <1>5, <1>6, <1>7 DEF u

------------------------------------------------------------------------------
(* Which thread changes what *)

\* A caller's steps do not touch the loop, the buffers and the link.
LEMMA CallerFrame ==
    ASSUME NEW c \in Callers, Caller(c)
    PROVE  UNCHANGED <<reply, lpc, cur, curReply, budget, replies, obuf, rbuf,
                       writing, net, tx, rx, executed, status, ctx, link, gen,
                       inReconn, rpc>>
  BY DEF Caller, Begin, Enqueue, Notify, Peek, Wait, Expire, Take, Drop,
         UseFreed, Search, Unlink, ListRace, CheckStatus

\* taskDeal changes the two lists, the output buffer and the pipe.
LEMMA LoopTaskFrame ==
    ASSUME LoopTask
    PROVE  UNCHANGED <<pc, myac, got, reply, curReply, rbuf, net, tx, rx,
                       executed, status, ctx, link, gen, inReconn, rpc>>
  BY DEF LoopTask, TaskRead, TaskLock, TaskPop, TaskSubmit

\* The socket handlers and replyCallback do not touch cmd_list, the pipe and
\* the status.
LEMMA LoopSocketFrame ==
    ASSUME LoopSocket
    PROVE  UNCHANGED <<pc, myac, got, budget, cmd_list, net, executed, status,
                       ctx, gen, pipe, inReconn, rpc>>
  BY DEF LoopSocket, HandleWrite, HandleRead, Process, CbDec, CbStore, CbPost

\* __redisAsyncFree neither stores a reply nor reads the pipe.
LEMMA LoopFreeFrame ==
    ASSUME IndInv, LoopFree
    PROVE  UNCHANGED <<pc, myac, got, reply, budget, net, executed, ctx, gen,
                       pipe, rpc, ub>>
<1>1. lpc = "discDec" => Alive(cur)
  BY DEF IndInv, LoopInv, InfoInv, Owed, InHand
<1> QED BY <1>1 DEF LoopFree, FreeReplies, DiscPop, DiscDec, ReconnAdd, FreeAc

\* Until a given-up attempt connects, connecting and failing to connect leave
\* the queues alone.
LEMMA LoopConnectFrame ==
    ASSUME IndInv, ~late', LoopConnect
    PROVE  UNCHANGED <<pc, myac, got, reply, lpc, cur, curReply, budget,
                       cmd_list, replies, obuf, rbuf, tx, rx, executed, ctx,
                       gen, pipe, inReconn, rpc, ub>>
<1>1. ASSUME NEW g \in Conns, OrphanConnect(g) PROVE FALSE
  BY <1>1 DEF OrphanConnect
<1> QED BY <1>1, FailsEmpty, OrphanLostStep
        DEF LoopConnect, HandleConnect, HandleConnectError, OrphanError

\* So does the reconnect thread.
LEMMA ReconnectFrame ==
    ASSUME Reconnect
    PROVE  UNCHANGED <<pc, myac, got, reply, lpc, cur, curReply, budget,
                       cmd_list, replies, obuf, rbuf, net, tx, rx, executed,
                       status, pipe>>
  BY DEF Reconnect, ReconnectAttach, ReconnectWake, ReconnectTimeout,
         ReconnectStale

\* The server and the network change only what is on the wire.
LEMMA NetworkFrame ==
    ASSUME Network
    PROVE  UNCHANGED <<pc, myac, got, reply, lpc, cur, curReply, budget,
                       cmd_list, replies, obuf, rbuf, writing, status, ctx,
                       link, gen, pipe, inReconn, rpc, ub>>
  BY DEF Network, Execute, ConnLost

\* The cases of a step.
LEMMA StepCases ==
    ASSUME [Next]_vars
    PROVE  \/ \E c \in Callers : Caller(c)
           \/ LoopTask \/ LoopSocket \/ LoopFree \/ LoopConnect
           \/ Reconnect \/ Network \/ UNCHANGED vars
  BY DEF Next, Idle, Undefined

------------------------------------------------------------------------------
(* Scheduling and the link *)

\* disconnectedCallback schedules the connection after it marked it down; the
\* reconnect thread takes it off only when it is up.
LEMMA SchedStep ==
    ASSUME SchedInv, [Next]_vars
    PROVE  SchedInv'
<1>1. ASSUME NEW c \in Callers, Caller(c) PROVE SchedInv'
  BY <1>1, CallerFrame DEF SchedInv
<1>2. CASE LoopTask
  BY <1>2, LoopTaskFrame DEF SchedInv, LoopTask, TaskRead, TaskLock, TaskPop,
     TaskSubmit
<1>3. CASE LoopSocket
  BY <1>3, LoopSocketFrame DEF SchedInv, LoopSocket, HandleWrite, HandleRead,
     Process, CbDec, CbStore, CbPost, Close, AfterCallback
<1>4. CASE LoopFree
  BY <1>4 DEF SchedInv, LoopFree, FreeReplies, DiscPop, DiscDec, ReconnAdd,
     FreeAc
<1>5. CASE LoopConnect
  BY <1>5 DEF SchedInv, LoopConnect, HandleConnect, HandleConnectError,
     OrphanError, OrphanConnect, OrphanLost
<1>6. CASE Reconnect
  BY <1>6 DEF SchedInv, Reconnect, ReconnectAttach, ReconnectWake,
     ReconnectTimeout, ReconnectStale
<1>7. CASE Network
  BY <1>7, NetworkFrame DEF SchedInv
<1>8. CASE UNCHANGED vars
  BY <1>8 DEF SchedInv, vars
<1> QED BY <1>1, <1>2, <1>3, <1>4, <1>5, <1>6, <1>7, <1>8, StepCases

\* The socket of a connection that is up stays connected until the loop
\* closes it, and nothing is left in the buffers of one that was freed.
LEMMA LinkStep ==
    ASSUME IndInv, LinkInv, [Next]_vars, ~late'
    PROVE  LinkInv'
<1>0. TypeLoop /\ TypeXc /\ TypeQueues /\ ConnInv
  BY DEF IndInv, TypeOK
<1>1. ASSUME NEW c \in Callers, Caller(c) PROVE LinkInv'
  BY <1>1, CallerFrame DEF LinkInv, Closing
<1>2. CASE LoopTask
  BY <1>0, <1>2, LoopTaskFrame DEF LinkInv, ConnInv, Serving, LoopTask,
     TaskRead, TaskLock, TaskPop, TaskSubmit, Closing
<1>3. CASE LoopSocket
  <2>1. ASSUME NEW g \in Conns, HandleWrite(g) PROVE LinkInv'
    BY <1>0, <2>1 DEF HandleWrite, LinkInv, ConnInv, Closing, Close, Connected,
       TypeXc
  <2>2. ASSUME NEW g \in Conns, HandleRead(g) PROVE LinkInv'
    BY <1>0, <2>2 DEF HandleRead, LinkInv, ConnInv, Closing, Close, Connected,
       TypeXc
  <2>3. CASE Process
    BY <1>0, <2>3 DEF Process, LinkInv, ConnInv, Serving, Closing
  <2>4. CASE CbDec \/ CbStore \/ CbPost
    BY <1>0, <2>4 DEF CbDec, CbStore, CbPost, LinkInv, ConnInv, Serving,
       Closing, AfterCallback
  <2> QED BY <1>3, <2>1, <2>2, <2>3, <2>4 DEF LoopSocket
<1>4. CASE LoopFree
  <2>1. CASE FreeReplies \/ DiscPop \/ DiscDec \/ ReconnAdd
    BY <1>0, <2>1 DEF FreeReplies, DiscPop, DiscDec, ReconnAdd, LinkInv,
       ConnInv, Serving, Closing
  <2>2. CASE FreeAc
    BY <1>0, <2>2 DEF FreeAc, LinkInv, ConnInv, Closing
  <2> QED BY <1>4, <2>1, <2>2 DEF LoopFree
<1>5. CASE LoopConnect
  <2>1. ASSUME NEW g \in Conns, HandleConnect(g) PROVE LinkInv'
    BY <1>0, <2>1 DEF HandleConnect, LinkInv, ConnInv, Closing, TypeXc
  <2>2. ASSUME NEW g \in Conns, HandleConnectError(g) \/ OrphanError(g)
        PROVE  LinkInv'
    <3>1. /\ link' = [link EXCEPT ![g] = "freed"] /\ lpc' = lpc
          /\ g = gen => status # "CONNECTED"
      BY <1>0, <2>2, FailsEmpty DEF ConnInv, HandleConnectError, OrphanError
    <3>2. UNCHANGED <<status, gen, curReply, obuf, rbuf, tx, rx>>
      BY <2>2 DEF HandleConnectError, OrphanError
    <3> QED BY <1>0, <3>1, <3>2 DEF LinkInv, Closing, TypeXc
  <2>3. ASSUME NEW g \in Conns, OrphanConnect(g) PROVE LinkInv'
    BY <2>3 DEF OrphanConnect
  <2> QED BY <1>5, <2>1, <2>2, <2>3, OrphanLostStep DEF LoopConnect
<1>6. CASE Reconnect
  <2>1. CASE ReconnectAttach
    BY <1>0, <2>1 DEF ReconnectAttach, LinkInv, ConnInv, Closing, TypeXc,
       Conns
  <2>2. CASE ReconnectTimeout
    BY <1>0, <2>2 DEF ReconnectTimeout, LinkInv, ConnInv, Closing, TypeXc
  <2>3. CASE ReconnectWake \/ ReconnectStale
    BY <2>3 DEF ReconnectWake, ReconnectStale, LinkInv, Closing
  <2> QED BY <1>6, <2>1, <2>2, <2>3 DEF Reconnect
<1>7. CASE Network
  <2>1. CASE Execute
    BY <2>1 DEF Execute, LinkInv, Closing
  <2>2. ASSUME NEW g \in Conns, ConnLost(g) PROVE LinkInv'
    BY <1>0, <2>2 DEF ConnLost, Connected, LinkInv, ConnInv, Closing
  <2> QED BY <1>7, <2>1, <2>2 DEF Network
<1>8. CASE UNCHANGED vars
  BY <1>8 DEF LinkInv, vars, Closing
<1> QED BY <1>1, <1>2, <1>3, <1>4, <1>5, <1>6, <1>7, <1>8, StepCases

------------------------------------------------------------------------------
(* The pipeline *)

\* Each step of the loop, the server and the network moves the border between
\* two neighbouring parts of the pipeline, adds at its end or takes from its
\* front.
LEMMA AlignStep ==
    ASSUME IndInv, LinkInv, AlignInv, [Next]_vars, ~late'
    PROVE  AlignInv'
<1>0. TypeLoop /\ TypeXc /\ TypeQueues /\ LoopInv /\ ConnInv
  BY DEF IndInv, TypeOK
<1>1. ASSUME NEW c \in Callers, Caller(c) PROVE AlignInv'
  BY <1>1, CallerFrame DEF AlignInv, AlignedWith
<1>2. CASE TaskSubmit
  <2> SUFFICES ASSUME link'[gen'] = "connected"
               PROVE  \E rest \in Seq(Callers) : AlignedWith(rest)'
    BY DEF AlignInv
  <2>0. UNCHANGED <<rbuf, net, tx, rx, link, gen>> /\ cur \in Callers
    BY <1>0, <1>2 DEF TaskSubmit, LoopInv
  <2>1. PICK rest \in Seq(Callers) : AlignedWith(rest)
    BY <2>0 DEF AlignInv
  <2>2. CASE UNCHANGED <<replies, obuf>>
    BY <2>0, <2>1, <2>2 DEF AlignedWith
  <2>3. CASE replies' = Append(replies, cur) /\ obuf' = Append(obuf, cur)
    <3>1. rbuf \o rx \in Seq(Callers) /\ Append(rest, cur) \in Seq(Callers)
      BY <1>0, <2>0, ConcatProperties, AppendProperties DEF TypeQueues
    <3>2. AppendsLast(rbuf \o rx, rest, cur) /\ AppendsLast(tx, obuf, cur)
      BY <1>0, <2>0, <3>1, AppendsLastAll DEF TypeQueues
    <3>3. PICK longer \in Seq(Callers) : longer = Append(rest, cur)
      BY <3>1
    <3>4. AlignedWith(longer)'
      BY <2>0, <2>1, <2>3, <3>2, <3>3 DEF AlignedWith, AppendsLast
    <3> QED BY <3>4
  <2> QED BY <1>2, <2>2, <2>3 DEF TaskSubmit
<1>3. CASE TaskRead \/ TaskLock \/ TaskPop
  BY <1>3 DEF TaskRead, TaskLock, TaskPop, AlignInv, AlignedWith
<1>4. ASSUME NEW g \in Conns, HandleWrite(g) PROVE AlignInv'
  <2> SUFFICES ASSUME link'[gen'] = "connected"
               PROVE  \E rest \in Seq(Callers) : AlignedWith(rest)'
    BY DEF AlignInv
  <2>1. UNCHANGED <<rbuf, rx, net, replies, gen>> /\ g = gen /\ gen \in Conns
    BY <1>0, <1>4 DEF HandleWrite, Connected, ConnInv, TypeXc
  <2>2. CASE link' = [link EXCEPT ![g] = "closing"]
    BY <1>0, <2>1, <2>2 DEF TypeXc
  <2>3. ASSUME NEW k \in 1..Len(obuf), obuf' = Unsent(k), link' = link,
               tx' = IF net = "up" THEN tx \o SubSeq(obuf, 1, k) ELSE tx
        PROVE  \E rest \in Seq(Callers) : AlignedWith(rest)'
    <3>1. PICK rest \in Seq(Callers) : AlignedWith(rest)
      BY <2>1, <2>3 DEF AlignInv
    <3>2. obuf \in Seq(Callers) /\ tx \in Seq(Callers) /\ k \in 0..Len(obuf)
      BY <1>0, <2>3, LenProperties DEF TypeQueues
    <3>3. /\ SubSeq(obuf, 1, k) \in Seq(Callers)
          /\ obuf' \in Seq(Callers) /\ Cuts(obuf, k)
      BY <2>3, <3>2, CutsAll
    <3>4. Regroups(tx, SubSeq(obuf, 1, k), obuf')
      BY <3>2, <3>3, RegroupsAll
    <3>5. AlignedWith(rest)'
      BY <2>1, <2>3, <3>1, <3>3, <3>4 DEF AlignedWith, Cuts, Regroups
    <3> QED BY <3>5
  <2> QED BY <1>4, <2>2, <2>3 DEF HandleWrite, Close
<1>5. ASSUME NEW g \in Conns, HandleRead(g) PROVE AlignInv'
  <2> SUFFICES ASSUME link'[gen'] = "connected"
               PROVE  \E rest \in Seq(Callers) : AlignedWith(rest)'
    BY DEF AlignInv
  <2>1. UNCHANGED <<obuf, tx, net, replies, gen>> /\ g = gen /\ gen \in Conns
    BY <1>0, <1>5 DEF HandleRead, Connected, ConnInv, TypeXc
  <2>2. CASE link' = [link EXCEPT ![g] = "closing"]
    BY <1>0, <2>1, <2>2 DEF TypeXc
  <2>3. ASSUME NEW k \in 1..Len(rx), rbuf' = rbuf \o SubSeq(rx, 1, k),
               rx' = SubSeq(rx, k + 1, Len(rx)), link' = link
        PROVE  \E rest \in Seq(Callers) : AlignedWith(rest)'
    <3>1. PICK rest \in Seq(Callers) : AlignedWith(rest)
      BY <2>1, <2>3 DEF AlignInv
    <3>2. rbuf \in Seq(Callers) /\ rx \in Seq(Callers) /\ k \in 0..Len(rx)
      BY <1>0, <2>3, LenProperties DEF TypeQueues
    <3>3. /\ SubSeq(rx, 1, k) \in Seq(Callers)
          /\ rx' \in Seq(Callers) /\ Cuts(rx, k)
      BY <2>3, <3>2, CutsAll
    <3>4. Regroups(rbuf, SubSeq(rx, 1, k), rx')
      BY <3>2, <3>3, RegroupsAll
    <3>5. AlignedWith(rest)'
      BY <2>1, <2>3, <3>1, <3>3, <3>4 DEF AlignedWith, Cuts, Regroups
    <3> QED BY <3>5
  <2> QED BY <1>5, <2>2, <2>3 DEF HandleRead, Close
<1>6. CASE Process
  <2> SUFFICES ASSUME link'[gen'] = "connected"
               PROVE  \E rest \in Seq(Callers) : AlignedWith(rest)'
    BY DEF AlignInv
  <2>1. UNCHANGED <<obuf, tx, rx, net, link, gen>>
    BY <1>6 DEF Process
  <2>2. PICK rest \in Seq(Callers) : AlignedWith(rest)
    BY <2>1 DEF AlignInv
  <2>3. CASE UNCHANGED <<replies, rbuf>>
    BY <2>1, <2>2, <2>3 DEF AlignedWith
  <2>4. CASE rbuf # <<>> /\ replies' = Tail(replies) /\ rbuf' = Tail(rbuf)
    <3>1. rbuf \o rx \in Seq(Callers) /\ TakesFirst(rbuf, rx)
      BY <1>0, <2>4, ConcatProperties, TakesFirstAll DEF TypeQueues
    <3>2. rbuf \o rx # <<>>
      BY <3>1 DEF TakesFirst
    <3>3. TakesFirst(rbuf \o rx, rest)
      BY <3>1, <3>2, TakesFirstAll
    <3>4. AlignedWith(rest)'
      BY <2>1, <2>2, <2>4, <3>1, <3>3 DEF AlignedWith, TakesFirst
    <3> QED BY <3>4
  <2> QED BY <1>6, <2>3, <2>4 DEF Process
<1>7. CASE CbDec \/ CbStore \/ CbPost
  BY <1>7 DEF CbDec, CbStore, CbPost, AlignInv, AlignedWith
<1>8. CASE LoopFree
  <2>1. Closing
    BY <1>8 DEF LoopFree, FreeReplies, DiscPop, DiscDec, ReconnAdd, FreeAc,
       Closing
  <2>2. link[gen] # "connected" /\ gen' = gen
    BY <1>0, <1>8, <2>1, LoopFreeFrame DEF ConnInv, TypeXc
  <2>3. link'[gen] # "connected"
    BY <1>0, <1>8, <2>2 DEF LoopFree, FreeReplies, DiscPop, DiscDec, ReconnAdd,
       FreeAc, TypeXc
  <2> QED BY <2>2, <2>3 DEF AlignInv
<1>9. ASSUME NEW g \in Conns, HandleConnect(g) PROVE AlignInv'
  <2>1. /\ replies' = <<>> /\ rbuf' = <<>> /\ rx' = <<>>
        /\ tx' = <<>> /\ obuf' = <<>>
    BY <1>0, <1>9 DEF HandleConnect, LinkInv, ConnInv
  <2>2. <<>> \in Seq(Callers) /\ <<>> \o <<>> = <<>>
    BY EmptySeq, ConcatEmptySeq
  <2>3. AlignedWith(<<>>)'
    BY <2>1, <2>2 DEF AlignedWith
  <2> QED BY <2>2, <2>3 DEF AlignInv
<1>10. ASSUME NEW g \in Conns,
              \/ HandleConnectError(g) \/ OrphanError(g) \/ OrphanConnect(g)
              \/ OrphanLost(g)
       PROVE  AlignInv'
  <2>0. HandleConnectError(g) \/ OrphanError(g)
    BY <1>10, OrphanLostStep DEF OrphanConnect
  <2>1. link'[gen] = "connected" => link[gen] = "connected"
    BY <1>0, <2>0, FailsEmpty DEF TypeXc
  <2>2. UNCHANGED <<gen, net>>
    BY <2>0 DEF HandleConnectError, OrphanError
  <2> QED BY <1>10, <2>1, <2>2, LoopConnectFrame
      DEF AlignInv, AlignedWith, LoopConnect
<1>11. CASE Reconnect
  <2>1. link'[gen'] = "connected" => link[gen] = "connected"
    <3>1. CASE ReconnectAttach
      BY <1>0, <3>1, ConstantsOK DEF ReconnectAttach, TypeXc, Conns
    <3>2. CASE ReconnectTimeout
      BY <1>0, <3>2 DEF ReconnectTimeout, ConnInv, TypeXc
    <3>3. CASE ReconnectWake \/ ReconnectStale
      BY <3>3 DEF ReconnectWake, ReconnectStale
    <3> QED BY <1>11, <3>1, <3>2, <3>3 DEF Reconnect
  <2> QED BY <1>11, <2>1, ReconnectFrame DEF AlignInv, AlignedWith
<1>12. CASE Execute
  <2> SUFFICES ASSUME link[gen] = "connected"
               PROVE  \E rest \in Seq(Callers) : AlignedWith(rest)'
    BY <1>12 DEF AlignInv, Execute
  <2>1. /\ UNCHANGED <<replies, rbuf, obuf, net>> /\ net = "up" /\ tx # <<>>
        /\ rx' = Append(rx, Head(tx)) /\ tx' = Tail(tx)
    BY <1>12 DEF Execute
  <2>2. PICK rest \in Seq(Callers) : AlignedWith(rest)
    BY DEF AlignInv
  <2>3. rbuf \o rx \in Seq(Callers) /\ tx \o obuf \in Seq(Callers)
    BY <1>0, ConcatProperties DEF TypeQueues
  <2>4. TakesFirst(tx, obuf) /\ Head(tx) \in Callers
    BY <1>0, <2>1, TakesFirstAll, HeadTailProperties DEF TypeQueues
  <2>5. tx \o obuf # <<>>
    BY <2>4 DEF TakesFirst
  <2>6. ShiftsHead(rbuf \o rx, tx \o obuf) /\ Tail(tx \o obuf) \in Seq(Callers)
    BY <2>3, <2>5, ShiftsHeadAll, HeadTailProperties
  <2>7. AppendsLast(rbuf, rx, Head(tx))
    BY <1>0, <2>4, AppendsLastAll DEF TypeQueues
  <2>8. PICK shorter \in Seq(Callers) : shorter = Tail(tx \o obuf)
    BY <2>6
  <2>9. AlignedWith(shorter)'
    BY <2>1, <2>2, <2>4, <2>6, <2>7, <2>8
       DEF AlignedWith, TakesFirst, ShiftsHead, AppendsLast
  <2> QED BY <2>9
<1>13. ASSUME NEW g \in Conns, ConnLost(g) PROVE AlignInv'
  <2> SUFFICES ASSUME link[gen] = "connected"
               PROVE  \E rest \in Seq(Callers) : AlignedWith(rest)'
    BY <1>13 DEF AlignInv, ConnLost
  <2>1. PICK rest \in Seq(Callers) : AlignedWith(rest)
    BY DEF AlignInv
  <2>2. PICK k \in 0..Len(rx) : rx' = SubSeq(rx, 1, k)
    BY <1>13 DEF ConnLost
  <2>3. UNCHANGED <<replies, rbuf, obuf>> /\ net' = "down"
    BY <1>13 DEF ConnLost
  <2> DEFINE lost == SubSeq(rx, k + 1, Len(rx))
  <2>4. /\ rx' \in Seq(Callers) /\ lost \in Seq(Callers) /\ Cuts(rx, k)
        /\ rbuf \in Seq(Callers) /\ rx' \o lost = rx
    BY <1>0, <2>2, CutsAll DEF TypeQueues, Cuts
  <2> HIDE DEF lost
  <2>5. rbuf \o rx' \in Seq(Callers) /\ lost \o rest \in Seq(Callers)
    BY <2>4, ConcatProperties
  <2>6. Regroups(rbuf, rx', lost) /\ Regroups(rbuf \o rx', lost, rest)
    BY <2>4, <2>5, RegroupsAll
  <2>7. PICK longer \in Seq(Callers) : longer = lost \o rest
    BY <2>5
  <2>8. AlignedWith(longer)'
    BY <2>1, <2>3, <2>4, <2>6, <2>7 DEF AlignedWith, Regroups
  <2> QED BY <2>8
<1>14. CASE UNCHANGED vars
  BY <1>14 DEF AlignInv, AlignedWith, vars
<1> QED BY <1>1, <1>2, <1>3, <1>4, <1>5, <1>6, <1>7, <1>8, <1>9, <1>10,
           <1>11, <1>12, <1>13, <1>14, StepCases
        DEF LoopTask, LoopSocket, LoopConnect, Network

\* The oldest callback is the one for the oldest reply.
LEMMA OldestReply ==
    ASSUME IndInv, LinkInv, AlignInv, lpc = "process", rbuf # <<>>
    PROVE  replies # <<>> /\ Head(replies) = Head(rbuf)
<1>0. TypeQueues /\ TypeXc /\ ConnInv
  BY DEF IndInv, TypeOK
<1>1. status = "CONNECTED" /\ ~Closing
  BY <1>0 DEF ConnInv, Serving, Closing
<1>2. PICK rest \in Seq(Callers) : AlignedWith(rest)
  BY <1>1 DEF LinkInv, AlignInv
<1>3. rbuf \o rx \in Seq(Callers) /\ TakesFirst(rbuf, rx)
  BY <1>0, ConcatProperties, TakesFirstAll DEF TypeQueues
<1>4. rbuf \o rx # <<>>
  BY <1>3 DEF TakesFirst
<1>5. TakesFirst(rbuf \o rx, rest)
  BY <1>3, <1>4, TakesFirstAll
<1> QED BY <1>2, <1>3, <1>5 DEF AlignedWith, TakesFirst

\* replyCallback gets the reply of its own cmdInfo or NULL, stores that, and
\* the caller takes what was stored.
LEMMA ReplyStep ==
    ASSUME IndInv, LinkInv, AlignInv, ReplyInv, [Next]_vars, ~late'
    PROVE  ReplyInv'
<1>0. TypeCall /\ TypeInfo /\ TypeLoop /\ LoopInv
  BY DEF IndInv, TypeOK
<1>1. ASSUME NEW c \in Callers, Caller(c) PROVE ReplyInv'
  <2>1. \/ got' = got
        \/ got' = [got EXCEPT ![c] = reply[c]]
    BY <1>1, UseFreedStep DEF Caller, Begin, Enqueue, Notify, Peek, Wait,
       Expire, Take, Drop, Search, Unlink, ListRace, CheckStatus
  <2> QED BY <1>0, <1>1, <2>1, CallerFrame DEF ReplyInv, OwnReply, TypeCall
<1>2. CASE LoopTask
  BY <1>2, LoopTaskFrame DEF ReplyInv, OwnReply, LoopTask, TaskRead, TaskLock,
     TaskPop, TaskSubmit
<1>3. CASE LoopSocket
  <2>1. ASSUME NEW g \in Conns, HandleWrite(g) \/ HandleRead(g)
        PROVE  ReplyInv'
    BY <2>1 DEF HandleWrite, HandleRead, Close, ReplyInv, OwnReply
  <2>2. CASE Process
    BY <2>2, OldestReply DEF Process, ReplyInv, OwnReply
  <2>3. CASE CbDec \/ CbPost
    BY <2>3 DEF CbDec, CbPost, ReplyInv, OwnReply, AfterCallback
  <2>4. CASE CbStore
    BY <1>0, <2>4 DEF CbStore, ReplyInv, OwnReply, TypeInfo, LoopInv
  <2> QED BY <1>3, <2>1, <2>2, <2>3, <2>4 DEF LoopSocket
<1>4. CASE LoopFree
  BY <1>4, LoopFreeFrame DEF LoopFree, FreeReplies, DiscPop, DiscDec,
     ReconnAdd, FreeAc, ReplyInv, OwnReply
<1>5. CASE LoopConnect
  BY <1>5, LoopConnectFrame DEF ReplyInv, OwnReply
<1>6. CASE Reconnect
  BY <1>6, ReconnectFrame DEF ReplyInv, OwnReply
<1>7. CASE Network
  BY <1>7, NetworkFrame DEF ReplyInv, OwnReply
<1>8. CASE UNCHANGED vars
  BY <1>8 DEF ReplyInv, OwnReply, vars
<1> QED BY <1>1, <1>2, <1>3, <1>4, <1>5, <1>6, <1>7, <1>8, StepCases

\* The assertion of redisProcessCallbacks holds, and the reconnect thread
\* finds its context freed only while the status says so.
LEMMA OriginStep ==
    ASSUME IndInv, LinkInv, AlignInv, OriginInv, [Next]_vars, ~late'
    PROVE  OriginInv'
<1>0. TypeXc /\ ConnInv
  BY DEF IndInv, TypeOK
<1>1. ASSUME NEW c \in Callers, Caller(c) PROVE OriginInv'
  <2>1. ub' \in {ub, "ac_late", "list", "ci_free", "ctx"}
    BY <1>1, UseFreedStep DEF Caller, Begin, Enqueue, Notify, Peek, Wait,
       Expire, Take, Drop, Search, Unlink, ListRace, CheckStatus
  <2> QED BY <1>1, <2>1, CallerFrame DEF OriginInv
<1>2. CASE LoopTask
  BY <1>2, LoopTaskFrame DEF OriginInv, LoopTask, TaskRead, TaskLock, TaskPop,
     TaskSubmit
<1>3. CASE LoopSocket
  <2>1. CASE Process
    BY <2>1, OldestReply DEF Process, OriginInv
  <2>2. CASE CbDec \/ CbStore \/ CbPost
    BY <2>2 DEF CbDec, CbStore, CbPost, OriginInv
  <2>3. ASSUME NEW g \in Conns, HandleWrite(g) \/ HandleRead(g)
        PROVE  OriginInv'
    BY <2>3 DEF HandleWrite, HandleRead, OriginInv
  <2> QED BY <1>3, <2>1, <2>2, <2>3 DEF LoopSocket
<1>4. CASE LoopFree
  <2>1. Defined /\ ub' = ub
    BY <1>4, LoopFreeFrame DEF LoopFree, FreeReplies, DiscPop, DiscDec,
       ReconnAdd, FreeAc
  <2> QED BY <2>1 DEF OriginInv, Defined
<1>5. CASE LoopConnect
  <2>1. Defined /\ ub' = ub
    BY <1>5, LoopConnectFrame DEF LoopConnect, HandleConnect,
       HandleConnectError, OrphanError, OrphanConnect, OrphanLost
  <2> QED BY <2>1 DEF OriginInv, Defined
<1>6. CASE Reconnect
  <2>1. CASE ReconnectStale
    BY <1>0, <2>1 DEF ReconnectStale, Allocated, ConnInv, OriginInv
  <2>2. CASE ReconnectAttach \/ ReconnectWake \/ ReconnectTimeout
    BY <2>2 DEF ReconnectAttach, ReconnectWake, ReconnectTimeout, OriginInv
  <2> QED BY <1>6, <2>1, <2>2 DEF Reconnect
<1>7. CASE Network
  BY <1>7, NetworkFrame DEF OriginInv
<1>8. CASE UNCHANGED vars
  BY <1>8 DEF OriginInv, vars
<1> QED BY <1>1, <1>2, <1>3, <1>4, <1>5, <1>6, <1>7, <1>8, StepCases

------------------------------------------------------------------------------
(* Nothing is stuck on its way out *)

\* Output is unregistered only when it was all sent or the link is closing.
LEMMA WriteStep ==
    ASSUME IndInv, LinkInv, WriteInv, [Next]_vars, ~late'
    PROVE  WriteInv'
<1>0. TypeLoop /\ TypeXc /\ TypeQueues /\ ConnInv
  BY DEF IndInv, TypeOK
<1>1. ASSUME NEW c \in Callers, Caller(c) PROVE WriteInv'
  BY <1>1, CallerFrame DEF WriteInv
<1>2. CASE LoopTask
  BY <1>2, LoopTaskFrame DEF WriteInv, LoopTask, TaskRead, TaskLock, TaskPop,
     TaskSubmit
<1>3. ASSUME NEW g \in Conns, HandleWrite(g) PROVE WriteInv'
  <2>1. ASSUME NEW k \in 1..Len(obuf), obuf' = Unsent(k),
               writing' = MoreToWrite(k), obuf' # <<>>
        PROVE  writing'
    <3>1. Len(obuf) \in Nat
      BY <1>0, LenProperties DEF TypeQueues
    <3>2. ~(Len(obuf) < k + 1)
      BY <2>1, <3>1, SubSeqEmpty
    <3>3. k < Len(obuf)
      BY <2>1, <3>1, <3>2
    <3> QED BY <2>1, <3>3, Zenon
  <2>2. link' = [link EXCEPT ![g] = "closing"] => link'[gen] # "connected"
    BY <1>0, <1>3 DEF HandleWrite, Connected, ConnInv, TypeXc
  <2> QED BY <1>3, <2>1, <2>2 DEF HandleWrite, Close, WriteInv
<1>4. ASSUME NEW g \in Conns, HandleRead(g) PROVE WriteInv'
  <2>1. link'[gen] = "connected" => link[gen] = "connected"
    BY <1>0, <1>4 DEF HandleRead, Close, TypeXc
  <2> QED BY <1>4, <2>1 DEF HandleRead, WriteInv
<1>5. CASE Process \/ CbDec \/ CbStore \/ CbPost
  BY <1>5 DEF Process, CbDec, CbStore, CbPost, WriteInv
<1>6. CASE LoopFree
  <2>1. Closing
    BY <1>6 DEF LoopFree, FreeReplies, DiscPop, DiscDec, ReconnAdd, FreeAc,
       Closing
  <2>2. link[gen] # "connected" /\ gen' = gen
    BY <1>0, <1>6, <2>1, LoopFreeFrame DEF ConnInv, TypeXc
  <2>3. link'[gen] # "connected"
    BY <1>0, <1>6, <2>2 DEF LoopFree, FreeReplies, DiscPop, DiscDec, ReconnAdd,
       FreeAc, TypeXc
  <2> QED BY <2>2, <2>3 DEF WriteInv
<1>7. ASSUME NEW g \in Conns, HandleConnect(g) PROVE WriteInv'
  BY <1>7 DEF HandleConnect, WriteInv
<1>8. ASSUME NEW g \in Conns,
             \/ HandleConnectError(g) \/ OrphanError(g) \/ OrphanConnect(g)
             \/ OrphanLost(g)
      PROVE  WriteInv'
  <2>0. HandleConnectError(g) \/ OrphanError(g)
    BY <1>8, OrphanLostStep DEF OrphanConnect
  <2>1. /\ link'[gen] = "connected" => link[gen] = "connected" /\ g # gen
        /\ writing' = (writing /\ g # gen)
    BY <1>0, <2>0, FailsEmpty DEF TypeXc
  <2>2. UNCHANGED <<gen, obuf>>
    BY <2>0 DEF HandleConnectError, OrphanError
  <2> QED BY <2>1, <2>2 DEF WriteInv
<1>9. CASE Reconnect
  <2>1. CASE ReconnectAttach
    BY <2>1 DEF ReconnectAttach, WriteInv
  <2>2. CASE ReconnectTimeout
    BY <1>0, <2>2 DEF ReconnectTimeout, ConnInv, TypeXc, WriteInv
  <2>3. CASE ReconnectWake \/ ReconnectStale
    BY <2>3 DEF ReconnectWake, ReconnectStale, WriteInv
  <2> QED BY <1>9, <2>1, <2>2, <2>3 DEF Reconnect
<1>10. CASE Network
  BY <1>10, NetworkFrame DEF WriteInv
<1>11. CASE UNCHANGED vars
  BY <1>11 DEF WriteInv, vars
<1> QED BY <1>1, <1>2, <1>3, <1>4, <1>5, <1>6, <1>7, <1>8, <1>9, <1>10,
           <1>11, StepCases
        DEF LoopSocket, LoopConnect

\* Distinct elements of a finite set are no more than the set.
LEMMA NoDupLen ==
    ASSUME NEW s \in Seq(Callers), NoDup(s)
    PROVE  /\ Len(s) \in Nat /\ Cardinality(Callers) \in Nat
           /\ Len(s) <= Cardinality(Callers)
<1>1. Len(s) \in Nat /\ s \in [1..Len(s) -> Callers]
  BY LenProperties
<1>2. Cardinality(Callers) \in Nat
  BY FiniteCallers, FS_CardinalityType
<1>3. IsFiniteSet(1..Len(s)) /\ Cardinality(1..Len(s)) = Len(s)
  <2>1. Cardinality(1..Len(s)) = IF 1 > Len(s) THEN 0 ELSE Len(s) - 1 + 1
    BY <1>1, FS_Interval
  <2> QED BY <1>1, <2>1, FS_Interval, SMTT(60)
<1>4. s \in Injection(1..Len(s), Callers)
  BY <1>1 DEF NoDup, Injection, IsInjective
<1>5. Cardinality(1..Len(s)) <= Cardinality(Callers)
  BY <1>4, FiniteCallers, FS_Injection
<1> QED BY <1>1, <1>2, <1>3, <1>5

\* The callers that have yet to write their byte are finitely many.
LEMMA NotifyingFinite ==
    /\ IsFiniteSet(Notifying) /\ Cardinality(Notifying) \in Nat
    /\ IsFiniteSet(Notifying') /\ Cardinality(Notifying') \in Nat
<1>1. Notifying \subseteq Callers /\ Notifying' \subseteq Callers
  BY DEF Notifying
<1> QED BY <1>1, FiniteCallers, FS_Subset, FS_CardinalityType

\* A step of c into or out of "notify" changes their number by one.
LEMMA NotifyingChange ==
    ASSUME TypeCall, NEW c \in Callers, NEW q,
           pc' = [pc EXCEPT ![c] = q]
    PROVE  /\ pc[c] # "notify" /\ q = "notify"
                 => Cardinality(Notifying') = Cardinality(Notifying) + 1
           /\ pc[c] = "notify" /\ q # "notify"
                 => Cardinality(Notifying') = Cardinality(Notifying) - 1
           /\ pc[c] # "notify" /\ q # "notify"
                 => Cardinality(Notifying') = Cardinality(Notifying)
<1>1. CASE pc[c] # "notify" /\ q = "notify"
  <2>1. Notifying' = Notifying \cup {c} /\ c \notin Notifying
    BY <1>1 DEF Notifying, TypeCall
  <2> QED BY <1>1, <2>1, NotifyingFinite, FS_AddElement
<1>2. CASE pc[c] = "notify" /\ q # "notify"
  <2>1. Notifying' = Notifying \ {c} /\ c \in Notifying
    BY <1>2 DEF Notifying, TypeCall
  <2> QED BY <1>2, <2>1, NotifyingFinite, FS_RemoveElement
<1>3. CASE pc[c] # "notify" /\ q # "notify"
  <2>1. Notifying' = Notifying
    BY <1>3 DEF Notifying, TypeCall
  <2> QED BY <1>3, <2>1
<1> QED BY <1>1, <1>2, <1>3

\* A queued command loses its byte only when taskDeal's round takes a command
\* for it, or when the pipe is full and holds a byte for every caller.
LEMMA CoverStep ==
    ASSUME IndInv, CoverInv, [Next]_vars, ~late'
    PROVE  CoverInv'
<1>0. TypeCall /\ TypeLoop /\ TypeXc /\ TypeQueues /\ ListInv /\ LoopInv
      /\ ConnInv
  BY DEF IndInv, TypeOK
<1> SUFFICES ASSUME Cardinality(Callers) <= PipeCap
             PROVE  Len(cmd_list') <= pipe' + Covered' + Cardinality(Notifying')
  BY DEF CoverInv
<1>a. /\ Len(cmd_list) \in Nat /\ Cardinality(Callers) \in Nat
      /\ Len(cmd_list) <= Cardinality(Callers)
  BY <1>0, NoDupLen DEF TypeQueues, ListInv
<1>b. /\ pipe \in Nat /\ pipe <= PipeCap /\ PipeCap \in Nat /\ ReadMax \in Nat
      /\ budget \in Nat /\ Covered \in Nat /\ Cardinality(Notifying) \in Nat
  <2>1. pipe \in Nat /\ pipe <= PipeCap /\ PipeCap \in Nat /\ ReadMax \in Nat
        /\ budget \in Nat
    BY <1>0, ConstantsOK DEF TypeXc, TypeLoop
  <2>2. Covered \in Nat
    BY <1>0, <2>1 DEF Covered, LoopInv
  <2> QED BY <2>1, <2>2, NotifyingFinite
<1>c. Len(cmd_list) <= pipe + Covered + Cardinality(Notifying)
  BY DEF CoverInv
<1>1. ASSUME NEW c \in Callers, Enqueue(c)
      PROVE  Len(cmd_list') <= pipe' + Covered' + Cardinality(Notifying')
  <2>1. UNCHANGED <<pipe, lpc, budget>> /\ Covered' = Covered
    BY <1>1 DEF Enqueue, Covered
  <2>2. CASE cmd_list' = Append(cmd_list, c)
    <3>1. Len(cmd_list') = Len(cmd_list) + 1
      BY <1>0, <2>2, AppendProperties DEF TypeQueues
    <3>2. pc' = [pc EXCEPT ![c] = "notify"] /\ pc[c] # "notify"
      BY <1>0, <1>1, <2>2, <3>1, <1>a DEF Enqueue
    <3>3. Cardinality(Notifying') = Cardinality(Notifying) + 1
      BY <1>0, <3>2, NotifyingChange
    <3> QED BY <1>a, <1>b, <1>c, <2>1, <3>1, <3>3
  <2>3. CASE cmd_list' = cmd_list /\ pc' = [pc EXCEPT ![c] = "done"]
    <3>1. Cardinality(Notifying') = Cardinality(Notifying)
      BY <1>0, <1>1, <2>3, NotifyingChange DEF Enqueue
    <3> QED BY <1>c, <2>1, <2>3, <3>1
  <2> QED BY <1>1, <2>2, <2>3, UpAllocated DEF Enqueue
<1>2. ASSUME NEW c \in Callers, Notify(c)
      PROVE  Len(cmd_list') <= pipe' + Covered' + Cardinality(Notifying')
  <2>1. cmd_list' = cmd_list /\ Covered' = Covered
    BY <1>2 DEF Notify, Covered
  <2>2. Cardinality(Notifying') = Cardinality(Notifying) - 1
    <3>1. pc' = [pc EXCEPT ![c] = "peek"] /\ pc[c] = "notify"
      BY <1>2 DEF Notify
    <3>2. pc[c] = "notify" /\ "peek" # "notify"
             => Cardinality(Notifying') = Cardinality(Notifying) - 1
      BY <1>0, <3>1, NotifyingChange, Zenon
    <3> QED BY <3>1, <3>2, Zenon
  <2>3. Cardinality(Notifying') \in Nat
    BY NotifyingFinite
  <2>4. CASE pipe < PipeCap
    <3>1. pipe' = pipe + 1 BY <1>2, <2>4 DEF Notify
    <3> QED BY <1>a, <1>b, <1>c, <2>1, <2>2, <3>1
  <2>5. CASE ~(pipe < PipeCap)
    <3>1. pipe' = PipeCap BY <1>2, <1>b, <2>5 DEF Notify
    <3> QED BY <1>a, <1>b, <2>1, <2>3, <3>1
  <2> QED BY <2>4, <2>5
<1>3. ASSUME NEW c \in Callers, Unlink(c)
      PROVE  Len(cmd_list') <= pipe' + Covered' + Cardinality(Notifying')
  <2>1. pipe' = pipe /\ Covered' = Covered
    BY <1>3 DEF Unlink, Covered
  <2>2. CASE UNCHANGED <<cmd_list, pc>>
    BY <1>c, <2>1, <2>2 DEF Notifying
  <2>3. ASSUME NEW i \in 1..Len(cmd_list), cmd_list' = RemoveAt(cmd_list, i),
               pc' = [pc EXCEPT ![c] = "status"]
        PROVE  Len(cmd_list') <= pipe' + Covered' + Cardinality(Notifying')
    <3>1. Len(cmd_list') = Len(cmd_list) - 1
      <4>1. /\ cmd_list \in Seq(Callers)
            /\ \A j \in 1..Len(cmd_list) : cmd_list[j] \in Callers
        BY <1>0, ElementOfSeq DEF TypeQueues
      <4> DEFINE a == SubSeq(cmd_list, 1, i - 1)
                 b == SubSeq(cmd_list, i + 1, Len(cmd_list))
      <4>2. a \in Seq(Callers) /\ Len(a) = i - 1
        BY <1>a, <4>1, SubSeqProperties
      <4>3. b \in Seq(Callers) /\ Len(b) = Len(cmd_list) - i
        BY <1>a, <4>1, SubSeqProperties
      <4>4. cmd_list' = a \o b
        BY <2>3 DEF RemoveAt
      <4> HIDE DEF a, b
      <4>5. Len(cmd_list') = Len(a) + Len(b)
        BY <4>2, <4>3, <4>4, ConcatProperties
      <4> QED BY <1>a, <4>2, <4>3, <4>5
    <3>2. Cardinality(Notifying') = Cardinality(Notifying)
      BY <1>0, <1>3, <2>3, NotifyingChange DEF Unlink
    <3> QED BY <1>a, <1>b, <1>c, <2>1, <3>1, <3>2
  <2> QED BY <1>3, <2>2, <2>3 DEF Unlink
<1>4. ASSUME NEW c \in Callers,
             \/ Begin(c) \/ Peek(c) \/ Wait(c) \/ Expire(c) \/ Take(c)
             \/ Drop(c) \/ Search(c) \/ ListRace(c) \/ CheckStatus(c)
      PROVE  Len(cmd_list') <= pipe' + Covered' + Cardinality(Notifying')
  <2>1. UNCHANGED <<cmd_list, pipe>> /\ Covered' = Covered
    BY <1>4 DEF Begin, Peek, Wait, Expire, Take, Drop, Search, ListRace,
       CheckStatus, Covered
  <2>2. \/ pc' = pc
        \/ \E q \in CallerPCs \ {"notify"} :
              pc[c] # "notify" /\ pc' = [pc EXCEPT ![c] = q]
    BY <1>4 DEF Begin, Peek, Wait, Expire, Take, Drop, Search, ListRace,
       CheckStatus, CallerPCs
  <2>3. Cardinality(Notifying') = Cardinality(Notifying)
    <3>1. CASE pc' = pc
      BY <3>1 DEF Notifying
    <3>2. CASE pc' # pc
      BY <1>0, <2>2, <3>2, NotifyingChange
    <3> QED BY <3>1, <3>2
  <2> QED BY <1>c, <2>1, <2>3
<1>5. CASE LoopTask
  <2>1. Cardinality(Notifying') = Cardinality(Notifying)
    BY <1>5, LoopTaskFrame DEF Notifying
  <2>2. CASE TaskRead
    <3>1. /\ cmd_list' = cmd_list /\ Covered = 0 /\ Covered' = budget'
          /\ budget' \in Nat /\ budget' <= pipe /\ pipe' = pipe - budget'
      BY <1>b, <2>2 DEF TaskRead, Covered
    <3> QED BY <1>a, <1>b, <1>c, <2>1, <3>1
  <2>3. CASE TaskLock
    <3>1. UNCHANGED <<cmd_list, pipe>>
      BY <2>3 DEF TaskLock
    <3>2. CASE status = "CONNECTED"
      BY <1>c, <2>1, <2>3, <3>1, <3>2, UpAllocated DEF TaskLock, Covered
    <3>3. CASE status # "CONNECTED"
      <4>1. cmd_list' = <<>> /\ Covered' = 0
        BY <1>0, <2>3, <3>3 DEF TaskLock, Covered, ConnInv
      <4> QED BY <1>b, <2>1, <3>1, <4>1, EmptySeq
    <3> QED BY <3>2, <3>3
  <2>4. CASE TaskPop
    <3>1. CASE cmd_list = <<>>
      <4>1. cmd_list' = <<>> /\ Covered' = 0 /\ pipe' = pipe
        BY <2>4, <3>1 DEF TaskPop, Covered
      <4> QED BY <1>b, <2>1, <4>1, EmptySeq
    <3>2. CASE cmd_list # <<>>
      <4>1. /\ cmd_list' = Tail(cmd_list) /\ Covered = budget
            /\ Covered' = budget - 1 /\ pipe' = pipe
        BY <2>4, <3>2 DEF TaskPop, Covered
      <4>2. Len(cmd_list') = Len(cmd_list) - 1
        BY <1>0, <3>2, <4>1, HeadTailProperties DEF TypeQueues
      <4>3. Len(cmd_list) - 1 <= pipe + (budget - 1) + Cardinality(Notifying)
        BY <1>a, <1>b, <1>c, <4>1
      <4> QED BY <2>1, <4>1, <4>2, <4>3
    <3> QED BY <3>1, <3>2
  <2>5. CASE TaskSubmit
    <3>1. UNCHANGED <<cmd_list, pipe>>
      BY <2>5 DEF TaskSubmit
    <3>2. Covered' = Covered
      BY <1>0, <1>b, <2>5 DEF TaskSubmit, Covered, LoopInv
    <3> QED BY <1>c, <2>1, <3>1, <3>2
  <2> QED BY <1>5, <2>2, <2>3, <2>4, <2>5 DEF LoopTask
<1>6. CASE LoopSocket
  <2>1. UNCHANGED <<pc, cmd_list, pipe>>
    BY <1>6, LoopSocketFrame
  <2>2. Covered = 0 /\ Covered' = 0
    BY <1>6 DEF LoopSocket, HandleWrite, HandleRead, Close, Process, CbDec,
       CbStore, CbPost, AfterCallback, Covered
  <2> QED BY <1>c, <2>1, <2>2 DEF Notifying
<1>7. CASE LoopFree
  <2>1. UNCHANGED <<pc, pipe>> /\ Cardinality(Notifying') = Cardinality(Notifying)
    BY <1>7, LoopFreeFrame DEF Notifying
  <2>2. Covered = 0 /\ Covered' = 0
    BY <1>7 DEF LoopFree, FreeReplies, DiscPop, DiscDec, ReconnAdd, FreeAc,
       Covered
  <2>3. cmd_list' \in {cmd_list, <<>>}
        \/ (cmd_list # <<>> /\ cmd_list' = Tail(cmd_list))
    BY <1>7 DEF LoopFree, FreeReplies, DiscPop, DiscDec, ReconnAdd, FreeAc
  <2>4. Len(cmd_list') <= Len(cmd_list)
    <3>1. CASE cmd_list' = cmd_list BY <1>a, <3>1
    <3>2. CASE cmd_list' = <<>> BY <1>a, <3>2, EmptySeq
    <3>3. CASE cmd_list # <<>> /\ cmd_list' = Tail(cmd_list)
      BY <1>0, <1>a, <3>3, HeadTailProperties DEF TypeQueues
    <3> QED BY <2>3, <3>1, <3>2, <3>3
  <2>5. Len(cmd_list') \in Nat
    <3>1. CASE cmd_list' = cmd_list BY <1>a, <3>1
    <3>2. CASE cmd_list' = <<>> BY <3>2, EmptySeq
    <3>3. CASE cmd_list # <<>> /\ cmd_list' = Tail(cmd_list)
      BY <1>0, <3>3, HeadTailProperties, LenProperties DEF TypeQueues
    <3> QED BY <2>3, <3>1, <3>2, <3>3
  <2> QED BY <1>a, <1>b, <1>c, <2>1, <2>2, <2>4, <2>5
<1>8. CASE LoopConnect
  <2>1. UNCHANGED <<pc, cmd_list, pipe, lpc, budget>>
    BY <1>8, LoopConnectFrame
  <2> QED BY <1>c, <2>1 DEF Notifying, Covered
<1>9. CASE Reconnect
  <2>1. UNCHANGED <<pc, cmd_list, pipe, lpc, budget>>
    BY <1>9, ReconnectFrame
  <2> QED BY <1>c, <2>1 DEF Notifying, Covered
<1>10. CASE Network
  <2>1. UNCHANGED <<pc, cmd_list, pipe, lpc, budget>>
    BY <1>10, NetworkFrame
  <2> QED BY <1>c, <2>1 DEF Notifying, Covered
<1>11. CASE UNCHANGED vars
  BY <1>c, <1>11 DEF vars, Notifying, Covered
<1> QED BY <1>1, <1>2, <1>3, <1>4, <1>5, <1>6, <1>7, <1>8, <1>9, <1>10,
           <1>11, StepCases, UseFreedStep
        DEF Caller

------------------------------------------------------------------------------
(* A command is sent at most once, and only replies to it come back *)

\* a and b share out the elements of s.
Shares(s, a, b) ==
    /\ \A x : Contains(s, x) <=> Contains(a, x) \/ Contains(b, x)
    /\ NoDup(s) => /\ NoDup(a) /\ NoDup(b)
                   /\ \A x : ~(Contains(a, x) /\ Contains(b, x))

\* The two pieces of a sequence share out its elements.
LEMMA CutMembers ==
    ASSUME NEW S, NEW s \in Seq(S), NEW k \in 0..Len(s)
    PROVE  Shares(s, SubSeq(s, 1, k), SubSeq(s, k + 1, Len(s)))
<1> DEFINE a == SubSeq(s, 1, k)
           b == SubSeq(s, k + 1, Len(s))
<1>1. a \in Seq(S) /\ b \in Seq(S) /\ Cuts(s, k)
  BY CutsAll
<1>2. a \o b = s
  BY <1>1, Zenon DEF Cuts
<1> HIDE DEF a, b
<1>3. /\ \A x : Contains(a \o b, x) <=> Contains(a, x) \/ Contains(b, x)
      /\ NoDup(a \o b) <=>
            /\ NoDup(a) /\ NoDup(b)
            /\ \A x \in S : ~(Contains(a, x) /\ Contains(b, x))
  BY <1>1, ConcatMembers
<1>4. \A x : Contains(a, x) => x \in S
  BY <1>1, ElementOfSeq DEF Contains
<1>5. Shares(s, a, b)
  BY <1>2, <1>3, <1>4 DEF Shares
<1> QED BY <1>5 DEF a, b

\* What a step of a caller may do to cmd_list.
LEMMA CallerList ==
    ASSUME IndInv, NEW c \in Callers, Caller(c)
    PROVE  \A d \in Callers : Contains(cmd_list', d)
              => Contains(cmd_list, d) \/ (d = c /\ Enqueue(c) /\ myac'[c] # 0)
<1>0. TypeCall /\ TypeQueues /\ TypeXc /\ ListInv
  BY DEF IndInv, TypeOK
<1>1. CASE Enqueue(c)
  <2>1. CASE cmd_list' = Append(cmd_list, c) /\ myac' = [myac EXCEPT ![c] = ctx]
             /\ ctx # 0
    <3>1. \A d : Contains(cmd_list', d) <=> Contains(cmd_list, d) \/ d = c
      BY <1>0, <2>1, AppendMembers DEF TypeQueues
    <3> QED BY <1>0, <1>1, <2>1, <3>1 DEF TypeCall
  <2>2. CASE cmd_list' = cmd_list
    BY <2>2
  <2> QED BY <1>1, <2>1, <2>2 DEF Enqueue
<1>2. CASE Unlink(c)
  <2>1. CASE cmd_list' = cmd_list
    BY <2>1
  <2>2. ASSUME NEW i \in 1..Len(cmd_list), cmd_list' = RemoveAt(cmd_list, i)
        PROVE  \A d : Contains(cmd_list', d) => Contains(cmd_list, d)
    BY <1>0, <2>2, RemoveMembers DEF TypeQueues, ListInv
  <2> QED BY <1>2, <2>1, <2>2 DEF Unlink
<1>3. CASE \/ Begin(c) \/ Notify(c) \/ Peek(c) \/ Wait(c) \/ Expire(c)
           \/ Take(c) \/ Drop(c) \/ Search(c) \/ ListRace(c) \/ CheckStatus(c)
  BY <1>3 DEF Begin, Notify, Peek, Wait, Expire, Take, Drop, Search, ListRace,
     CheckStatus
<1> QED BY <1>1, <1>2, <1>3, UseFreedStep DEF Caller

\* A command moves from cmd_list to obuf, to the wire and to the server's log
\* without ever being in two of them.
LEMMA OnceStep ==
    ASSUME IndInv, OnceInv, CallInv, [Next]_vars, ~late'
    PROVE  OnceInv'
<1>0. TypeLoop /\ TypeQueues /\ ListInv /\ LoopInv
  BY DEF IndInv, TypeOK
<1>1. ASSUME NEW c \in Callers, Caller(c) PROVE OnceInv'
  <2>1. \A d \in Callers :
           Contains(cmd_list', d) => Contains(cmd_list, d) \/ ~Sent(d)
    BY <1>1, CallerList DEF CallInv, Enqueue
  <2> QED BY <1>1, <2>1, CallerFrame DEF OnceInv, Sent, ToSend
<1>2. CASE TaskRead \/ TaskLock
  BY <1>2 DEF TaskRead, TaskLock, OnceInv, Sent, ToSend
<1>3. CASE TaskPop
  <2>1. \A d \in Callers : ToSend(d)' => ToSend(d)
    <3>1. CASE cmd_list = <<>>
      BY <1>3, <3>1 DEF TaskPop, ToSend
    <3>2. CASE cmd_list # <<>>
      BY <1>0, <1>3, <3>2, TailMembers, ZenonT(90) DEF TaskPop, ToSend, TypeQueues, ListInv
    <3> QED BY <3>1, <3>2
  <2>2. UNCHANGED <<executed, tx, obuf>>
    BY <1>3 DEF TaskPop
  <2> QED BY <2>1, <2>2 DEF OnceInv, Sent
<1>4. CASE TaskSubmit
  <2>1. UNCHANGED <<executed, tx, cmd_list>> /\ cur \in Callers /\ ToSend(cur)
    BY <1>0, <1>4 DEF TaskSubmit, LoopInv, ToSend
  <2>2. CASE obuf' = obuf
    BY <1>4, <2>1, <2>2 DEF TaskSubmit, OnceInv, Sent, ToSend
  <2>3. CASE obuf' = Append(obuf, cur) /\ lpc' # "taskSubmit"
    <3>1. /\ \A d : Contains(obuf', d) <=> Contains(obuf, d) \/ d = cur
          /\ NoDup(obuf')
      BY <1>0, <2>1, <2>3, AppendMembers DEF TypeQueues, OnceInv, Sent
    <3>2. ~Contains(cmd_list, cur) /\ ~Sent(cur)
      BY <1>0, <1>4, <2>1 DEF ListInv, InHand, TaskSubmit, OnceInv
    <3> QED BY <2>1, <2>3, <3>1, <3>2 DEF OnceInv, Sent, ToSend
  <2> QED BY <1>4, <2>2, <2>3 DEF TaskSubmit
<1>5. ASSUME NEW g \in Conns, HandleWrite(g) PROVE OnceInv'
  <2>1. UNCHANGED <<executed, cmd_list>> /\ lpc' # "taskSubmit"
    BY <1>5 DEF HandleWrite, Close
  <2>2. CASE UNCHANGED <<obuf, tx>>
    BY <2>1, <2>2 DEF OnceInv, Sent, ToSend
  <2>3. ASSUME NEW k \in 1..Len(obuf), obuf' = Unsent(k),
               tx' = IF net = "up" THEN tx \o SubSeq(obuf, 1, k) ELSE tx
        PROVE  OnceInv'
    <3>0. k \in 0..Len(obuf) /\ obuf \in Seq(Callers) /\ tx \in Seq(Callers)
      BY <1>0, <2>3, LenProperties DEF TypeQueues
    <3>1. PICK out : out = SubSeq(obuf, 1, k)
      OBVIOUS
    <3>2. Shares(obuf, out, obuf') /\ out \in Seq(Callers)
      <4>1. SubSeq(obuf, 1, k) \in Seq(Callers)
        BY <3>0, CutsAll
      <4>2. Shares(obuf, SubSeq(obuf, 1, k), SubSeq(obuf, k + 1, Len(obuf)))
        BY <3>0, CutMembers
      <4> QED BY <2>3, <3>1, <4>1, <4>2, Zenon
    <3>3. CASE tx' = tx \o out
      <4>1. /\ \A x : Contains(tx', x) <=> Contains(tx, x) \/ Contains(out, x)
            /\ NoDup(tx')
        BY <3>0, <3>2, <3>3, ConcatMembers DEF OnceInv, Shares
      <4> QED BY <2>1, <3>2, <4>1 DEF OnceInv, Sent, ToSend, Shares
    <3>4. CASE tx' = tx
      BY <2>1, <3>2, <3>4 DEF OnceInv, Sent, ToSend, Shares
    <3> QED BY <2>3, <3>1, <3>3, <3>4
  <2> QED BY <1>5, <2>2, <2>3 DEF HandleWrite
<1>6. ASSUME NEW g \in Conns, HandleRead(g) PROVE OnceInv'
  BY <1>6 DEF HandleRead, Close, OnceInv, Sent, ToSend
<1>7. CASE Process \/ CbDec \/ CbStore \/ CbPost
  BY <1>7 DEF Process, CbDec, CbStore, CbPost, AfterCallback, OnceInv, Sent,
     ToSend
<1>8. CASE FreeReplies \/ DiscDec \/ ReconnAdd
  BY <1>8 DEF FreeReplies, DiscDec, ReconnAdd, OnceInv, Sent, ToSend
<1>9. CASE DiscPop
  <2>1. \A d \in Callers : ToSend(d)' => ToSend(d)
    <3>1. CASE cmd_list = <<>>
      BY <1>9, <3>1 DEF DiscPop, ToSend
    <3>2. CASE cmd_list # <<>>
      BY <1>0, <1>9, <3>2, TailMembers DEF DiscPop, ToSend, TypeQueues, ListInv
    <3> QED BY <3>1, <3>2
  <2>2. UNCHANGED <<executed, tx, obuf>>
    BY <1>9 DEF DiscPop
  <2> QED BY <2>1, <2>2 DEF OnceInv, Sent
<1>10. CASE FreeAc
  <2>1. /\ executed' = executed /\ tx' = <<>> /\ obuf' = <<>>
        /\ cmd_list' = <<>> /\ lpc' # "taskSubmit"
    BY <1>10 DEF FreeAc, IndInv, ConnInv
  <2> QED BY <2>1, EmptyMembers DEF OnceInv, Sent, ToSend
<1>11. CASE LoopConnect
  BY <1>11, LoopConnectFrame DEF OnceInv, Sent, ToSend
<1>12. CASE Reconnect
  BY <1>12, ReconnectFrame DEF OnceInv, Sent, ToSend
<1>13. CASE Execute
  <2>1. /\ Head(tx) \in Callers /\ NoDup(tx') /\ Contains(tx, Head(tx))
        /\ \A x : Contains(tx', x) <=> Contains(tx, x) /\ x # Head(tx)
    BY <1>0, <1>13, TailMembers DEF Execute, TypeQueues, OnceInv
  <2>2. ~Contains(executed, Head(tx))
    BY <2>1 DEF OnceInv
  <2>3. /\ \A x : Contains(executed', x) <=> Contains(executed, x) \/ x = Head(tx)
        /\ NoDup(executed')
    BY <1>0, <1>13, <2>1, <2>2, AppendMembers DEF Execute, TypeQueues, OnceInv
  <2>4. UNCHANGED <<obuf, cmd_list, cur, lpc>>
    BY <1>13 DEF Execute
  <2> QED BY <2>1, <2>3, <2>4 DEF OnceInv, Sent, ToSend
<1>14. ASSUME NEW g \in Conns, ConnLost(g) PROVE OnceInv'
  <2>1. tx' = <<>> /\ UNCHANGED <<executed, obuf, cmd_list, cur, lpc>>
    BY <1>14 DEF ConnLost
  <2> QED BY <2>1, EmptyMembers DEF OnceInv, Sent, ToSend
<1>15. CASE UNCHANGED vars
  BY <1>15 DEF vars, OnceInv, Sent, ToSend
<1> QED BY <1>1, <1>2, <1>3, <1>4, <1>5, <1>6, <1>7, <1>8, <1>9, <1>10, <1>11,
           <1>12, <1>13, <1>14, <1>15, StepCases
        DEF LoopTask, LoopSocket, LoopFree, Network

\* Taking the head adds no element.
LEMMA TailSubset ==
    ASSUME NEW S, NEW s \in Seq(S), s # <<>>
    PROVE  /\ Contains(s, Head(s))
           /\ \A x : Contains(Tail(s), x) => Contains(s, x)
<1>1. /\ Tail(s) \in Seq(S) /\ Len(s) \in Nat \ {0} /\ Head(s) = s[1]
      /\ Len(Tail(s)) = Len(s) - 1
      /\ \A i \in 1..Len(Tail(s)) : Tail(s)[i] = s[i + 1]
  BY HeadTailProperties, EmptySeq
<1>2. Contains(s, Head(s))
  BY <1>1 DEF Contains
<1>3. ASSUME NEW x, Contains(Tail(s), x) PROVE Contains(s, x)
  <2>1. PICK i \in 1..Len(Tail(s)) : Tail(s)[i] = x BY <1>3 DEF Contains
  <2>2. i + 1 \in 1..Len(s) /\ s[i + 1] = x BY <1>1, <2>1
  <2> QED BY <2>2 DEF Contains
<1> QED BY <1>2, <1>3

\* What the loop, the reconnect thread and the network have to send or have
\* sent came from a caller.
LEMMA TravelStep ==
    ASSUME IndInv, OnceInv, [Next]_vars, ~late',
           ~\E c \in Callers : Caller(c)
    PROVE  \A d \in Callers : (Sent(d) \/ ToSend(d))' => Sent(d) \/ ToSend(d)
<1> SUFFICES ASSUME NEW d \in Callers, (Sent(d) \/ ToSend(d))'
             PROVE  Sent(d) \/ ToSend(d)
  OBVIOUS
<1>0. TypeLoop /\ TypeQueues /\ ListInv /\ LoopInv
  BY DEF IndInv, TypeOK
<1>1. CASE LoopTask
  <2>1. UNCHANGED <<executed, tx>>
    BY <1>1, LoopTaskFrame
  <2>2. CASE TaskRead \/ TaskLock
    BY <2>2 DEF TaskRead, TaskLock, Sent, ToSend
  <2>3. CASE TaskPop
    <3>1. CASE cmd_list = <<>>
      BY <2>3, <3>1 DEF TaskPop, Sent, ToSend
    <3>2. CASE cmd_list # <<>>
      <4>1. /\ Contains(cmd_list, Head(cmd_list))
            /\ \A x : Contains(Tail(cmd_list), x) => Contains(cmd_list, x)
        BY <1>0, <3>2, TailSubset DEF TypeQueues
      <4> QED BY <2>3, <3>2, <4>1 DEF TaskPop, Sent, ToSend
    <3> QED BY <3>1, <3>2
  <2>4. CASE TaskSubmit
    <3>1. cmd_list' = cmd_list /\ cur \in Callers /\ lpc = "taskSubmit"
      BY <1>0, <2>4 DEF TaskSubmit, LoopInv
    <3>2. CASE obuf' = obuf
      BY <2>4, <3>1, <3>2 DEF TaskSubmit, Sent, ToSend
    <3>3. CASE obuf' = Append(obuf, cur) /\ lpc' # "taskSubmit"
      <4>1. \A x : Contains(obuf', x) <=> Contains(obuf, x) \/ x = cur
        BY <1>0, <3>1, <3>3, AppendMembers DEF TypeQueues
      <4> QED BY <2>1, <3>1, <3>3, <4>1 DEF Sent, ToSend
    <3> QED BY <2>4, <3>2, <3>3 DEF TaskSubmit
  <2> QED BY <1>1, <2>2, <2>3, <2>4 DEF LoopTask
<1>2. ASSUME NEW g \in Conns, HandleWrite(g) PROVE Sent(d) \/ ToSend(d)
  <2>1. UNCHANGED <<executed, cmd_list>> /\ lpc' # "taskSubmit"
    BY <1>2 DEF HandleWrite, Close
  <2>2. CASE UNCHANGED <<obuf, tx>>
    BY <2>1, <2>2 DEF Sent, ToSend
  <2>3. ASSUME NEW k \in 1..Len(obuf), obuf' = Unsent(k),
               tx' = IF net = "up" THEN tx \o SubSeq(obuf, 1, k) ELSE tx
        PROVE  Sent(d) \/ ToSend(d)
    <3>0. k \in 0..Len(obuf) /\ obuf \in Seq(Callers) /\ tx \in Seq(Callers)
      BY <1>0, <2>3, LenProperties DEF TypeQueues
    <3>1. PICK out : out = SubSeq(obuf, 1, k)
      OBVIOUS
    <3>2. Shares(obuf, out, obuf') /\ out \in Seq(Callers)
      <4>1. SubSeq(obuf, 1, k) \in Seq(Callers)
        BY <3>0, CutsAll
      <4>2. Shares(obuf, SubSeq(obuf, 1, k), SubSeq(obuf, k + 1, Len(obuf)))
        BY <3>0, CutMembers
      <4> QED BY <2>3, <3>1, <4>1, <4>2, Zenon
    <3>3. CASE tx' = tx \o out
      <4>1. \A x : Contains(tx', x) <=> Contains(tx, x) \/ Contains(out, x)
        BY <3>0, <3>2, <3>3, ConcatMembers
      <4> QED BY <2>1, <3>2, <4>1 DEF Sent, ToSend, Shares
    <3>4. CASE tx' = tx
      BY <2>1, <3>2, <3>4 DEF Sent, ToSend, Shares
    <3> QED BY <2>3, <3>1, <3>3, <3>4
  <2> QED BY <1>2, <2>2, <2>3 DEF HandleWrite
<1>3. ASSUME NEW g \in Conns, HandleRead(g) PROVE Sent(d) \/ ToSend(d)
  BY <1>3 DEF HandleRead, Close, Sent, ToSend
<1>4. CASE Process \/ CbDec \/ CbStore \/ CbPost
  BY <1>4 DEF Process, CbDec, CbStore, CbPost, AfterCallback, Sent, ToSend
<1>5. CASE FreeReplies \/ DiscDec \/ ReconnAdd
  BY <1>5 DEF FreeReplies, DiscDec, ReconnAdd, Sent, ToSend
<1>6. CASE DiscPop
  <2>1. CASE cmd_list = <<>>
    BY <1>6, <2>1 DEF DiscPop, Sent, ToSend
  <2>2. CASE cmd_list # <<>>
    <3>1. \A x : Contains(Tail(cmd_list), x) => Contains(cmd_list, x)
      BY <1>0, <2>2, TailSubset DEF TypeQueues
    <3> QED BY <1>6, <2>2, <3>1 DEF DiscPop, Sent, ToSend
  <2> QED BY <2>1, <2>2
<1>7. CASE FreeAc
  BY <1>7, EmptyMembers DEF FreeAc, Sent, ToSend
<1>8. CASE LoopConnect
  BY <1>8, LoopConnectFrame DEF Sent, ToSend
<1>9. CASE Reconnect
  BY <1>9, ReconnectFrame DEF Sent, ToSend
<1>10. CASE Execute
  <2>1. /\ Head(tx) \in Callers /\ Contains(tx, Head(tx))
        /\ \A x : Contains(tx', x) <=> Contains(tx, x) /\ x # Head(tx)
    BY <1>0, <1>10, TailMembers DEF Execute, TypeQueues, OnceInv
  <2>2. \A x : Contains(executed', x) <=> Contains(executed, x) \/ x = Head(tx)
    BY <1>0, <1>10, <2>1, AppendMembers DEF Execute, TypeQueues
  <2>3. UNCHANGED <<obuf, cmd_list, cur, lpc>>
    BY <1>10 DEF Execute
  <2> QED BY <2>1, <2>2, <2>3 DEF Sent, ToSend
<1>11. ASSUME NEW g \in Conns, ConnLost(g) PROVE Sent(d) \/ ToSend(d)
  <2>1. tx' = <<>> /\ UNCHANGED <<executed, obuf, cmd_list, cur, lpc>>
    BY <1>11 DEF ConnLost
  <2> QED BY <2>1, EmptyMembers DEF Sent, ToSend
<1>12. CASE UNCHANGED vars
  BY <1>12 DEF vars, Sent, ToSend
<1> QED BY <1>1, <1>2, <1>3, <1>4, <1>5, <1>6, <1>7, <1>8, <1>9, <1>10, <1>11,
           <1>12, StepCases
        DEF LoopSocket, LoopFree, Network

\* A caller has a context exactly from the moment its command is queued.
LEMMA CallStep ==
    ASSUME IndInv, OnceInv, CallInv, [Next]_vars, ~late'
    PROVE  CallInv'
<1>0. TypeCall /\ TypeXc
  BY DEF IndInv, TypeOK
<1>1. ASSUME NEW c \in Callers, Caller(c) PROVE CallInv'
  <2>1. ASSUME NEW d \in Callers PROVE Sent(d)' = Sent(d)
    BY <1>1, CallerFrame DEF Sent
  <2>2. ASSUME NEW d \in Callers, ToSend(d)'
        PROVE  ToSend(d) \/ (d = c /\ myac'[c] # 0)
    BY <1>1, <2>2, CallerList, CallerFrame DEF ToSend
  <2>3. ASSUME NEW d \in Callers
        PROVE  /\ pc'[d] \in {"idle", "enqueue"} => myac'[d] = 0
               /\ pc'[d] \notin {"idle", "enqueue", "done"} => myac'[d] # 0
               /\ myac[d] # 0 => myac'[d] # 0
               /\ myac'[d] = 0 => got'[d] = NULL
    <3>1. CASE Enqueue(c)
      BY <1>0, <3>1 DEF Enqueue, CallInv, TypeCall
    <3>2. CASE Take(c)
      BY <1>0, <3>2 DEF Take, CallInv, TypeCall
    <3>3. CASE Begin(c) \/ Notify(c) \/ Peek(c) \/ Wait(c) \/ Expire(c)
      BY <1>0, <3>3 DEF Begin, Notify, Peek, Wait, Expire, CallInv, TypeCall
    <3>4. CASE Drop(c) \/ Search(c) \/ Unlink(c) \/ ListRace(c) \/ CheckStatus(c)
      BY <1>0, <3>4 DEF Drop, Search, Unlink, ListRace, CheckStatus, CallInv,
         TypeCall
    <3> QED BY <1>1, <3>1, <3>2, <3>3, <3>4, UseFreedStep DEF Caller
  <2> QED BY <2>1, <2>2, <2>3 DEF CallInv
<1>2. ASSUME ~\E c \in Callers : Caller(c) PROVE CallInv'
  <2>1. UNCHANGED <<pc, myac, got>>
    BY <1>2, StepCases, LoopTaskFrame, LoopSocketFrame, LoopFreeFrame,
       LoopConnectFrame, ReconnectFrame, NetworkFrame DEF vars
  <2>2. \A d \in Callers : (Sent(d) \/ ToSend(d))' => Sent(d) \/ ToSend(d)
    BY <1>2, TravelStep
  <2> QED BY <2>1, <2>2 DEF CallInv
<1> QED BY <1>1, <1>2

\* A reply comes from the server's log and stays one through the socket, the
\* reader, replyCallback and the cmdInfo.
LEMMA AnsweredStep ==
    ASSUME IndInv, ReplyInv, AnsweredInv, [Next]_vars, ~late'
    PROVE  AnsweredInv'
<1>0. TypeCall /\ TypeInfo /\ TypeLoop /\ TypeQueues /\ LoopInv
  BY DEF IndInv, TypeOK
<1>1. ASSUME NEW c \in Callers, Caller(c) PROVE AnsweredInv'
  <2>1. \/ got' = got
        \/ got' = [got EXCEPT ![c] = reply[c]]
    BY <1>1, UseFreedStep DEF Caller, Begin, Enqueue, Notify, Peek, Wait,
       Expire, Take, Drop, Search, Unlink, ListRace, CheckStatus
  <2> QED BY <1>0, <1>1, <2>1, CallerFrame DEF AnsweredInv, TypeCall
<1>2. CASE LoopTask
  <2>1. lpc' \notin {"cbDec", "cbStore"}
    BY <1>2 DEF LoopTask, TaskRead, TaskLock, TaskPop, TaskSubmit
  <2> QED BY <1>2, <2>1, LoopTaskFrame DEF AnsweredInv
<1>3. ASSUME NEW g \in Conns, HandleWrite(g) PROVE AnsweredInv'
  BY <1>3 DEF HandleWrite, Close, AnsweredInv
<1>4. ASSUME NEW g \in Conns, HandleRead(g) PROVE AnsweredInv'
  <2>1. UNCHANGED <<executed, reply, got>> /\ lpc' \notin {"cbDec", "cbStore"}
    BY <1>4 DEF HandleRead, Close
  <2>2. CASE UNCHANGED <<rx, rbuf>>
    BY <2>1, <2>2 DEF AnsweredInv
  <2>3. ASSUME NEW k \in 1..Len(rx), rbuf' = rbuf \o SubSeq(rx, 1, k),
               rx' = SubSeq(rx, k + 1, Len(rx))
        PROVE  AnsweredInv'
    <3>0. k \in 0..Len(rx) /\ rx \in Seq(Callers) /\ rbuf \in Seq(Callers)
      BY <1>0, <2>3, LenProperties DEF TypeQueues
    <3>1. PICK in : in = SubSeq(rx, 1, k)
      OBVIOUS
    <3>2. Shares(rx, in, rx') /\ in \in Seq(Callers)
      <4>1. SubSeq(rx, 1, k) \in Seq(Callers)
        BY <3>0, CutsAll
      <4>2. Shares(rx, SubSeq(rx, 1, k), SubSeq(rx, k + 1, Len(rx)))
        BY <3>0, CutMembers
      <4> QED BY <2>3, <3>1, <4>1, <4>2, Zenon
    <3>3. \A x : Contains(rbuf', x) <=> Contains(rbuf, x) \/ Contains(in, x)
      <4>1. \A x : Contains(rbuf \o in, x)
                      <=> Contains(rbuf, x) \/ Contains(in, x)
        BY <3>0, <3>2, ConcatMembers
      <4>2. rbuf' = rbuf \o in
        BY <2>3, <3>1, Zenon
      <4> QED BY <4>1, <4>2, Zenon
    <3> QED BY <2>1, <3>2, <3>3 DEF AnsweredInv, Shares
  <2> QED BY <1>4, <2>2, <2>3 DEF HandleRead
<1>5. CASE Process
  <2>1. UNCHANGED <<executed, reply, got, rx>>
    BY <1>5 DEF Process
  <2>2. CASE UNCHANGED rbuf /\ lpc' \notin {"cbDec", "cbStore"}
    BY <2>1, <2>2 DEF AnsweredInv
  <2>3. CASE rbuf # <<>> /\ rbuf' = Tail(rbuf) /\ curReply' = Head(rbuf)
    <3>1. /\ Contains(rbuf, Head(rbuf)) /\ Head(rbuf) \in Callers
          /\ \A x : Contains(Tail(rbuf), x) => Contains(rbuf, x)
      BY <1>0, <2>3, TailSubset, HeadTailProperties DEF TypeQueues
    <3> QED BY <2>1, <2>3, <3>1 DEF AnsweredInv
  <2> QED BY <1>5, <2>2, <2>3 DEF Process
<1>6. CASE CbDec \/ CbPost
  BY <1>6 DEF CbDec, CbPost, AfterCallback, AnsweredInv
<1>7. CASE CbStore
  <2>1. UNCHANGED <<executed, got, rx, rbuf, curReply, cur>> /\ cur \in Callers
        /\ lpc = "cbStore"
    BY <1>0, <1>7 DEF CbStore, LoopInv
  <2>2. CASE reply' = reply
    BY <1>7, <2>1, <2>2 DEF CbStore, AnsweredInv
  <2>3. CASE reply' = [reply EXCEPT ![cur] = curReply] /\ lpc' = "cbPost"
    <3>1. curReply = cur => Contains(executed, cur)
      BY <2>1, ConstantsOK DEF AnsweredInv
    <3> QED BY <1>0, <2>1, <2>3, <3>1 DEF AnsweredInv, TypeInfo
  <2> QED BY <1>7, <2>2, <2>3 DEF CbStore
<1>8. CASE FreeReplies \/ DiscPop \/ DiscDec \/ ReconnAdd
  BY <1>8 DEF FreeReplies, DiscPop, DiscDec, ReconnAdd, AnsweredInv
<1>9. CASE FreeAc
  BY <1>9, EmptyMembers DEF FreeAc, AnsweredInv
<1>10. CASE LoopConnect
  BY <1>10, LoopConnectFrame DEF AnsweredInv
<1>11. CASE Reconnect
  BY <1>11, ReconnectFrame DEF AnsweredInv
<1>12. CASE Execute
  <2>1. Head(tx) \in Callers
    BY <1>0, <1>12, HeadTailProperties DEF Execute, TypeQueues
  <2>2. /\ \A x : Contains(executed', x) <=> Contains(executed, x) \/ x = Head(tx)
        /\ \A x : Contains(rx', x) <=> Contains(rx, x) \/ x = Head(tx)
    BY <1>0, <1>12, <2>1, AppendMembers DEF Execute, TypeQueues
  <2>3. UNCHANGED <<rbuf, reply, got, lpc, curReply>>
    BY <1>12 DEF Execute
  <2> QED BY <2>2, <2>3 DEF AnsweredInv
<1>13. ASSUME NEW g \in Conns, ConnLost(g) PROVE AnsweredInv'
  <2>1. UNCHANGED <<executed, rbuf, reply, got, lpc, curReply>>
    BY <1>13 DEF ConnLost
  <2>2. PICK k \in 0..Len(rx) : rx' = SubSeq(rx, 1, k)
    BY <1>13 DEF ConnLost
  <2>3. Shares(rx, SubSeq(rx, 1, k), SubSeq(rx, k + 1, Len(rx)))
    BY <1>0, CutMembers DEF TypeQueues
  <2>4. \A x : Contains(rx', x) => Contains(rx, x)
    BY <2>2, <2>3, Zenon DEF Shares
  <2> QED BY <2>1, <2>4 DEF AnsweredInv
<1>14. CASE UNCHANGED vars
  BY <1>14 DEF vars, AnsweredInv
<1> QED BY <1>1, <1>2, <1>3, <1>4, <1>5, <1>6, <1>7, <1>8, <1>9, <1>10, <1>11,
           <1>12, <1>13, <1>14, StepCases
        DEF LoopSocket, LoopFree, Network

------------------------------------------------------------------------------
(* The theorems *)

\* A connection just opened has empty queues and no call.
LEMMA InitPipe == Init => PipeInv
<1> SUFFICES ASSUME Init PROVE PipeInv
  OBVIOUS
<1>1. SchedInv /\ OriginInv /\ WriteInv
  BY DEF Init, SchedInv, OriginInv, WriteInv
<1>2. LinkInv
  BY ConstantsOK DEF Init, LinkInv, Conns
<1>3. AlignInv
  <2>1. <<>> \in Seq(Callers) /\ <<>> \o <<>> = <<>>
    BY EmptySeq, ConcatEmptySeq
  <2>2. AlignedWith(<<>>)
    BY <2>1 DEF Init, AlignedWith
  <2> QED BY <2>1, <2>2 DEF AlignInv
<1>4. ReplyInv
  BY DEF Init, ReplyInv, OwnReply
<1>5. CoverInv
  <2>1. Notifying = {}
    BY DEF Init, Notifying
  <2> QED BY <2>1, EmptySeq, FS_EmptySet DEF Init, CoverInv, Covered
<1>6. OnceInv /\ CallInv
  BY EmptyMembers DEF Init, OnceInv, CallInv, Sent, ToSend
<1>7. AnsweredInv
  BY EmptyMembers, ConstantsOK DEF Init, AnsweredInv
<1> QED BY <1>1, <1>2, <1>3, <1>4, <1>5, <1>6, <1>7 DEF PipeInv

\* Every step keeps the invariant of the pipeline, unless it is the late
\* connect of an attempt given up.
LEMMA NextPipe == IndInv /\ PipeInv /\ [Next]_vars /\ ~late' => PipeInv'
  BY SchedStep, LinkStep, AlignStep, ReplyStep, OriginStep, WriteStep,
     CoverStep, OnceStep, CallStep, AnsweredStep DEF PipeInv

\* The invariant of the pipeline holds for any number of callers and
\* reconnections and any size of the pipe until a given-up attempt connects.
THEOREM PipelineInductive == Spec => [](late \/ (IndInv /\ PipeInv))
<1>1. Init => late \/ (IndInv /\ PipeInv) BY InitInd, InitPipe
<1>2. (late \/ (IndInv /\ PipeInv)) /\ [Next]_vars
         => (late \/ (IndInv /\ PipeInv))'
  BY NextInd, NextPipe, LateStays
<1> QED BY <1>1, <1>2, PTL DEF Spec

\* disconnectedCallback and the reconnect thread agree: between their rounds a
\* connection that is down is on reconn_list, also after a given-up attempt
\* connected; and until one does, none that is up is.
THEOREM PipelineScheduled == Spec => []DownIffScheduled
<1>1. Init => SchedInv
  BY DEF Init, SchedInv
<1>2. (late \/ (IndInv /\ PipeInv)) /\ SchedInv => DownIffScheduled
  <2> SUFFICES ASSUME late \/ IndInv, SchedInv, lpc = "poll", rpc = "idle"
               PROVE  /\ status # "CONNECTED" => inReconn
                      /\ inReconn => status # "CONNECTED" \/ late
    BY DEF DownIffScheduled
  <2>1. inReconn => status # "CONNECTED" \/ late
    BY DEF IndInv, ConnInv
  <2>2. status # "CONNECTED" => inReconn
    BY DEF SchedInv
  <2> QED BY <2>1, <2>2, Zenon
<1>3. SchedInv /\ [Next]_vars => SchedInv'
  BY SchedStep
<1> QED BY <1>1, <1>2, <1>3, PipelineInductive, PTL DEF Spec

\* The callbacks pending are those of the replies received, the replies and
\* commands on the wire and the unsent commands, in that order: matching
\* replies to callbacks by position alone is sound, until a given-up attempt
\* connects.
THEOREM PipelineOrder == Spec => [](late \/ PipelineAligned)
<1>1. IndInv /\ PipeInv => PipelineAligned
  <2> SUFFICES ASSUME IndInv, PipeInv, link[gen] = "connected"
               PROVE  IF net = "up" THEN replies = rbuf \o rx \o tx \o obuf
                                    ELSE IsPrefix(rbuf \o rx, replies)
    BY DEF PipelineAligned
  <2>2. PICK rest \in Seq(Callers) : AlignedWith(rest)
    BY DEF PipeInv, AlignInv
  <2>3. /\ rbuf \o rx \in Seq(Callers) /\ tx \in Seq(Callers)
        /\ obuf \in Seq(Callers)
    BY ConcatProperties DEF IndInv, TypeOK, TypeQueues
  <2>4. CASE net = "up"
    <3>1. Regroups(rbuf \o rx, tx, obuf)
      BY <2>3, RegroupsAll
    <3> QED BY <2>2, <2>4, <3>1 DEF AlignedWith, Regroups
  <2>5. CASE net # "up"
    <3>1. IsPrefix(rbuf \o rx, (rbuf \o rx) \o rest)
      BY <2>3, ConcatPrefix
    <3> QED BY <2>2, <2>5, <3>1, Zenon DEF AlignedWith
  <2> QED BY <2>4, <2>5
<1> QED BY <1>1, PipelineInductive, PTL

\* No caller gets the reply to another caller's command, until a given-up
\* attempt connects.
THEOREM PipelineOwnReply == Spec => [](late \/ OwnReply)
<1>1. IndInv /\ PipeInv => OwnReply
  BY DEF PipeInv, ReplyInv
<1> QED BY <1>1, PipelineInductive, PTL

\* Undefined behaviour has the causes stated, until a given-up attempt connects;
\* in particular the assertion of redisProcessCallbacks never fails.
THEOREM PipelineUbOrigin == Spec => [](late \/ UndefinedBehaviourOrigin)
<1>1. IndInv /\ PipeInv => UndefinedBehaviourOrigin
  BY DEF IndInv, UbInv, PipeInv, OriginInv, UndefinedBehaviourOrigin
<1> QED BY <1>1, PipelineInductive, PTL

\* No command is left on cmd_list without a byte that brings taskDeal back to
\* it, and none in the output buffer without a write event, until a given-up
\* attempt connects.
THEOREM PipelineCovered == Spec => [](late \/ OutputCovered)
<1>1. IndInv /\ PipeInv => OutputCovered
  BY DEF PipeInv, CoverInv, WriteInv, Notifying, OutputCovered
<1> QED BY <1>1, PipelineInductive, PTL

------------------------------------------------------------------------------
(* The contract *)

\* What the contract sees of the callers.
Phases == [c \in Callers |-> CallPhase(c)]
Results == [c \in Callers |-> CallResult(c)]

\* A step of one caller changes what the contract sees of that caller only.
LEMMA OneCaller ==
    ASSUME IndInv, NEW c \in Callers, Caller(c)
    PROVE  /\ Phases' = [Phases EXCEPT ![c] = CallPhase(c)']
           /\ Results' = [Results EXCEPT ![c] = CallResult(c)']
           /\ executed' = executed
           /\ Phases[c] = CallPhase(c) /\ Results[c] = CallResult(c)
<1>0. TypeCall
  BY DEF IndInv, TypeOK
<1>1. \A d \in Callers \ {c} : /\ pc'[d] = pc[d] /\ myac'[d] = myac[d]
                               /\ got'[d] = got[d]
  <2>1. CASE Enqueue(c)
    BY <1>0, <2>1 DEF Enqueue, TypeCall
  <2>2. CASE Begin(c) \/ Notify(c) \/ Peek(c) \/ Wait(c) \/ Expire(c) \/ Take(c)
    BY <1>0, <2>2 DEF Begin, Notify, Peek, Wait, Expire, Take, TypeCall
  <2>3. CASE Drop(c) \/ Search(c) \/ Unlink(c) \/ ListRace(c) \/ CheckStatus(c)
    BY <1>0, <2>3 DEF Drop, Search, Unlink, ListRace, CheckStatus, TypeCall
  <2> QED BY <2>1, <2>2, <2>3, UseFreedStep DEF Caller
<1>2. \A d \in Callers \ {c} : /\ CallPhase(d)' = CallPhase(d)
                               /\ CallResult(d)' = CallResult(d)
  BY <1>1 DEF CallPhase, CallResult
<1>3. executed' = executed
  BY CallerFrame
<1> QED BY <1>2, <1>3 DEF Phases, Results

\* A call that goes on without beginning or returning is invisible.
LEMMA CallerStutters ==
    ASSUME IndInv, NEW c \in Callers, Caller(c),
           CallPhase(c)' = CallPhase(c), CallResult(c)' = CallResult(c)
    PROVE  UNCHANGED <<Phases, Results, executed>>
  BY OneCaller DEF Phases, Results

\* Each step of a caller begins, rejects or returns its call, or is invisible.
LEMMA CallerContract ==
    ASSUME IndInv, PipeInv, NEW c \in Callers, Caller(c)
    PROVE  \/ Contract!Invoke(c) \/ Contract!Reject(c) \/ Contract!Return(c)
           \/ UNCHANGED <<Phases, Results, executed>>
<1>0. TypeCall /\ CallInv /\ AnsweredInv /\ OwnReply
  BY DEF IndInv, TypeOK, PipeInv, ReplyInv
<1>a. /\ Phases' = [Phases EXCEPT ![c] = CallPhase(c)']
      /\ Results' = [Results EXCEPT ![c] = CallResult(c)']
      /\ executed' = executed
      /\ Phases[c] = CallPhase(c) /\ Results[c] = CallResult(c)
      /\ Results = [Results EXCEPT ![c] = CallResult(c)]
  BY OneCaller DEF Results
<1>b. pc[c] \in {"idle", "enqueue"} => ~Contains(executed, c) /\ got[c] = NULL
  BY <1>0 DEF CallInv, Sent
<1>1. CASE Begin(c)
  <2>1. CASE pc' = [pc EXCEPT ![c] = "done"]
    <3>1. /\ CallPhase(c) = "idle" /\ CallPhase(c)' = "rejected"
          /\ CallResult(c)' = CallResult(c)
      BY <1>0, <1>1, <1>b, <2>1
         DEF Begin, CallPhase, CallResult, CallInv, TypeCall
    <3>2. Contract!Reject(c)
      BY <1>1, <1>a, <1>b, <3>1 DEF Contract!Reject, Phases, Results,
         Contract!Contains, Contains, Begin
    <3> QED BY <3>2
  <2>2. CASE pc' = [pc EXCEPT ![c] = "enqueue"]
    <3>1. /\ CallPhase(c) = "idle" /\ CallPhase(c)' = "called"
          /\ CallResult(c)' = CallResult(c)
      BY <1>0, <1>1, <2>2 DEF Begin, CallPhase, CallResult, TypeCall
    <3>2. Contract!Invoke(c)
      BY <1>a, <3>1 DEF Contract!Invoke, Phases, Results
    <3> QED BY <3>2
  <2> QED BY <1>1, <2>1, <2>2 DEF Begin
<1>2. CASE Enqueue(c)
  <2>1. CASE pc' = [pc EXCEPT ![c] = "done"] /\ UNCHANGED <<myac, got>>
    <3>1. /\ CallPhase(c) = "called" /\ CallPhase(c)' = "rejected"
          /\ CallResult(c)' = CallResult(c)
      BY <1>0, <1>2, <1>b, <2>1
         DEF Enqueue, CallPhase, CallResult, CallInv, TypeCall
    <3>2. Contract!Reject(c)
      BY <1>2, <1>a, <1>b, <3>1 DEF Contract!Reject, Phases, Results,
         Contract!Contains, Contains, Enqueue
    <3> QED BY <3>2
  <2>2. CASE pc' = [pc EXCEPT ![c] = "notify"]
    <3>1. CallPhase(c)' = CallPhase(c) /\ CallResult(c)' = CallResult(c)
      BY <1>0, <1>2, <2>2 DEF Enqueue, CallPhase, CallResult, TypeCall
    <3> QED BY <3>1, CallerStutters
  <2> QED BY <1>2, <2>1, <2>2, UpAllocated DEF Enqueue
<1>3. CASE Notify(c) \/ Peek(c) \/ Wait(c) \/ Expire(c) \/ Take(c)
  <2>1. CallPhase(c)' = CallPhase(c) /\ CallResult(c)' = CallResult(c)
    BY <1>0, <1>3 DEF Notify, Peek, Wait, Expire, Take, CallPhase, CallResult,
       TypeCall
  <2> QED BY <2>1, CallerStutters
<1>4. CASE Search(c) \/ Unlink(c) \/ ListRace(c)
  <2>1. CallPhase(c)' = CallPhase(c) /\ CallResult(c)' = CallResult(c)
    BY <1>0, <1>4 DEF Search, Unlink, ListRace, CallPhase, CallResult, TypeCall
  <2> QED BY <2>1, CallerStutters
<1>5. CASE Drop(c) \/ CheckStatus(c)
  <2>1. \/ pc' = pc
        \/ pc' = [pc EXCEPT ![c] = "search"]
        \/ pc' = [pc EXCEPT ![c] = "done"]
    BY <1>5 DEF Drop, CheckStatus
  <2>2. UNCHANGED <<myac, got>> /\ pc[c] \in {"drop", "status"} /\ myac[c] # 0
    BY <1>0, <1>5 DEF Drop, CheckStatus, CallInv
  <2>3. CASE pc' = pc \/ pc' = [pc EXCEPT ![c] = "search"]
    <3>1. CallPhase(c)' = CallPhase(c) /\ CallResult(c)' = CallResult(c)
      BY <1>0, <2>2, <2>3 DEF CallPhase, CallResult, TypeCall
    <3> QED BY <3>1, CallerStutters
  <2>4. CASE pc' = [pc EXCEPT ![c] = "done"]
    <3>1. /\ CallPhase(c) = "called" /\ CallPhase(c)' = "returned"
          /\ CallResult(c) = NULL /\ CallResult(c)' = got[c]
      BY <1>0, <2>2, <2>4 DEF CallPhase, CallResult, TypeCall
    <3>2. got[c] = NULL \/ (got[c] = c /\ Contains(executed, c))
      BY <1>0 DEF OwnReply, AnsweredInv
    <3>3. Contract!Return(c)
      BY <1>a, <3>1, <3>2 DEF Contract!Return, Contract!Contains, Contains,
         Phases, Results
    <3> QED BY <3>3
  <2> QED BY <2>1, <2>3, <2>4
<1> QED BY <1>1, <1>2, <1>3, <1>4, <1>5, UseFreedStep DEF Caller

\* The server executes a command whose call is under way or has returned, and
\* that it has not executed before.
LEMMA ExecuteContract ==
    ASSUME IndInv, PipeInv, Execute
    PROVE  Head(tx) \in Callers /\ Contract!Execute(Head(tx))
<1>0. TypeCall /\ TypeQueues /\ OnceInv /\ CallInv
  BY DEF IndInv, TypeOK, PipeInv
<1>1. Head(tx) \in Callers /\ Contains(tx, Head(tx))
  BY <1>0, TailSubset, HeadTailProperties DEF Execute, TypeQueues
<1>2. myac[Head(tx)] # 0 /\ ~Contains(executed, Head(tx))
  BY <1>0, <1>1 DEF OnceInv, CallInv, Sent
<1>3. CallPhase(Head(tx)) \in {"called", "returned"}
  BY <1>0, <1>1, <1>2 DEF CallPhase, CallInv
<1>4. Phases' = Phases /\ Results' = Results
  BY DEF Execute, Phases, Results, CallPhase, CallResult
<1>5. executed' = Append(executed, Head(tx))
  BY DEF Execute
<1> QED BY <1>1, <1>2, <1>3, <1>4, <1>5 DEF Contract!Execute,
        Contract!Contains, Contains, Phases, Results

\* Every step of the connection is a step of the contract or invisible to it.
LEMMA StepContract ==
    IndInv /\ PipeInv /\ [Next]_vars /\ ~late'
        => [Contract!Next]_<<Phases, Results, executed>>
<1> SUFFICES ASSUME IndInv, PipeInv, [Next]_vars, ~late'
             PROVE  [Contract!Next]_<<Phases, Results, executed>>
  OBVIOUS
<1>1. ASSUME NEW c \in Callers, Caller(c)
      PROVE  [Contract!Next]_<<Phases, Results, executed>>
  BY <1>1, CallerContract DEF Contract!Next
<1>2. CASE Execute
  BY <1>2, ExecuteContract DEF Contract!Next
<1>3. CASE \/ LoopTask \/ LoopSocket \/ LoopFree \/ LoopConnect \/ Reconnect
           \/ (\E g \in Conns : ConnLost(g)) \/ UNCHANGED vars
  <2>1. UNCHANGED <<pc, myac, got, executed>>
    BY <1>3, LoopTaskFrame, LoopSocketFrame, LoopFreeFrame, LoopConnectFrame,
       ReconnectFrame DEF ConnLost, vars
  <2> QED BY <2>1 DEF Phases, Results, CallPhase, CallResult
<1> QED BY <1>1, <1>2, <1>3, StepCases DEF Network

\* The executions in which no attempt that was given up connects.
OnTime == Init /\ [][Next /\ ~late']_vars

\* As long as no given-up attempt connects, a multiplexed connection implements
\* the contract of a request and its reply: a command is executed at most once
\* and after its call began, never if the call was rejected, and what a call
\* returns is NULL or its own reply.
THEOREM PipelineContract == OnTime => RefinesContract
<1>1. Init => Contract!Init
  BY DEF Init, Contract!Init, CallPhase, CallResult
<1> DEFINE Before == IndInv /\ PipeInv /\ ~late
<1>2. Init => Before
  BY InitInd, InitPipe DEF Init
<1>3. ASSUME Before, [Next /\ ~late']_vars PROVE ~late' /\ [Next]_vars
  BY <1>3 DEF vars
<1>4. Before /\ [Next /\ ~late']_vars => Before'
  <2> SUFFICES ASSUME Before, [Next /\ ~late']_vars PROVE Before'
    OBVIOUS
  <2> QED BY <1>3, NextInd, NextPipe
<1>5. Before /\ [Next /\ ~late']_vars => [Contract!Next]_(Contract!vars)
  <2> SUFFICES ASSUME Before, [Next /\ ~late']_vars
               PROVE  [Contract!Next]_(Contract!vars)
    OBVIOUS
  <2> QED BY <1>3, StepContract DEF Contract!vars, Phases, Results
<1> HIDE DEF Before
<1> QED BY <1>1, <1>2, <1>4, <1>5, PTL DEF OnTime, RefinesContract, Contract!Spec
==============================================================================
