----------------------------- MODULE SdsProofs -----------------------------
(***************************************************************************)
(* Proofs about Sds: after any sequence of calls the header describes the  *)
(* memory and the memory holds the text, for every length, every alphabet  *)
(* and every limit of the header types, up to a call that computes with an *)
(* int on a longer string.                                                 *)
(***************************************************************************)
EXTENDS Sds, SequenceTheorems, TLAPS

Byte == Chars \cup {NUL, Junk}

Headers == [type : Types, len : Nat, alloc : Nat, room : Nat,
            mem : UNION {[0..r -> Byte] : r \in Nat}]

\* The header describes the memory.
Good(h) ==
    /\ h \in Headers /\ h.mem \in [0..h.room -> Byte]
    /\ h.len <= h.room /\ Fits(h.type, h.len)
    /\ h.type # 0 => h.alloc = h.room /\ Fits(h.type, h.room)

\* The string holds t.
Holds(h, t) ==
    /\ t \in Seq(Byte) /\ h.len = Len(t)
    /\ \A i \in 1..Len(t) : h.mem[i - 1] = t[i]

Terminated(h) == h.mem[h.len] = NUL

\* h and g differ in their memory and length only.
SameShape(g, h) == g.type = h.type /\ g.alloc = h.alloc /\ g.room = h.room

-----------------------------------------------------------------------------
(* The types and what their fields hold *)

\* The types hold ever greater lengths.
LEMMA LimitFacts ==
    /\ \A i \in 1..4 : Limit[i] \in Nat /\ Limit[i] > 0
    /\ Limit[1] < Limit[2] /\ Limit[2] < Limit[3] /\ Limit[3] < Limit[4]
BY LimitAssumption

\* The type chosen for n bytes has room for n in its fields.
LEMMA ReqTypeFits ==
    ASSUME NEW n \in Nat
    PROVE  /\ sdsReqType(n) \in Types /\ Fits(sdsReqType(n), n)
           /\ TypeFor(n) \in Types /\ TypeFor(n) # 0 /\ Fits(TypeFor(n), n)
BY LimitFacts DEF sdsReqType, Types, Fits, TypeFor

\* What fits a type, a smaller length fits as well.
LEMMA FitsLess ==
    ASSUME NEW t \in Types, NEW n \in Nat, NEW m \in Nat, Fits(t, n), m <= n
    PROVE  Fits(t, m)
BY LimitFacts DEF Fits, Types

\* A field keeps a value that fits its type.
LEMMA StoredFits ==
    ASSUME NEW t, NEW n, Fits(t, n)
    PROVE  Stored(t, n) = n
BY DEF Stored

\* Preallocation never makes less room than was asked for.
LEMMA GrownRoom ==
    ASSUME NEW n \in Nat
    PROVE  Grown(n) \in Nat /\ Grown(n) >= n
BY PreallocAssumption DEF Grown

-----------------------------------------------------------------------------
(* Memory *)

\* A function on 1..n is a sequence of length n.
LEMMA FunctionSeq ==
    ASSUME NEW n \in Nat, NEW S, NEW f \in [1..n -> S]
    PROVE  f \in Seq(S) /\ Len(f) = n
<1>1. f \in Seq(S)
  BY SeqDef
<1>2. DOMAIN f = 1..n /\ DOMAIN f = 1..Len(f) /\ Len(f) \in Nat
  BY <1>1, LenProperties
<1> QED BY <1>1, <1>2

\* Write changes the bytes it covers and nothing else.
LEMMA WriteFacts ==
    ASSUME NEW h, Good(h), NEW at \in Nat, NEW t \in Seq(Byte)
    PROVE  /\ Good(Write(h, at, t)) /\ SameShape(Write(h, at, t), h)
           /\ Write(h, at, t).len = h.len
           /\ \A i \in 0..h.room : Write(h, at, t).mem[i] =
                IF at <= i /\ i < at + Len(t) THEN t[i - at + 1] ELSE h.mem[i]
<1> DEFINE m == [i \in 0..h.room |->
                   IF at <= i /\ i < at + Len(t) THEN t[i - at + 1] ELSE h.mem[i]]
<1>1. DOMAIN h.mem = 0..h.room /\ h.room \in Nat
  BY DEF Good, Headers
<1>2. Write(h, at, t) = [h EXCEPT !.mem = m]
  BY <1>1 DEF Write
<1>3. m \in [0..h.room -> Byte]
  <2>1. ASSUME NEW i \in 0..h.room, at <= i, i < at + Len(t)
        PROVE  t[i - at + 1] \in Byte
    <3>1. i - at + 1 \in 1..Len(t)
      BY <2>1, <1>1, LenProperties
    <3> QED BY <3>1, ElementOfSeq
  <2>2. \A i \in 0..h.room : h.mem[i] \in Byte
    BY DEF Good
  <2> QED BY <2>1, <2>2
<1>4. \A i \in 0..h.room : m[i] =
        IF at <= i /\ i < at + Len(t) THEN t[i - at + 1] ELSE h.mem[i]
  OBVIOUS
<1> HIDE DEF m
<1>5. /\ [h EXCEPT !.mem = m] \in Headers /\ [h EXCEPT !.mem = m].mem = m
      /\ SameShape([h EXCEPT !.mem = m], h) /\ [h EXCEPT !.mem = m].len = h.len
  BY <1>1, <1>3 DEF Good, Headers, SameShape
<1> QED BY <1>2, <1>3, <1>4, <1>5 DEF Good, SameShape

\* Writing the zero byte changes the byte after the text only.
LEMMA TerminateFacts ==
    ASSUME NEW h, Good(h), NEW at \in 0..h.room
    PROVE  /\ Good(Terminate(h, at)) /\ SameShape(Terminate(h, at), h)
           /\ Terminate(h, at).len = h.len /\ Terminate(h, at).mem[at] = NUL
           /\ \A i \in 0..h.room : i # at => Terminate(h, at).mem[i] = h.mem[i]
<1>1. h.room \in Nat /\ at \in Nat
  BY DEF Good, Headers
<1>2. <<NUL>> \in Seq(Byte) /\ Len(<<NUL>>) = 1 /\ <<NUL>>[1] = NUL
  BY DEF Byte
<1> DEFINE w == Write(h, at, <<NUL>>)
<1>3. /\ Good(w) /\ SameShape(w, h) /\ w.len = h.len
      /\ \A i \in 0..h.room : w.mem[i] =
           IF at <= i /\ i < at + 1 THEN <<NUL>>[i - at + 1] ELSE h.mem[i]
  BY <1>1, <1>2, WriteFacts
<1>4. Terminate(h, at) = w
  BY DEF Terminate
<1> HIDE DEF w
<1>5. w.mem[at] = NUL
  BY <1>1, <1>2, <1>3
<1>6. \A i \in 0..h.room : i # at => w.mem[i] = h.mem[i]
  BY <1>1, <1>3
<1> QED BY <1>3, <1>4, <1>5, <1>6

\* sdssetlen within the room changes the length only.
LEMMA SetLenFacts ==
    ASSUME NEW h, Good(h), NEW n \in 0..h.room, Fits(h.type, n)
    PROVE  /\ Good(sdssetlen(h, n)) /\ SameShape(sdssetlen(h, n), h)
           /\ sdssetlen(h, n).len = n /\ sdssetlen(h, n).mem = h.mem
<1>1. sdssetlen(h, n) = [h EXCEPT !.len = n]
  BY StoredFits DEF sdssetlen
<1>2. h.room \in Nat /\ n \in Nat
  BY DEF Good, Headers
<1> QED BY <1>1, <1>2 DEF Good, Headers, SameShape

\* A reallocation keeps the bytes that are in the old and the new memory.
LEMMA ResizedFacts ==
    ASSUME NEW h, Good(h), NEW type \in Types, NEW room \in Nat,
           h.len <= room, Fits(type, room)
    PROVE  /\ Good(Resized(h, type, room))
           /\ Resized(h, type, room).type = type /\ Resized(h, type, room).room = room
           /\ Resized(h, type, room).len = h.len
           /\ \A i \in 0..h.len : Resized(h, type, room).mem[i] = h.mem[i]
<1> DEFINE m == [i \in 0..room |-> IF i \in DOMAIN h.mem THEN h.mem[i] ELSE Junk]
<1> DEFINE a == IF type = 0 THEN 0 ELSE room
<1>1. DOMAIN h.mem = 0..h.room /\ h.room \in Nat /\ h.len \in Nat /\ h.len <= h.room
  BY DEF Good, Headers
<1>2. Fits(type, h.len) /\ Stored(type, h.len) = h.len /\ Stored(type, room) = room
  BY <1>1, FitsLess, StoredFits
<1>3. m \in [0..room -> Byte]
  BY <1>1 DEF Good, Byte
<1>4. \A i \in 0..h.len : m[i] = h.mem[i]
  BY <1>1
<1>5. Resized(h, type, room) =
        [type |-> type, len |-> h.len, alloc |-> a, room |-> room, mem |-> m]
  <2> HIDE DEF m
  <2>1. Resized(h, type, room) =
          sdssetalloc([type |-> type, len |-> h.len, alloc |-> 0, room |-> room,
                       mem |-> m], room)
    BY <1>2 DEF Resized, m
  <2> QED BY <2>1, <1>2 DEF sdssetalloc
<1>6. a \in Nat /\ (type # 0 => a = room)
  OBVIOUS
<1> HIDE DEF m, a
<1> QED BY <1>1, <1>2, <1>3, <1>4, <1>5, <1>6, SMTT(60) DEF Good, Headers

\* sdsMakeRoomFor keeps the string and makes room for n bytes more.
LEMMA MakeRoomFacts ==
    ASSUME NEW h, Good(h), NEW n \in Int, h.len + n >= 0
    PROVE  /\ Good(sdsMakeRoomFor(h, n)) /\ sdsMakeRoomFor(h, n).len = h.len
           /\ sdsMakeRoomFor(h, n).room >= h.len + n
           /\ Fits(sdsMakeRoomFor(h, n).type, h.len + n)
           /\ \A i \in 0..h.len : sdsMakeRoomFor(h, n).mem[i] = h.mem[i]
<1>1. h.len \in Nat /\ h.room \in Nat /\ h.alloc \in Nat /\ h.type \in Types /\ h.len <= h.room
  BY DEF Good, Headers
<1>2. CASE sdsavail(h) >= n
  <2>1. sdsMakeRoomFor(h, n) = h
    BY <1>2 DEF sdsMakeRoomFor
  <2>2. CASE h.type = 0
    <3>1. h.len + n <= h.len /\ h.len + n \in Nat
      BY <1>1, <1>2, <2>2 DEF sdsavail, sdsalloc
    <3> QED BY <1>1, <2>1, <3>1, FitsLess DEF Good
  <2>3. CASE h.type # 0
    <3>1. h.len + n <= h.room /\ h.len + n \in Nat
      BY <1>1, <1>2, <2>3 DEF sdsavail, sdsalloc, Good
    <3> QED BY <1>1, <2>1, <2>3, <3>1, FitsLess DEF Good
  <2> QED BY <2>2, <2>3
<1>3. CASE ~(sdsavail(h) >= n)
  <2> DEFINE g == Grown(h.len + n)
  <2>1. sdsMakeRoomFor(h, n) = Resized(h, TypeFor(g), g)
    BY <1>3 DEF sdsMakeRoomFor
  <2>2. sdsavail(h) \in Nat
    BY <1>1 DEF sdsavail, sdsalloc, Good
  <2>3. h.len + n \in Nat /\ h.len <= h.len + n
    BY <1>1, <1>3, <2>2
  <2>4. g \in Nat /\ g >= h.len + n
    BY <2>3, GrownRoom
  <2> HIDE DEF g
  <2>5. TypeFor(g) \in Types /\ Fits(TypeFor(g), g)
    BY <2>4, ReqTypeFits
  <2>6. Fits(TypeFor(g), h.len + n) /\ h.len <= g
    BY <1>1, <2>3, <2>4, <2>5, FitsLess
  <2> QED BY <2>1, <2>4, <2>5, <2>6, ResizedFacts
<1> QED BY <1>2, <1>3
-----------------------------------------------------------------------------
(* The operations keep the header and yield the string a caller expects *)

\* A string with its header and its zero byte in order.
Intact(h, t) == Good(h) /\ Holds(h, t) /\ Terminated(h)

\* Bytes put behind the string, or over it, and the length set.
LEMMA PutFacts ==
    ASSUME NEW h, Good(h), NEW at \in Nat, NEW t \in Seq(Byte),
           at + Len(t) <= h.room, Fits(h.type, at + Len(t))
    PROVE  LET w == sdssetlen(Write(h, at, t), at + Len(t)) IN
           /\ Good(w) /\ SameShape(w, h) /\ w.len = at + Len(t)
           /\ \A i \in 0..h.room : w.mem[i] =
                IF at <= i /\ i < at + Len(t) THEN t[i - at + 1] ELSE h.mem[i]
<1> DEFINE v == Write(h, at, t)
<1>1. /\ Good(v) /\ SameShape(v, h)
      /\ \A i \in 0..h.room : v.mem[i] =
           IF at <= i /\ i < at + Len(t) THEN t[i - at + 1] ELSE h.mem[i]
  BY WriteFacts
<1>2. h.room \in Nat /\ Len(t) \in Nat /\ at + Len(t) \in 0..h.room
  BY LenProperties DEF Good, Headers
<1> HIDE DEF v
<1>3. v.room = h.room /\ v.type = h.type
  BY <1>1 DEF SameShape
<1>4. LET w == sdssetlen(v, at + Len(t)) IN
      Good(w) /\ SameShape(w, v) /\ w.len = at + Len(t) /\ w.mem = v.mem
  BY <1>1, <1>2, <1>3, SetLenFacts
<1> QED BY <1>1, <1>4 DEF v, SameShape

\* What sdscatlen and one piece of sdscatfmt do.
LEMMA AppendFacts ==
    ASSUME NEW h, NEW b, NEW t, NEW u \in Seq(Byte),
           Holds(h, t), Good(h), Good(b), b.len = h.len,
           \A i \in 0..h.len : b.mem[i] = h.mem[i],
           h.len + Len(u) <= b.room, Fits(b.type, h.len + Len(u))
    PROVE  LET w == sdssetlen(Write(b, h.len, u), h.len + Len(u)) IN
           Good(w) /\ Holds(w, t \o u)
<1> DEFINE w == sdssetlen(Write(b, h.len, u), h.len + Len(u))
<1>1. h.len \in Nat /\ b.room \in Nat /\ h.len = Len(t) /\ t \in Seq(Byte) /\ Len(u) \in Nat
  BY LenProperties DEF Good, Headers, Holds
<1>2. /\ Good(w) /\ SameShape(w, b) /\ w.len = h.len + Len(u)
      /\ \A i \in 0..b.room : w.mem[i] =
           IF h.len <= i /\ i < h.len + Len(u) THEN u[i - h.len + 1] ELSE b.mem[i]
  BY <1>1, PutFacts
<1> HIDE DEF w
<1>3. /\ t \o u \in Seq(Byte) /\ Len(t \o u) = Len(t) + Len(u)
      /\ \A i \in 1..(Len(t) + Len(u)) :
           (t \o u)[i] = IF i <= Len(t) THEN t[i] ELSE u[i - Len(t)]
  BY <1>1, ConcatProperties
<1>4. ASSUME NEW i \in 1..Len(t \o u)
      PROVE  w.mem[i - 1] = (t \o u)[i]
  <2>1. i - 1 \in 0..b.room /\ i \in 1..(Len(t) + Len(u))
    BY <1>1, <1>3
  <2>2. CASE i <= Len(t)
    <3>1. w.mem[i - 1] = b.mem[i - 1]
      BY <1>1, <1>2, <2>1, <2>2
    <3>2. b.mem[i - 1] = h.mem[i - 1] /\ h.mem[i - 1] = t[i]
      BY <1>1, <2>1, <2>2 DEF Holds
    <3> QED BY <1>3, <2>1, <2>2, <3>1, <3>2
  <2>3. CASE i > Len(t)
    <3>0. h.len <= i - 1 /\ i - 1 < h.len + Len(u)
      BY <1>1, <2>1, <2>3
    <3>1. w.mem[i - 1] = u[i - 1 - h.len + 1]
      BY <1>2, <2>1, <3>0
    <3>2. i - 1 - h.len + 1 = i - Len(t)
      BY <1>1, <2>1
    <3> QED BY <1>1, <1>3, <2>1, <2>3, <3>1, <3>2
  <2> QED BY <1>1, <2>1, <2>2, <2>3
<1>5. Good(w) /\ Holds(w, t \o u)
  BY <1>1, <1>2, <1>3, <1>4 DEF Holds
<1> QED BY <1>5 DEF w

\* A zero byte behind the string.
LEMMA TerminateIntact ==
    ASSUME NEW h, NEW t, Good(h), Holds(h, t)
    PROVE  Intact(Terminate(h, h.len), t)
<1>1. h.len \in 0..h.room /\ h.len \in Nat /\ h.room \in Nat /\ h.len = Len(t)
  BY DEF Good, Headers, Holds
<1> DEFINE w == Terminate(h, h.len)
<1>2. /\ Good(w) /\ w.len = h.len /\ w.mem[h.len] = NUL
      /\ \A i \in 0..h.room : i # h.len => w.mem[i] = h.mem[i]
  BY <1>1, TerminateFacts
<1> HIDE DEF w
<1>3. ASSUME NEW i \in 1..Len(t) PROVE w.mem[i - 1] = t[i]
  <2>1. i - 1 \in 0..h.room /\ i - 1 # h.len
    BY <1>1
  <2> QED BY <1>2, <2>1 DEF Holds
<1>4. Intact(w, t)
  BY <1>2, <1>3 DEF Intact, Holds, Terminated
<1> QED BY <1>4 DEF w

\* sdscatlen makes room, writes the bytes after the text and a zero byte.
LEMMA CatKeeps ==
    ASSUME NEW h, NEW t, Intact(h, t), NEW u \in Seq(Byte)
    PROVE  Intact(sdscatlen(h, u), t \o u)
<1> DEFINE b == sdsMakeRoomFor(h, Len(u))
<1>1. h.len \in Nat /\ Len(u) \in Nat
  BY LenProperties DEF Intact, Good, Headers
<1>2. /\ Good(b) /\ b.len = h.len /\ b.room >= h.len + Len(u)
      /\ Fits(b.type, h.len + Len(u))
      /\ \A i \in 0..h.len : b.mem[i] = h.mem[i]
  BY <1>1, MakeRoomFacts DEF Intact
<1> HIDE DEF b
<1>3. b.room \in Nat /\ h.len + Len(u) <= b.room
  BY <1>1, <1>2 DEF Good, Headers
<1> DEFINE w == sdssetlen(Write(b, h.len, u), h.len + Len(u))
<1>4. Good(w) /\ Holds(w, t \o u)
  BY <1>1, <1>2, <1>3, AppendFacts DEF Intact
<1>5. w.len = h.len + Len(u)
  BY <1>1, <1>2, <1>3, PutFacts
<1>6. sdscatlen(h, u) = Terminate(w, w.len)
  BY <1>5 DEF sdscatlen, b
<1> HIDE DEF w
<1> QED BY <1>4, <1>6, TerminateIntact

\* The first n bytes from position k of a string.
LEMMA PartFacts ==
    ASSUME NEW t \in Seq(Byte), NEW k \in Nat, NEW n \in Nat, k + n <= Len(t)
    PROVE  /\ SubSeq(t, k + 1, k + n) \in Seq(Byte)
           /\ Len(SubSeq(t, k + 1, k + n)) = n
           /\ \A i \in 1..n : SubSeq(t, k + 1, k + n)[i] = t[k + i]
<1>1. \A i \in (k + 1)..(k + n) : t[i] \in Byte
  <2>1. \A i \in (k + 1)..(k + n) : i \in 1..Len(t)
    BY LenProperties
  <2> QED BY <2>1, ElementOfSeq
<1> QED BY <1>1, SubSeqProperties

\* A shorter length and the zero byte behind it.
LEMMA ShortenKeeps ==
    ASSUME NEW h, NEW t, Good(h), Holds(h, t), NEW n \in 0..h.len
    PROVE  Intact(Terminate(sdssetlen(h, n), n), SubSeq(t, 1, n))
<1>1. /\ h.len \in Nat /\ h.room \in Nat /\ h.len <= h.room /\ h.len = Len(t) /\ n \in Nat
      /\ t \in Seq(Byte)
  BY DEF Good, Headers, Holds
<1>2. Fits(h.type, n)
  BY <1>1, FitsLess DEF Good, Headers
<1> DEFINE v == sdssetlen(h, n)
<1>3. Good(v) /\ v.len = n /\ v.mem = h.mem
  BY <1>1, <1>2, SetLenFacts
<1> HIDE DEF v
<1>4. /\ SubSeq(t, 1, n) \in Seq(Byte) /\ Len(SubSeq(t, 1, n)) = n
      /\ \A i \in 1..n : SubSeq(t, 1, n)[i] = t[i]
  <2>1. 0 + n <= Len(t) /\ 0 + 1 = 1 /\ 0 + n = n /\ \A i \in 1..n : 0 + i = i
    BY <1>1
  <2> QED BY <1>1, <2>1, PartFacts
<1>5. Holds(v, SubSeq(t, 1, n))
  BY <1>1, <1>3, <1>4 DEF Holds
<1>6. Intact(Terminate(v, n), SubSeq(t, 1, n))
  BY <1>3, <1>5, TerminateIntact
<1> QED BY <1>6 DEF v

\* sdsclear leaves the empty text.
LEMMA ClearKeeps ==
    ASSUME NEW h, NEW t, Intact(h, t)
    PROVE  Intact(sdsclear(h), << >>)
<1>1. 0 \in 0..h.len /\ t \in Seq(Byte)
  BY DEF Intact, Good, Headers, Holds
<1>2. SubSeq(t, 1, 0) = << >>
  BY SubSeqEmpty
<1> QED BY <1>1, <1>2, ShortenKeeps DEF Intact, sdsclear

\* Fresh memory with t in it.
LEMMA NewKeeps ==
    ASSUME NEW t \in Seq(Byte)
    PROVE  Intact(sdsnewlen(t), t)
<1> DEFINE n == Len(t)
           type == IF n = 0 THEN 1 ELSE sdsReqType(n)
           f == Fresh(type, n)
<1>1. n \in Nat
  BY LenProperties
<1>2. type \in Types /\ Fits(type, n)
  <2>1. Fits(1, 0)
    BY LimitFacts DEF Fits
  <2> QED BY <1>1, <2>1, ReqTypeFits DEF Types
<1> HIDE DEF n, type
<1>3. [i \in 0..n |-> Junk] \in [0..n -> Byte]
  BY DEF Byte
<1>4. Good(f) /\ f.len = n /\ f.room = n
  BY <1>1, <1>2, <1>3 DEF Fresh, Good, Headers
<1> HIDE DEF f
<1> DEFINE w == Write(f, 0, t)
<1>5. /\ Good(w) /\ w.len = n
      /\ \A i \in 0..n : w.mem[i] = IF 0 <= i /\ i < 0 + Len(t) THEN t[i - 0 + 1] ELSE f.mem[i]
  BY <1>4, WriteFacts, SMTT(60)
<1> HIDE DEF w
<1>6. ASSUME NEW i \in 1..Len(t) PROVE w.mem[i - 1] = t[i]
  <2>1. i - 1 \in 0..n /\ 0 <= i - 1 /\ i - 1 < 0 + Len(t) /\ i - 1 - 0 + 1 = i
    BY <1>1 DEF n
  <2> QED BY <1>5, <2>1
<1>7. Holds(w, t)
  BY <1>5, <1>6 DEF Holds, n
<1>8. Intact(Terminate(w, n), t)
  BY <1>5, <1>7, TerminateIntact
<1> QED BY <1>8 DEF sdsnewlen, w, f, type, n

\* A string over the old one.
LEMMA CopyKeeps ==
    ASSUME NEW h, NEW old, Intact(h, old), NEW t \in Seq(Byte)
    PROVE  Intact(sdscpylen(h, t), t)
<1> DEFINE b == IF sdsalloc(h) < Len(t) THEN sdsMakeRoomFor(h, Len(t) - h.len) ELSE h
<1>1. /\ h.len \in Nat /\ h.room \in Nat /\ h.alloc \in Nat /\ h.type \in Types
      /\ h.len <= h.room /\ Good(h) /\ Len(t) \in Nat
  BY LenProperties DEF Intact, Good, Headers
<1>2. Good(b) /\ Len(t) <= b.room /\ Fits(b.type, Len(t))
  <2>1. CASE sdsalloc(h) < Len(t)
    <3>1. Len(t) - h.len \in Int /\ h.len + (Len(t) - h.len) = Len(t)
      BY <1>1
    <3>2. b = sdsMakeRoomFor(h, Len(t) - h.len)
      BY <2>1
    <3>3. Good(b) /\ b.room >= Len(t) /\ Fits(b.type, Len(t))
      BY <1>1, <3>1, <3>2, MakeRoomFacts
    <3> HIDE DEF b
    <3>4. b.room \in Nat
      BY <3>3 DEF Good, Headers
    <3> QED BY <1>1, <3>3, <3>4
  <2>2. CASE ~(sdsalloc(h) < Len(t))
    <3>1. b = h
      BY <2>2
    <3>2. Len(t) <= h.room /\ Fits(h.type, Len(t))
      <4>1. CASE h.type = 0
        <5>1. Len(t) <= h.len
          BY <1>1, <2>2, <4>1 DEF sdsalloc
        <5> QED BY <1>1, <5>1, FitsLess DEF Good
      <4>2. CASE h.type # 0
        <5>1. Len(t) <= h.room
          BY <1>1, <2>2, <4>2 DEF sdsalloc, Good
        <5> QED BY <1>1, <4>2, <5>1, FitsLess DEF Good
      <4> QED BY <4>1, <4>2
    <3> QED BY <1>1, <3>1, <3>2
  <2> QED BY <2>1, <2>2
<1> HIDE DEF b
<1> DEFINE v == Write(b, 0, t)
           w == Terminate(v, Len(t))
<1>3. b.room \in Nat /\ Len(t) \in 0..b.room
  BY <1>1, <1>2 DEF Good, Headers
<1>4. /\ Good(v) /\ SameShape(v, b)
      /\ \A i \in 0..b.room : v.mem[i] =
           IF 0 <= i /\ i < 0 + Len(t) THEN t[i - 0 + 1] ELSE b.mem[i]
  BY <1>2, WriteFacts
<1> HIDE DEF v
<1>5. v.room = b.room /\ v.type = b.type
  BY <1>4 DEF SameShape
<1>6. /\ Good(w) /\ SameShape(w, v) /\ w.mem[Len(t)] = NUL
      /\ \A i \in 0..v.room : i # Len(t) => w.mem[i] = v.mem[i]
  BY <1>3, <1>4, <1>5, TerminateFacts
<1> HIDE DEF w
<1>7. w.room = b.room /\ w.type = b.type
  BY <1>5, <1>6 DEF SameShape
<1> DEFINE x == sdssetlen(w, Len(t))
<1>8. Good(x) /\ x.len = Len(t) /\ x.mem = w.mem
  BY <1>2, <1>3, <1>6, <1>7, SetLenFacts
<1> HIDE DEF x
<1>9. ASSUME NEW i \in 1..Len(t) PROVE x.mem[i - 1] = t[i]
  <2>1. /\ i - 1 \in 0..b.room /\ i - 1 # Len(t)
        /\ 0 <= i - 1 /\ i - 1 < 0 + Len(t) /\ i - 1 - 0 + 1 = i
    BY <1>1, <1>3
  <2> QED BY <1>4, <1>5, <1>6, <1>8, <2>1
<1>10. Intact(x, t)
  BY <1>6, <1>8, <1>9 DEF Intact, Holds, Terminated
<1> QED BY <1>10 DEF sdscpylen, x, w, v, b

\* sdsMakeRoomFor keeps the text, whether or not the type changes.
LEMMA GrowKeeps ==
    ASSUME NEW h, NEW t, Intact(h, t), NEW n \in Nat
    PROVE  Intact(sdsgrowzero(h, n), IF n <= Len(t) THEN t ELSE t \o Zeros(n - Len(t)))
<1>1. h.len \in Nat /\ Good(h) /\ h.len = Len(t) /\ t \in Seq(Byte)
  BY DEF Intact, Good, Headers, Holds
<1>2. CASE n <= h.len
  BY <1>1, <1>2 DEF sdsgrowzero
<1>3. CASE n > h.len
  <2> DEFINE k == n - h.len
             b == sdsMakeRoomFor(h, k)
             z == Zeros(k + 1)
             v == Write(b, h.len, z)
             w == sdssetlen(v, n)
  <2>1. k \in Nat /\ k > 0 /\ h.len + k = n
    BY <1>1, <1>3
  <2>2. /\ Good(b) /\ b.len = h.len /\ b.room >= n /\ Fits(b.type, n)
        /\ \A i \in 0..h.len : b.mem[i] = h.mem[i]
    <3> HIDE DEF k
    <3>1. k \in Int /\ h.len + k >= 0
      BY <1>1, <2>1
    <3>2. /\ Good(b) /\ b.len = h.len /\ b.room >= h.len + k /\ Fits(b.type, h.len + k)
          /\ \A i \in 0..h.len : b.mem[i] = h.mem[i]
      BY <1>1, <3>1, MakeRoomFacts
    <3> QED BY <2>1, <3>2
  <2>3. /\ z \in Seq(Byte) /\ Len(z) = k + 1 /\ \A i \in 1..(k + 1) : z[i] = NUL
    <3>1. z \in [1..(k + 1) -> Byte] /\ k + 1 \in Nat
      BY <2>1 DEF Zeros, Byte
    <3> QED BY <3>1, FunctionSeq DEF Zeros
  <2>4. sdsgrowzero(h, n) = w
    BY <1>1, <1>3 DEF sdsgrowzero
  <2>5. Zeros(n - Len(t)) = Zeros(k) /\ ~(n <= Len(t))
    BY <1>1, <1>3
  <2>6. Zeros(k) \in Seq(Byte) /\ Len(Zeros(k)) = k /\ \A i \in 1..k : Zeros(k)[i] = NUL
    <3>1. Zeros(k) \in [1..k -> Byte]
      BY <2>1 DEF Zeros, Byte
    <3> QED BY <2>1, <3>1, FunctionSeq DEF Zeros
  <2> HIDE DEF k, b, z
  <2>7. b.room \in Nat /\ n \in 0..b.room
    BY <2>2 DEF Good, Headers
  <2>8. /\ Good(v) /\ SameShape(v, b)
        /\ \A i \in 0..b.room : v.mem[i] =
             IF h.len <= i /\ i < h.len + (k + 1) THEN z[i - h.len + 1] ELSE b.mem[i]
    BY <1>1, <2>2, <2>3, WriteFacts, ZenonT(90)
  <2> HIDE DEF v
  <2>9. v.room = b.room /\ v.type = b.type
    BY <2>8 DEF SameShape
  <2>10. Good(w) /\ w.len = n /\ w.mem = v.mem
    BY <2>2, <2>7, <2>8, <2>9, SetLenFacts
  <2> HIDE DEF w
  <2>11. ASSUME NEW i \in 0..n
         PROVE  w.mem[i] = IF i < h.len THEN h.mem[i] ELSE NUL
    <3>1. CASE i < h.len
      <4>1. i \in 0..b.room /\ i \in 0..h.len
        BY <1>1, <2>7, <3>1
      <4>2. ~(h.len <= i)
        BY <1>1, <3>1
      <4> QED BY <2>2, <2>8, <2>10, <3>1, <4>1, <4>2
    <3>2. CASE ~(i < h.len)
      <4>1. /\ i \in 0..b.room /\ h.len <= i /\ i < h.len + (k + 1)
            /\ i - h.len + 1 \in 1..(k + 1)
        BY <1>1, <2>1, <2>7, <3>2
      <4> QED BY <2>3, <2>8, <2>10, <3>2, <4>1
    <3> QED BY <3>1, <3>2
  <2> DEFINE u == t \o Zeros(k)
  <2>12. /\ u \in Seq(Byte) /\ Len(u) = n
         /\ \A i \in 1..n : u[i] = IF i <= Len(t) THEN t[i] ELSE Zeros(k)[i - Len(t)]
    BY <1>1, <2>1, <2>6, ConcatProperties
  <2> HIDE DEF u
  <2>13. ASSUME NEW i \in 1..n PROVE w.mem[i - 1] = u[i]
    <3>1. i - 1 \in 0..n
      OBVIOUS
    <3>2. CASE i <= Len(t)
      <4>1. i - 1 < h.len /\ i \in 1..Len(t)
        BY <1>1, <3>2
      <4> QED BY <2>11, <2>12, <3>1, <3>2, <4>1, SMTT(60) DEF Intact, Holds
    <3>3. CASE ~(i <= Len(t))
      <4>1. ~(i - 1 < h.len) /\ i - Len(t) \in 1..k
        BY <1>1, <2>1, <3>3
      <4> QED BY <2>6, <2>11, <2>12, <3>1, <3>3, <4>1
    <3> QED BY <3>2, <3>3
  <2>14. w.mem[n] = NUL
    <3>1. n \in 0..n /\ ~(n < h.len)
      BY <1>1, <1>3
    <3> QED BY <2>11, <3>1
  <2>15. Intact(w, u)
    BY <2>10, <2>12, <2>13, <2>14 DEF Intact, Holds, Terminated
  <2> QED BY <2>4, <2>5, <2>15 DEF u
<1> QED BY <1>1, <1>2, <1>3

\* The bytes behind a change of the memory only: sdsMakeRoomFor and
\* sdsRemoveFreeSpace keep the string.
LEMMA SameBytes ==
    ASSUME NEW h, NEW t, Intact(h, t), NEW b, Good(b), b.len = h.len,
           \A i \in 0..h.len : b.mem[i] = h.mem[i]
    PROVE  Intact(b, t)
<1>1. h.len \in Nat /\ h.len = Len(t) /\ h.len \in 0..h.len
  BY DEF Intact, Good, Headers, Holds
<1>2. ASSUME NEW i \in 1..Len(t) PROVE b.mem[i - 1] = t[i]
  <2>1. i - 1 \in 0..h.len
    BY <1>1
  <2> QED BY <2>1 DEF Intact, Holds
<1> QED BY <1>1, <1>2 DEF Intact, Holds, Terminated

\* A caller that reserves room finds its string unchanged.
LEMMA ReserveKeeps ==
    ASSUME NEW h, NEW t, Intact(h, t), NEW n \in Nat
    PROVE  Intact(sdsMakeRoomFor(h, n), t)
<1>1. h.len \in Nat /\ h.len + n >= 0
  BY DEF Intact, Good, Headers
<1>2. /\ Good(sdsMakeRoomFor(h, n)) /\ sdsMakeRoomFor(h, n).len = h.len
      /\ \A i \in 0..h.len : sdsMakeRoomFor(h, n).mem[i] = h.mem[i]
  BY <1>1, MakeRoomFacts DEF Intact
<1> QED BY <1>2, SameBytes

\* sdsRemoveFreeSpace keeps the text.
LEMMA ShrinkKeeps ==
    ASSUME NEW h, NEW t, Intact(h, t)
    PROVE  Intact(sdsRemoveFreeSpace(h), t)
<1>1. h.len \in Nat /\ h.len <= h.len
  BY DEF Intact, Good, Headers
<1>2. /\ Good(sdsRemoveFreeSpace(h)) /\ sdsRemoveFreeSpace(h).len = h.len
      /\ \A i \in 0..h.len : sdsRemoveFreeSpace(h).mem[i] = h.mem[i]
  BY <1>1, ReqTypeFits, ResizedFacts DEF Intact, sdsRemoveFreeSpace
<1> QED BY <1>2, SameBytes

\* make room for n bytes, read fewer into it, sdsIncrLen.
LEMMA ReadIntoKeeps ==
    ASSUME NEW h, NEW t, Intact(h, t), NEW n \in Nat, NEW u \in Seq(Byte), Len(u) <= n
    PROVE  LET big == sdsMakeRoomFor(h, n) IN
           Intact(sdsIncrLen(Write(big, big.len, u), Len(u)), t \o u)
<1> DEFINE b == sdsMakeRoomFor(h, n)
           v == Write(b, b.len, u)
<1>1. h.len \in Nat /\ Len(u) \in Nat /\ h.len + n >= 0 /\ h.len + n \in Nat
  BY LenProperties DEF Intact, Good, Headers
<1>2. /\ Good(b) /\ b.len = h.len /\ b.room >= h.len + n /\ Fits(b.type, h.len + n)
      /\ \A i \in 0..h.len : b.mem[i] = h.mem[i]
  BY <1>1, MakeRoomFacts DEF Intact
<1> HIDE DEF b
<1>3. b.room \in Nat /\ b.type \in Types /\ h.len + Len(u) <= b.room
  BY <1>1, <1>2 DEF Good, Headers
<1>4. Fits(b.type, h.len + Len(u))
  BY <1>1, <1>2, <1>3, FitsLess
<1> DEFINE w == sdssetlen(Write(b, h.len, u), h.len + Len(u))
<1>5. Good(w) /\ Holds(w, t \o u)
  BY <1>1, <1>2, <1>3, <1>4, AppendFacts DEF Intact
<1>6. w.len = h.len + Len(u)
  BY <1>1, <1>2, <1>3, <1>4, PutFacts
<1>7. v.len = h.len
  BY <1>1, <1>2, WriteFacts, ZenonT(90)
<1>8. sdsIncrLen(v, Len(u)) = Terminate(w, w.len)
  BY <1>2, <1>6, <1>7 DEF sdsIncrLen
<1> HIDE DEF w
<1>9. Intact(sdsIncrLen(v, Len(u)), t \o u)
  BY <1>5, <1>8, TerminateIntact
<1> QED BY <1>9 DEF b

\* Move n bytes to the start and cut there.
LEMMA CutKeeps ==
    ASSUME NEW h, NEW t, Intact(h, t), NEW from \in Nat, NEW n \in Nat, from + n <= h.len
    PROVE  Intact(Cut(h, from, n), SubSeq(t, from + 1, from + n))
<1> DEFINE z == Bytes(h, from, n)
           v == Write(h, 0, z)
           w == Terminate(v, n)
           x == sdssetlen(w, n)
           u == SubSeq(t, from + 1, from + n)
<1>1. /\ h.len \in Nat /\ h.room \in Nat /\ h.len <= h.room /\ h.len = Len(t)
      /\ t \in Seq(Byte) /\ n \in 0..h.room /\ n <= h.len
  BY DEF Intact, Good, Headers, Holds
<1>2. Fits(h.type, n)
  BY <1>1, FitsLess DEF Intact, Good, Headers
<1>3. /\ u \in Seq(Byte) /\ Len(u) = n /\ \A i \in 1..n : u[i] = t[from + i]
  BY <1>1, PartFacts
<1> HIDE DEF u
<1>4. /\ z \in Seq(Byte) /\ Len(z) = n /\ \A i \in 1..n : z[i] = u[i]
  <2>1. ASSUME NEW i \in 1..n PROVE h.mem[from + i - 1] = u[i]
    <3>1. from + i \in 1..Len(t)
      BY <1>1
    <3>2. h.mem[(from + i) - 1] = t[from + i]
      BY <3>1 DEF Intact, Holds
    <3> QED BY <1>3, <3>2
  <2>2. \A i \in 1..n : u[i] \in Byte
    BY <1>3, ElementOfSeq
  <2>3. z \in [1..n -> Byte] /\ \A i \in 1..n : z[i] = u[i]
    BY <2>1, <2>2 DEF Bytes
  <2> QED BY <2>3, FunctionSeq
<1> HIDE DEF z
<1>5. /\ Good(v) /\ SameShape(v, h)
      /\ \A i \in 0..h.room : v.mem[i] =
           IF 0 <= i /\ i < 0 + Len(z) THEN z[i - 0 + 1] ELSE h.mem[i]
  BY <1>4, WriteFacts, ZenonT(90) DEF Intact
<1> HIDE DEF v
<1>6. v.room = h.room /\ v.type = h.type
  BY <1>5 DEF SameShape
<1>7. /\ Good(w) /\ SameShape(w, v) /\ w.mem[n] = NUL
      /\ \A i \in 0..v.room : i # n => w.mem[i] = v.mem[i]
  BY <1>1, <1>5, <1>6, TerminateFacts, ZenonT(90)
<1> HIDE DEF w
<1>8. w.room = h.room /\ w.type = h.type
  BY <1>6, <1>7 DEF SameShape
<1>9. Good(x) /\ x.len = n /\ x.mem = w.mem
  BY <1>1, <1>2, <1>7, <1>8, SetLenFacts
<1> HIDE DEF x
<1>10. ASSUME NEW i \in 1..n PROVE x.mem[i - 1] = u[i]
  <2>1. /\ i - 1 \in 0..h.room /\ i - 1 # n
        /\ 0 <= i - 1 /\ i - 1 < 0 + n /\ i - 1 - 0 + 1 = i
    BY <1>1
  <2> QED BY <1>4, <1>5, <1>6, <1>7, <1>9, <2>1
<1>11. Intact(x, u)
  BY <1>3, <1>7, <1>9, <1>10 DEF Intact, Holds, Terminated
<1> QED BY <1>11 DEF Cut, x, w, v, z, u

\* A negative index counts from the end, at least to the first byte.
LEMMA FromEndFacts ==
    ASSUME NEW n \in Nat, NEW i \in Int
    PROVE  FromEnd(n, i) \in Nat
BY DEF FromEnd

\* An int holds what is not above INT_MAX ...
LEMMA ToIntSmall ==
    ASSUME NEW n \in Int, n <= IntMax
    PROVE  ToInt(n) = n
BY DEF ToInt

\* ... and never more than what is assigned to it.
LEMMA ToIntBound ==
    ASSUME NEW n \in Int
    PROVE  ToInt(n) \in Int /\ ToInt(n) <= n
<1>1. IntMax \in Nat /\ IntWidth \in Nat /\ IntWidth > 0
  BY IntMaxAssumption, IntAssumption DEF IntWidth
<1>2. n % IntWidth \in 0..(IntWidth - 1)
  BY <1>1
<1> QED BY <1>1, <1>2 DEF ToInt

\* A product of a positive factor is no smaller than the other one.
LEMMA ProductBound ==
    ASSUME NEW w \in Nat, NEW k \in Nat, k > 0
    PROVE  w * k >= w
<1>1. w * k = w + w * (k - 1)
  OBVIOUS
<1>2. w * (k - 1) \in Nat
  OBVIOUS
<1> QED BY <1>1, <1>2

\* Multiples of the divisor leave the remainder alone.
LEMMA Remainder ==
    ASSUME NEW w \in Nat, w > 0, NEW q \in Nat, NEW n \in 0..(w - 1)
    PROVE  (w * q + n) % w = n
<1> DEFINE a == w * q + n
           d == a \div w
           r == a % w
<1>1. a \in Nat /\ d \in Int /\ r \in 0..(w - 1) /\ a = w * d + r
  <2>1. a \in Nat
    OBVIOUS
  <2> HIDE DEF a
  <2> QED BY <2>1
<1>2. w * q + n = w * d + r
  BY <1>1
<1> HIDE DEF a, d, r
<1>3. CASE d > q
  <2>1. w * (d - q) >= w
    BY <1>1, <1>3, ProductBound
  <2>2. w * (d - q) = w * d - w * q /\ w * d \in Int /\ w * q \in Int
    BY <1>1
  <2> QED BY <1>1, <1>2, <2>1, <2>2
<1>4. CASE q > d
  <2>1. w * (q - d) >= w
    BY <1>1, <1>4, ProductBound
  <2>2. w * (q - d) = w * q - w * d /\ w * d \in Int /\ w * q \in Int
    BY <1>1
  <2> QED BY <1>1, <1>2, <2>1, <2>2
<1>5. CASE d = q
  <2>1. w * d \in Int /\ w * q = w * d
    BY <1>1, <1>5
  <2> QED BY <1>1, <1>2, <2>1 DEF r, a
<1> QED BY <1>1, <1>3, <1>4, <1>5

\* A field of type 3 takes a negative int for the length it was.
LEMMA FieldOfInt ==
    ASSUME NEW n \in Nat, n < Limit[4]
    PROVE  Stored(3, ToSize(ToInt(n))) = n
<1>1. /\ IntMax \in Nat /\ IntWidth \in Nat /\ IntWidth > 0 /\ n < IntWidth
      /\ Limit[4] + 1 = IntWidth /\ Limit[4] \in Nat
  BY IntMaxAssumption, IntAssumption, LimitFacts DEF IntWidth
<1>2. CASE n <= IntMax
  <2>1. ToSize(ToInt(n)) = n
    BY <1>2, ToIntSmall DEF ToSize
  <2> QED BY <2>1 DEF Stored, Fits
<1>3. CASE n > IntMax
  <2>1. n % IntWidth = n
    BY <1>1
  <2>2. ToInt(n) = n - IntWidth
    BY <1>1, <1>3, <2>1 DEF ToInt
  <2>3. ToSize(ToInt(n)) = n - IntWidth + IntWidth * IntWidth
    BY <1>1, <2>2 DEF ToSize
  <2>4. n - IntWidth + IntWidth * IntWidth = IntWidth * (IntWidth - 1) + n
    BY <1>1
  <2>5. (IntWidth * (IntWidth - 1) + n) % IntWidth = n
    <3>1. IntWidth - 1 \in Nat /\ n \in 0..(IntWidth - 1)
      BY <1>1
    <3> HIDE DEF IntWidth
    <3> QED BY <1>1, <3>1, Remainder
  <2> QED BY <1>1, <2>3, <2>4, <2>5 DEF Stored, Fits
<1> QED BY <1>1, <1>2, <1>3

\* sdsrange leaves the bytes between its two ends.
LEMMA RangeKeeps ==
    ASSUME NEW h, NEW t, Intact(h, t), NEW start \in Int, NEW end \in Int,
           h.len <= IntMax
    PROVE  LET last == IF FromEnd(Len(t), end) >= Len(t)
                         THEN Len(t) ELSE FromEnd(Len(t), end) + 1
           IN  Intact(sdsrange(h, start, end), SubSeq(t, FromEnd(Len(t), start) + 1, last))
<1> DEFINE n == h.len
           from == FromEnd(n, start)
           upto == IF FromEnd(n, end) >= n THEN n ELSE FromEnd(n, end) + 1
           u == SubSeq(t, from + 1, upto)
<1>1. n \in Nat /\ n = Len(t) /\ t \in Seq(Byte)
  BY DEF Intact, Good, Headers, Holds
<1> DEFINE last == IF FromEnd(n, end) >= n THEN n - 1 ELSE FromEnd(n, end)
           keep == IF from > FromEnd(n, end) \/ from >= n \/ from > last THEN 0
                   ELSE last - from + 1
<1>0. n # 0 => sdsrange(h, start, end) = Cut(h, IF keep = 0 THEN 0 ELSE from, keep)
  <2>1. IntFromEnd(n, start) = from /\ IntFromEnd(n, end) = FromEnd(n, end)
    BY <1>1, IntMaxAssumption, IntAssumption, ToIntSmall DEF IntFromEnd, FromEnd
  <2>2. ToInt(n) = n /\ ToInt(n - 1) = n - 1
    BY <1>1, IntMaxAssumption, IntAssumption, ToIntSmall
  <2> QED BY <2>1, <2>2 DEF sdsrange
<1> HIDE DEF n
<1>a. from \in Nat /\ FromEnd(n, end) \in Nat
  BY <1>1, FromEndFacts
<1> HIDE DEF from
<1>2. upto \in Nat /\ upto <= n
  BY <1>1, <1>a
<1>b. keep = IF from < upto THEN upto - from ELSE 0
  BY <1>1, <1>a
<1> HIDE DEF upto, keep
<1>3. ASSUME n = 0
      PROVE  Intact(sdsrange(h, start, end), u)
  <2>1. sdsrange(h, start, end) = h
    BY <1>3 DEF sdsrange, n
  <2>2. u = << >>
    BY <1>a, <1>2, <1>3, SubSeqEmpty
  <2>3. t = << >>
    BY <1>1, <1>3, EmptySeq
  <2> QED BY <2>1, <2>2, <2>3
<1>4. ASSUME n # 0 /\ from < upto
      PROVE  Intact(sdsrange(h, start, end), u)
  <2>1. upto - from \in Nat /\ upto - from # 0 /\ from + (upto - from) = upto
    BY <1>a, <1>2, <1>4
  <2>2. sdsrange(h, start, end) = Cut(h, from, upto - from)
    BY <1>0, <1>b, <1>4, <2>1
  <2>3. Intact(Cut(h, from, upto - from), SubSeq(t, from + 1, upto))
    BY <1>a, <1>2, <2>1, CutKeeps DEF n
  <2> QED BY <2>2, <2>3
<1>5. ASSUME n # 0 /\ ~(from < upto)
      PROVE  Intact(sdsrange(h, start, end), u)
  <2>1. sdsrange(h, start, end) = Cut(h, 0, 0)
    BY <1>0, <1>b, <1>5
  <2>2. u = << >> /\ SubSeq(t, 0 + 1, 0 + 0) = << >>
    BY <1>a, <1>2, <1>5, SubSeqEmpty
  <2>3. Intact(Cut(h, 0, 0), SubSeq(t, 0 + 1, 0 + 0))
    BY <1>1, CutKeeps DEF n
  <2> QED BY <2>1, <2>2, <2>3
<1>6. Intact(sdsrange(h, start, end), u)
  BY <1>3, <1>4, <1>5
<1> QED BY <1>1, <1>6 DEF upto, from

\* On a longer string sdsrange keeps some part of it.
LEMMA RangeWide ==
    ASSUME NEW h, NEW t, Intact(h, t), NEW start \in -(IntMax + 1)..IntMax,
           NEW end \in -(IntMax + 1)..IntMax, h.len > IntMax
    PROVE  \E u : Intact(sdsrange(h, start, end), u)
<1> DEFINE n == h.len
           from == IntFromEnd(n, start)
           to == IntFromEnd(n, end)
           last == IF to >= ToInt(n) THEN ToInt(n - 1) ELSE to
           keep == IF from > to \/ from >= ToInt(n) \/ from > last THEN 0
                   ELSE last - from + 1
           first == IF keep = 0 THEN 0 ELSE from
<1>1. n \in Nat /\ n > 0
  BY IntMaxAssumption, IntAssumption DEF Intact, Good, Headers
<1>2. sdsrange(h, start, end) = Cut(h, first, keep)
  BY <1>1 DEF sdsrange
<1> HIDE DEF n
<1>3. ToInt(n) \in Int /\ ToInt(n - 1) \in Int /\ ToInt(n) <= n /\ ToInt(n - 1) <= n - 1
  BY <1>1, ToIntBound
<1>4. from \in Nat /\ to \in Nat
  <2>1. ToInt(n + start) \in Int /\ ToInt(n + end) \in Int
    BY <1>1, IntMaxAssumption, IntAssumption, ToIntBound
  <2> QED BY <2>1, IntMaxAssumption, IntAssumption DEF IntFromEnd
<1> HIDE DEF from, to
<1>5. first \in Nat /\ keep \in Nat /\ first + keep <= n
  BY <1>1, <1>3, <1>4
<1> HIDE DEF first, keep
<1>6. Intact(Cut(h, first, keep), SubSeq(t, first + 1, first + keep))
  BY <1>5, CutKeeps DEF n
<1> QED BY <1>2, <1>6

\* strchr finds no byte to keep ...
LEMMA TrimAllKeeps ==
    ASSUME NEW h, NEW t, Intact(h, t), NEW cset,
           {i \in DOMAIN t : t[i] \notin cset \cup {NUL}} = {}
    PROVE  Intact(sdstrim(h, cset), << >>)
<1>1. h.len \in Nat /\ h.len = Len(t) /\ t \in Seq(Byte) /\ DOMAIN t = 1..Len(t)
  BY LenProperties DEF Intact, Good, Headers, Holds
<1>2. {i \in 0..(h.len - 1) : h.mem[i] \notin cset \cup {NUL}} = {}
  <2> SUFFICES ASSUME NEW i \in 0..(h.len - 1), h.mem[i] \notin cset \cup {NUL}
               PROVE  FALSE
    OBVIOUS
  <2>1. i + 1 \in DOMAIN t /\ (i + 1) - 1 = i
    BY <1>1
  <2>2. h.mem[(i + 1) - 1] = t[i + 1]
    BY <1>1, <2>1 DEF Intact, Holds
  <2> QED BY <2>1, <2>2
<1>3. sdstrim(h, cset) = Cut(h, 0, 0)
  <2>1. h.len > h.len - 1
    BY <1>1
  <2> QED BY <1>2, <2>1 DEF sdstrim
<1>4. SubSeq(t, 0 + 1, 0 + 0) = << >>
  BY SubSeqEmpty
<1>5. Intact(Cut(h, 0, 0), SubSeq(t, 0 + 1, 0 + 0))
  BY <1>1, CutKeeps
<1> QED BY <1>3, <1>4, <1>5

\* ... or the first and the last of them, which are in the text one further.
LEMMA TrimKeeps ==
    ASSUME NEW h, NEW t, Intact(h, t), NEW cset, NEW i \in Nat, NEW j \in Nat,
           LET Keeps == {k \in DOMAIN t : t[k] \notin cset \cup {NUL}}
           IN  i \in Keeps /\ j \in Keeps /\ \A k \in Keeps : i <= k /\ k <= j
    PROVE  Intact(sdstrim(h, cset), SubSeq(t, i, j))
<1> DEFINE K == {k \in 0..(h.len - 1) : h.mem[k] \notin cset \cup {NUL}}
           sp == CHOOSE k \in K : \A m \in K : k <= m
           ep == CHOOSE k \in K : \A m \in K : k >= m
           a == IF K = {} THEN h.len ELSE sp
           b == IF K = {} THEN h.len - 1 ELSE ep
<1>0. sdstrim(h, cset) = Cut(h, IF a > b THEN 0 ELSE a, IF a > b THEN 0 ELSE b - a + 1)
  BY DEF sdstrim
<1>1. h.len \in Nat /\ h.len = Len(t) /\ t \in Seq(Byte) /\ DOMAIN t = 1..Len(t)
  BY LenProperties DEF Intact, Good, Headers, Holds
<1>2. i \in 1..Len(t) /\ j \in 1..Len(t) /\ i <= j
  BY <1>1
<1>3. \A k \in 0..(h.len - 1) : k + 1 \in DOMAIN t /\ h.mem[k] = t[k + 1]
  <2> SUFFICES ASSUME NEW k \in 0..(h.len - 1)
               PROVE  k + 1 \in DOMAIN t /\ h.mem[k] = t[k + 1]
    OBVIOUS
  <2>1. k + 1 \in DOMAIN t /\ (k + 1) - 1 = k
    BY <1>1
  <2>2. h.mem[(k + 1) - 1] = t[k + 1]
    BY <1>1, <2>1 DEF Intact, Holds
  <2> QED BY <2>1, <2>2
<1>4. i - 1 \in K /\ j - 1 \in K
  <2>1. i - 1 \in 0..(h.len - 1) /\ j - 1 \in 0..(h.len - 1) /\ (i - 1) + 1 = i /\ (j - 1) + 1 = j
    BY <1>1, <1>2
  <2> QED BY <1>3, <2>1
<1>5. \A k \in K : i - 1 <= k /\ k <= j - 1
  <2> SUFFICES ASSUME NEW k \in K
               PROVE  i - 1 <= k /\ k <= j - 1
    OBVIOUS
  <2>1. k \in Nat /\ k + 1 \in DOMAIN t /\ t[k + 1] \notin cset \cup {NUL}
    BY <1>3
  <2>2. i <= k + 1 /\ k + 1 <= j
    BY <2>1
  <2> QED BY <2>1, <2>2
<1>6. K \subseteq Int
  OBVIOUS
<1> HIDE DEF K
<1>7. sp = i - 1
  <2>1. sp \in K /\ \A m \in K : sp <= m
    BY <1>4, <1>5
  <2> HIDE DEF sp
  <2> QED BY <1>2, <1>4, <1>5, <1>6, <2>1
<1>8. ep = j - 1
  <2>1. \A m \in K : j - 1 >= m
    BY <1>2, <1>5, <1>6
  <2>2. ep \in K /\ \A m \in K : ep >= m
    BY <1>4, <2>1
  <2> HIDE DEF ep
  <2> QED BY <1>2, <1>4, <1>5, <1>6, <2>2
<1>9. K # {}
  BY <1>4
<1>10. sdstrim(h, cset) =
         Cut(h, IF sp > ep THEN 0 ELSE sp, IF sp > ep THEN 0 ELSE ep - sp + 1)
  BY <1>0, <1>9
<1> HIDE DEF sp, ep
<1>11. sdstrim(h, cset) = Cut(h, i - 1, j - i + 1)
  <2>1. ~(i - 1 > j - 1) /\ (j - 1) - (i - 1) + 1 = j - i + 1
    BY <1>2
  <2> QED BY <1>7, <1>8, <1>10, <2>1
<1>12. /\ i - 1 \in Nat /\ j - i + 1 \in Nat /\ (i - 1) + (j - i + 1) = j
       /\ (i - 1) + 1 = i /\ j <= h.len
  BY <1>1, <1>2
<1> QED BY <1>11, <1>12, CutKeeps

\* sdsupdatelen finds the zero byte a caller has written.
LEMMA UpdateKeeps ==
    ASSUME NEW h, NEW t, Intact(h, t), NEW n \in Nat, n < Len(t),
           \A i \in 1..n : t[i] # NUL, n <= IntMax \/ h.type # 4
    PROVE  Intact(sdsupdatelen(Terminate(h, n)), SubSeq(t, 1, n))
<1> DEFINE w == Terminate(h, n)
           Ends(m) == w.mem[m] = NUL /\ \A i \in 0..(m - 1) : w.mem[i] # NUL
<1>1. /\ h.len \in Nat /\ h.room \in Nat /\ h.len <= h.room /\ h.len = Len(t)
      /\ t \in Seq(Byte) /\ n \in 0..h.room /\ n <= h.len
  BY DEF Intact, Good, Headers, Holds
<1>2. Fits(h.type, n)
  BY <1>1, FitsLess DEF Intact, Good, Headers
<1>3. /\ Good(w) /\ SameShape(w, h) /\ w.len = h.len /\ w.mem[n] = NUL
      /\ \A i \in 0..h.room : i # n => w.mem[i] = h.mem[i]
  BY <1>1, TerminateFacts DEF Intact
<1> HIDE DEF w
<1>4. DOMAIN w.mem = 0..h.room /\ w.room = h.room /\ w.type = h.type
  BY <1>3 DEF Good, SameShape
<1>5. \A i \in 0..(n - 1) : w.mem[i] = t[i + 1] /\ w.mem[i] # NUL
  <2> SUFFICES ASSUME NEW i \in 0..(n - 1)
               PROVE  w.mem[i] = t[i + 1] /\ w.mem[i] # NUL
    OBVIOUS
  <2>1. i \in 0..h.room /\ i # n /\ i + 1 \in 1..n /\ i + 1 \in 1..Len(t) /\ (i + 1) - 1 = i
    BY <1>1
  <2>2. h.mem[(i + 1) - 1] = t[i + 1]
    BY <2>1 DEF Intact, Holds
  <2> QED BY <1>3, <2>1, <2>2
<1>6. Ends(n) /\ n \in DOMAIN w.mem
  BY <1>1, <1>3, <1>4, <1>5
<1>7. \A m \in DOMAIN w.mem : Ends(m) => m = n
  <2> SUFFICES ASSUME NEW m \in 0..h.room, Ends(m), m # n
               PROVE  FALSE
    BY <1>4
  <2>1. CASE m < n
    <3>1. m \in 0..(n - 1)
      BY <1>1, <2>1
    <3> QED BY <1>5, <3>1
  <2>2. CASE n < m
    <3>1. n \in 0..(m - 1)
      BY <1>1, <2>2
    <3> QED BY <1>3, <3>1
  <2> QED BY <1>1, <2>1, <2>2
<1>8. (CHOOSE m \in DOMAIN w.mem : Ends(m)) = n
  <2> HIDE DEF Ends
  <2> QED BY <1>6, <1>7
<1>9. sdsupdatelen(w) = sdssetlen(w, n)
  <2>1. sdsupdatelen(w) = sdssetlen(w, ToSize(ToInt(n)))
    BY <1>8 DEF sdsupdatelen, strlen
  <2>2. CASE n <= IntMax
    BY <2>1, <2>2, ToIntSmall DEF ToSize
  <2>3. CASE n > IntMax
    <3>1. h.type = 3
      BY <1>1, <1>2, <2>3, IntMaxAssumption, IntAssumption, LimitFacts, SMTT(60) DEF Fits, Types, Intact, Good, Headers
    <3>2. n < Limit[4]
      BY <1>2, <3>1 DEF Fits
    <3>3. Stored(3, ToSize(ToInt(n))) = Stored(3, n)
      BY <1>2, <3>1, <3>2, FieldOfInt, StoredFits
    <3> QED BY <1>4, <2>1, <3>1, <3>3 DEF sdssetlen
  <2> QED BY <2>2, <2>3, IntMaxAssumption, IntAssumption
<1> DEFINE x == sdssetlen(w, n)
<1>10. Good(x) /\ x.len = n /\ x.mem = w.mem
  BY <1>1, <1>2, <1>3, <1>4, SetLenFacts
<1> HIDE DEF x
<1>11. /\ SubSeq(t, 1, n) \in Seq(Byte) /\ Len(SubSeq(t, 1, n)) = n
       /\ \A i \in 1..n : SubSeq(t, 1, n)[i] = t[i]
  <2>1. 0 + n <= Len(t) /\ 0 + 1 = 1 /\ 0 + n = n /\ \A i \in 1..n : 0 + i = i
    BY <1>1
  <2> QED BY <1>1, <2>1, PartFacts
<1>12. ASSUME NEW i \in 1..n PROVE x.mem[i - 1] = t[i]
  <2>1. i - 1 \in 0..(n - 1) /\ (i - 1) + 1 = i
    BY <1>1
  <2> QED BY <1>5, <1>10, <2>1
<1>13. Intact(x, SubSeq(t, 1, n))
  BY <1>3, <1>10, <1>11, <1>12 DEF Intact, Holds, Terminated
<1> QED BY <1>9, <1>13 DEF x, w

\* One piece of sdscatfmt leaves the string without its zero byte.
LEMMA PieceKeeps ==
    ASSUME NEW h, NEW t, Good(h), Holds(h, t), NEW u \in Seq(Byte), h.len <= IntMax
    PROVE  Good(sdscatfmtPiece(h, u)) /\ Holds(sdscatfmtPiece(h, u), t \o u)
<1> DEFINE one == IF sdsavail(h) = 0 THEN sdsMakeRoomFor(h, 1) ELSE h
           b == PieceRoom(one, u)
<1>1. h.len \in Nat /\ Len(u) \in Nat /\ h.len + 1 >= 0 /\ h.len + Len(u) >= 0
  BY LenProperties DEF Good, Headers
<1>2. Good(one) /\ one.len = h.len /\ \A i \in 0..h.len : one.mem[i] = h.mem[i]
  BY <1>1, MakeRoomFacts
<1> HIDE DEF one
<1>3. sdsMakeRoomFor(one, Len(u)) = IF sdsavail(one) >= Len(u) THEN one
                                      ELSE sdsMakeRoomFor(one, Len(u))
  BY DEF sdsMakeRoomFor
<1>4. sdsavail(one) \in Int
  BY <1>2 DEF sdsavail, sdsalloc, Good, Headers
<1>5. b = sdsMakeRoomFor(one, Len(u))
  BY <1>1, <1>3, <1>4 DEF PieceRoom
<1>6. /\ Good(b) /\ b.len = h.len /\ b.room >= h.len + Len(u)
      /\ Fits(b.type, h.len + Len(u))
      /\ \A i \in 0..h.len : b.mem[i] = one.mem[i]
  BY <1>1, <1>2, <1>5, MakeRoomFacts
<1> HIDE DEF b
<1>7. b.room \in Nat /\ h.len + Len(u) <= b.room /\ \A i \in 0..h.len : b.mem[i] = h.mem[i]
  BY <1>1, <1>2, <1>6 DEF Good, Headers
<1> DEFINE w == sdssetlen(Write(b, h.len, u), h.len + Len(u))
<1>8. Good(w) /\ Holds(w, t \o u)
  BY <1>1, <1>6, <1>7, AppendFacts
<1>9. sdscatfmtPiece(h, u) = w
  BY <1>1, ToIntSmall DEF sdscatfmtPiece, b, one
<1> QED BY <1>8, <1>9
-----------------------------------------------------------------------------
(* The calls *)

\* After sdsrange the string is some other than its caller expects.
StringInv ==
    /\ narrowed \in {{}, {"range"}, {"updatelen"}, {"catfmt"}}
    /\ narrowed = {} => Good(s) /\ Holds(s, text) /\ (~fmt => Terminated(s))
    /\ narrowed = {"range"} => \E u : Intact(s, u)

\* The strings of the runs are sequences of bytes.
LEMMA StringSeq == Strings \subseteq Seq(Byte)
<1> SUFFICES ASSUME NEW n \in 0..MaxAdd, NEW t \in [1..n -> Chars]
             PROVE  t \in Seq(Byte)
  BY DEF Strings
<1>1. n \in Nat /\ t \in [1..n -> Byte]
  BY BoundAssumption DEF Byte
<1> QED BY <1>1, FunctionSeq

\* A new string holds the text it was made of.
LEMMA InitInv == Init => StringInv
<1> SUFFICES ASSUME Init PROVE StringInv
  OBVIOUS
<1>1. << >> \in Seq(Byte)
  BY EmptySeq
<1>2. Intact(s, text)
  BY <1>1, NewKeeps DEF Init
<1> QED BY <1>2 DEF Init, Intact, StringInv

\* A call that leaves the string intact keeps the invariant.
LEMMA IntactInv == Intact(s', text') /\ narrowed' = {} => StringInv'
BY DEF Intact, StringInv

\* Every call keeps the invariant.
LEMMA NextInv == StringInv /\ [Next]_vars => StringInv'
<1> SUFFICES ASSUME StringInv, [Next]_vars
             PROVE  StringInv'
  OBVIOUS
<1> USE BoundAssumption, IntMaxAssumption, IntAssumption
<1>1. CASE UNCHANGED vars
  BY <1>1 DEF vars, StringInv, Good, Holds, Terminated, Intact
<1>2. narrowed = {} /\ ~fmt => Intact(s, text)
  BY DEF StringInv, Intact
<1>3. narrowed = {} => /\ Good(s) /\ Holds(s, text) /\ text \in Seq(Byte)
                       /\ DOMAIN text = 1..Len(text) /\ Len(text) \in Nat /\ s.len = Len(text)
  BY LenProperties DEF StringInv, Holds
<1>a. ASSUME narrowed \subseteq {"range"}, ~fmt
      PROVE  \E u : Intact(s, u)
  <2>1. narrowed = {} \/ narrowed = {"range"}
    BY <1>a
  <2> QED BY <1>2, <1>a, <2>1 DEF StringInv
<1>4. ASSUME NEW t \in Strings, new(t) \/ cat(t) \/ copy(t)
      PROVE  StringInv'
  <2>1. t \in Seq(Byte)
    BY StringSeq
  <2>2. CASE new(t)
    BY <2>1, <2>2, NewKeeps, IntactInv DEF new
  <2>3. CASE cat(t)
    BY <1>2, <2>1, <2>3, CatKeeps, IntactInv DEF cat, Call, Returns
  <2>4. CASE copy(t)
    <3>1. PICK u : Intact(s, u)
      BY <1>a, <2>4 DEF copy, Overwrites, Returns
    <3> QED BY <2>1, <2>4, <3>1, CopyKeeps, IntactInv DEF copy, Overwrites, Returns
  <2> QED BY <1>4, <2>2, <2>3, <2>4
<1>5. ASSUME NEW t \in Strings, catfmtPiece(t)
      PROVE  StringInv'
  <2>1. t \in Seq(Byte) /\ narrowed = {}
    BY <1>5, StringSeq DEF catfmtPiece
  <2>2. CASE Len(text) > IntMax
    BY <1>5, <2>2 DEF catfmtPiece, Narrows, StringInv
  <2>3. CASE Len(text) <= IntMax
    <3>1. Good(s') /\ Holds(s', text')
      BY <1>3, <1>5, <2>1, <2>3, PieceKeeps DEF catfmtPiece
    <3>2. narrowed' = {} /\ fmt'
      BY <1>3, <1>5, <2>1, <2>3 DEF catfmtPiece, Narrows
    <3> QED BY <3>1, <3>2 DEF StringInv
  <2> QED BY <1>3, <2>1, <2>2, <2>3
<1>6. ASSUME NEW n \in 1..MaxAdd, NEW t \in Strings, readInto(n, t)
      PROVE  StringInv'
  <2>1. t \in Seq(Byte) /\ ~fmt /\ narrowed = {} /\ Len(t) <= n /\ n \in Nat
    BY <1>6, StringSeq DEF readInto, Call, Returns
  <2> QED BY <1>2, <1>6, <2>1, ReadIntoKeeps, IntactInv DEF readInto, Call, Returns
<1>7. ASSUME NEW n \in 0..MaxLen, growzero(n) \/ reserve(n)
      PROVE  StringInv'
  <2>1. n \in Nat /\ ~fmt /\ narrowed = {}
    BY <1>7 DEF growzero, reserve, Call, Returns
  <2> QED BY <1>2, <1>7, <2>1, GrowKeeps, ReserveKeeps, IntactInv
          DEF growzero, reserve, Call, Returns
<1>8. ASSUME NEW n \in 0..MaxLen, cutRight(n)
      PROVE  StringInv'
  <2>1. /\ n \in Nat /\ n > 0 /\ ~fmt /\ narrowed = {} /\ narrowed' = {}
        /\ IncrAsserted(s, -n)
        /\ s' = sdsIncrLen(s, -n) /\ text' = SubSeq(text, 1, Len(text) - n)
    BY <1>8 DEF cutRight, Call, Returns
  <2>2. s.len \in Nat /\ s.len = Len(text)
    BY <1>3, <2>1 DEF Good, Headers
  <2>3. s.len >= n
    BY <2>1, <2>2 DEF IncrAsserted
  <2>4. s.len + (-n) = s.len - n /\ s.len - n \in 0..s.len
    BY <2>1, <2>2, <2>3
  <2>5. Intact(sdsIncrLen(s, -n), SubSeq(text, 1, s.len - n))
    BY <1>2, <2>1, <2>4, ShortenKeeps DEF sdsIncrLen, Intact
  <2> QED BY <2>1, <2>2, <2>5, IntactInv
<1>9. ASSUME NEW n \in 0..MaxLen, updatelen(n)
      PROVE  StringInv'
  <2>1. n \in Nat /\ ~fmt /\ narrowed = {}
    BY <1>9 DEF updatelen, Returns
  <2>2. CASE n > IntMax /\ s.type = 4
    BY <1>9, <2>2 DEF updatelen, Narrows, StringInv
  <2>3. CASE ~(n > IntMax /\ s.type = 4)
    <3>1. n <= IntMax \/ s.type # 4
      BY <2>1, <2>3
    <3>2. narrowed' = {}
      BY <1>9, <2>3 DEF updatelen, Narrows
    <3> QED BY <1>2, <1>9, <2>1, <3>1, <3>2, UpdateKeeps, IntactInv DEF updatelen, Returns
  <2> QED BY <2>2, <2>3
<1>10. ASSUME NEW i \in -(IntMax + 1)..IntMax, NEW j \in -(IntMax + 1)..IntMax, range(i, j)
       PROVE  StringInv'
  <2>1. ~fmt /\ narrowed = {} /\ i \in Int /\ j \in Int
    BY <1>10 DEF range, Returns
  <2>2. CASE Len(text) > IntMax
    <3>1. \E u : Intact(s', u)
      BY <1>2, <1>3, <1>10, <2>1, <2>2, RangeWide DEF range, Returns
    <3>2. narrowed' = {"range"}
      BY <1>10, <2>2 DEF range, Narrows
    <3> QED BY <3>1, <3>2 DEF StringInv
  <2>3. CASE Len(text) <= IntMax
    <3>1. Intact(s', text')
      BY <1>2, <1>3, <1>10, <2>1, <2>3, RangeKeeps DEF range, Returns
    <3>2. narrowed' = {}
      BY <1>3, <1>10, <2>1, <2>3 DEF range, Narrows
    <3> QED BY <3>1, <3>2, IntactInv
  <2> QED BY <1>3, <2>1, <2>2, <2>3
<1>11. ASSUME NEW c, trim(c)
       PROVE  StringInv'
  <2> DEFINE Keeps == {i \in DOMAIN text : text[i] \notin c \cup {NUL}}
  <2>1. CASE Keeps = {} /\ Call(sdstrim(s, c), << >>)
    BY <1>2, <2>1, TrimAllKeeps, IntactInv DEF Call, Returns
  <2>2. ASSUME NEW i \in Keeps, NEW j \in Keeps, \A k \in Keeps : i <= k /\ k <= j,
               Call(sdstrim(s, c), SubSeq(text, i, j))
        PROVE  StringInv'
    <3>1. ~fmt /\ narrowed = {} /\ i \in Nat /\ j \in Nat
      BY <1>3, <2>2 DEF Call, Returns
    <3>2. Intact(sdstrim(s, c), SubSeq(text, i, j))
      BY <1>2, <2>2, <3>1, TrimKeeps
    <3> QED BY <2>2, <3>2, IntactInv DEF Call, Returns
  <2> QED BY <1>11, <2>1, <2>2 DEF trim
<1>12. CASE clear
  <2>1. PICK u : Intact(s, u)
    BY <1>a, <1>12 DEF clear, Overwrites, Returns
  <2> QED BY <1>12, <2>1, ClearKeeps, IntactInv DEF clear, Overwrites, Returns
<1>13. CASE shrink
  BY <1>2, <1>13, ShrinkKeeps, IntactInv DEF shrink, Call, Returns
<1>14. CASE catfmtEnd
  <2>1. narrowed = {}
    BY <1>14 DEF catfmtEnd
  <2>2. CASE Len(text) > IntMax
    BY <1>14, <2>2 DEF catfmtEnd, Narrows, StringInv
  <2>3. CASE Len(text) <= IntMax
    <3>1. ToInt(s.len) = s.len
      BY <1>3, <2>1, <2>3, ToIntSmall
    <3>2. Intact(s', text')
      BY <1>3, <1>14, <2>1, <3>1, TerminateIntact DEF catfmtEnd
    <3>3. narrowed' = {}
      BY <1>3, <1>14, <2>1, <2>3 DEF catfmtEnd, Narrows
    <3> QED BY <3>2, <3>3, IntactInv
  <2> QED BY <1>3, <2>1, <2>2, <2>3
<1> QED BY <1>1, <1>4, <1>5, <1>6, <1>7, <1>8, <1>9, <1>10, <1>11, <1>12, <1>13, <1>14 DEF Next

-----------------------------------------------------------------------------
(* The theorems *)

\* After any sequence of the calls of src/sds.c the inductive invariant holds:
\* header and text are in order unless sdsrange, sdsupdatelen or sdscatfmt has
\* met a length that an int does not hold, and the header even after sdsrange.
THEOREM SdsInductive == Spec => []StringInv
<1>1. Init => StringInv
  BY InitInv
<1>2. StringInv /\ [Next]_vars => StringInv'
  BY NextInv
<1> QED BY <1>1, <1>2, PTL DEF Spec

\* The fields of the header hold length and room, the room recorded is the room
\* there is and the length is within it, whatever types the string went through,
\* unless sdsupdatelen or sdscatfmt has computed with an int too small.
THEOREM SdsHeader == Spec => []HeaderOK
<1>1. StringInv => HeaderOK
  <2> SUFFICES ASSUME StringInv, narrowed \cap {"updatelen", "catfmt"} = {}
               PROVE  HeaderOK
    BY DEF HeaderOK
  <2>1. narrowed = {} \/ narrowed = {"range"}
    BY DEF StringInv
  <2>2. Good(s)
    BY <2>1 DEF StringInv, Intact
  <2>3. s.type \in Types /\ s.room \in Nat /\ s.len \in Nat
    BY <2>2 DEF Good, Headers
  <2> QED BY <2>2, <2>3 DEF Good, HeaderOK
<1> QED BY <1>1, SdsInductive, PTL

\* The string is the one its caller expects, within its memory, with its zero
\* byte outside sdscatfmt, unless one of the three functions has computed with
\* an int too small since the string was last overwritten.
THEOREM SdsContent == Spec => []ContentOK
<1>1. StringInv => ContentOK
  <2> SUFFICES ASSUME StringInv, narrowed = {}
               PROVE  ContentOK
    BY DEF ContentOK
  <2>0. Good(s) /\ Holds(s, text) /\ (~fmt => Terminated(s))
    BY DEF StringInv
  <2>1. s.len \in Nat /\ s.room \in Nat /\ s.len <= s.room /\ DOMAIN s.mem = 0..s.room
    BY <2>0 DEF Good, Headers
  <2>2. text \in Seq(Byte) /\ s.len = Len(text) /\ text \in [1..Len(text) -> Byte]
    BY <2>0, LenProperties DEF Holds
  <2>3. \A i \in 1..Len(text) : s.mem[0 + i - 1] = text[i]
    <3>1. ASSUME NEW i \in 1..Len(text) PROVE s.mem[0 + i - 1] = text[i]
      <4>1. 0 + i - 1 = i - 1
        OBVIOUS
      <4> QED BY <2>0, <4>1 DEF Holds
    <3> QED BY <3>1
  <2>4. Bytes(s, 0, s.len) = text
    BY <2>2, <2>3 DEF Bytes
  <2> QED BY <2>0, <2>1, <2>2, <2>4 DEF ContentOK, Terminated
<1> QED BY <1>1, SdsInductive, PTL
=============================================================================
