--------------------------------- MODULE Sds ---------------------------------
(***************************************************************************)
(* One dynamic string of src/sds.c and every sequence of calls on it: the  *)
(* header that changes its type as the string grows, the spare room, and   *)
(* the bytes. text is what the string should hold, built with sequences.   *)
(*                                                                         *)
(* The types 0..4 stand for SDS_TYPE_5, 8, 16, 32 and 64. A call whose     *)
(* allocation fails returns NULL and leaves the string as it was, which is *)
(* a stuttering step. Lengths are size_t, but sdsupdatelen, sdsrange and   *)
(* sdscatfmt keep them in an int: narrowed records that one of them was    *)
(* called on a string whose length does not fit. From then on the string   *)
(* is only overwritten or given up for a new one.                          *)
(***************************************************************************)
EXTENDS CInt, Sequences

CONSTANTS
    Limit,              \* Limit[t + 1]: sizes below it take type t, 32, 0xff ... in sds.c
    SDS_MAX_PREALLOC,   \* how much spare room is added to a large string
    Chars,              \* the bytes appended
    NUL, Junk,          \* the zero byte, and what fresh memory holds
    MaxLen,             \* bound on the length
    MaxAdd              \* bound on what one call appends

ASSUME LimitAssumption ==
    /\ Limit \in [1..4 -> Nat \ {0}]
    /\ \A t \in 1..3 : Limit[t] < Limit[t + 1]
\* The fields of type 3 are unsigned int, those of the types below narrower.
ASSUME IntAssumption == Limit[4] + 1 = IntWidth /\ Limit[3] <= IntMax + 1
ASSUME PreallocAssumption == SDS_MAX_PREALLOC \in Nat
ASSUME BoundAssumption == MaxLen \in Nat /\ MaxAdd \in Nat

VARIABLES
    s,          \* the header fields and the memory behind it, mem[0..room]
    text,       \* the string a caller expects
    fmt,        \* sdscatfmt is running
    narrowed    \* the functions that computed with an int too small for the length

vars == <<s, text, fmt, narrowed>>

Types == 0..4
Strings == UNION {[1..n -> Chars] : n \in 0..MaxAdd}

-----------------------------------------------------------------------------
(* The header *)

sdsReqType(n) ==
    IF n < Limit[1] THEN 0 ELSE IF n < Limit[2] THEN 1
    ELSE IF n < Limit[3] THEN 2 ELSE IF n < Limit[4] THEN 3 ELSE 4

\* What a header field of type t keeps of n: five bits, or a whole byte or word.
Fits(t, n) == t = 4 \/ n < Limit[t + 1]
Stored(t, n) ==
    IF Fits(t, n) THEN n ELSE n % (IF t = 0 THEN Limit[1] ELSE Limit[t + 1] + 1)

\* Type 5 has no field for the room.
sdsalloc(h) == IF h.type = 0 THEN h.len ELSE h.alloc
sdsavail(h) == sdsalloc(h) - h.len
sdssetlen(h, n) == [h EXCEPT !.len = Stored(h.type, n)]
sdssetalloc(h, n) == IF h.type = 0 THEN h ELSE [h EXCEPT !.alloc = Stored(h.type, n)]

\* memcpy, memmove and memset: bytes that fall outside the memory are lost.
Write(h, at, t) ==
    [h EXCEPT !.mem = [i \in DOMAIN @ |->
        IF at <= i /\ i < at + Len(t) THEN t[i - at + 1] ELSE @[i]]]
Bytes(h, from, n) == [i \in 1..n |-> h.mem[from + i - 1]]
Terminate(h, at) == Write(h, at, <<NUL>>)
Zeros(n) == [i \in 1..n |-> NUL]

\* realloc, or malloc, memcpy and free: room bytes and one for the zero byte.
Resized(h, type, room) ==
    sdssetalloc(
      [type |-> type, len |-> Stored(type, h.len), alloc |-> 0, room |-> room,
       mem |-> [i \in 0..room |-> IF i \in DOMAIN h.mem THEN h.mem[i] ELSE Junk]],
      room)

-----------------------------------------------------------------------------
(* Operations on a string *)

Fresh(type, n) ==
    [type |-> type, len |-> n, alloc |-> IF type = 0 THEN 0 ELSE n, room |-> n,
     mem |-> [i \in 0..n |-> Junk]]

sdsnewlen(t) ==
    LET n == Len(t)
        type == IF n = 0 THEN 1 ELSE sdsReqType(n)
    IN  Terminate(Write(Fresh(type, n), 0, t), n)

Grown(n) == IF n < SDS_MAX_PREALLOC THEN n * 2 ELSE n + SDS_MAX_PREALLOC

\* Faulty: the type is chosen before the spare room is added.
FaultyTypeFor(n) == IF sdsReqType(n \div 2) = 0 THEN 1 ELSE sdsReqType(n \div 2)
TypeFor(n) == IF sdsReqType(n) = 0 THEN 1 ELSE sdsReqType(n)

sdsMakeRoomFor(h, addlen) ==
    IF sdsavail(h) >= addlen THEN h
    ELSE Resized(h, TypeFor(Grown(h.len + addlen)), Grown(h.len + addlen))

sdsRemoveFreeSpace(h) == Resized(h, sdsReqType(h.len), h.len)

sdscatlen(h, t) ==
    LET n == h.len + Len(t)
    IN  Terminate(sdssetlen(Write(sdsMakeRoomFor(h, Len(t)), h.len, t), n), n)

sdscpylen(h, t) ==
    LET big == IF sdsalloc(h) < Len(t) THEN sdsMakeRoomFor(h, Len(t) - h.len) ELSE h
    IN  sdssetlen(Terminate(Write(big, 0, t), Len(t)), Len(t))

sdsgrowzero(h, n) ==
    IF n <= h.len THEN h
    ELSE sdssetlen(Write(sdsMakeRoomFor(h, n - h.len), h.len, Zeros(n - h.len + 1)), n)

sdsclear(h) == Terminate(sdssetlen(h, 0), 0)

\* sdsIncrLen under the condition it asserts.
IncrAsserted(h, incr) ==
    IF h.type = 0
      THEN (incr > 0 /\ h.len + incr < Limit[1]) \/ (incr < 0 /\ h.len >= -incr)
      ELSE (incr >= 0 /\ h.alloc - h.len >= incr) \/ (incr < 0 /\ h.len >= -incr)
sdsIncrLen(h, incr) == Terminate(sdssetlen(h, h.len + incr), h.len + incr)

\* Move n bytes from position from to the start and cut there.
Cut(h, from, n) == sdssetlen(Terminate(Write(h, 0, Bytes(h, from, n)), n), n)

\* sdsrange: negative indexes count from the end and are cut off at 0. The
\* sum, the length compared with and the last index are ints. (The overflow of
\* end - start + 1 with end = INT_MAX is harmless: end is then cut off.)
FromEnd(n, i) == IF i < 0 THEN (IF n + i < 0 THEN 0 ELSE n + i) ELSE i
IntFromEnd(n, i) ==
    IF i < 0 THEN (IF ToInt(n + i) < 0 THEN 0 ELSE ToInt(n + i)) ELSE i

sdsrange(h, start, end) ==
    LET n == h.len
        from == IntFromEnd(n, start)
        to == IntFromEnd(n, end)
        last == IF to >= ToInt(n) THEN ToInt(n - 1) ELSE to
        keep == IF from > to \/ from >= ToInt(n) \/ from > last THEN 0
                ELSE last - from + 1
    IN  IF n = 0 THEN h ELSE Cut(h, IF keep = 0 THEN 0 ELSE from, keep)

\* sdstrim: strchr also finds the zero byte that ends cset. sp is the first
\* byte to keep; ep goes down to the last one, but not below sp.
sdstrim(h, cset) ==
    LET Keeps == {i \in 0..(h.len - 1) : h.mem[i] \notin cset \cup {NUL}}
        sp == IF Keeps = {} THEN h.len
              ELSE CHOOSE i \in Keeps : \A j \in Keeps : i <= j
        ep == IF Keeps = {} THEN h.len - 1
              ELSE CHOOSE i \in Keeps : \A j \in Keeps : i >= j
    IN  Cut(h, IF sp > ep THEN 0 ELSE sp, IF sp > ep THEN 0 ELSE ep - sp + 1)

strlen(h) == CHOOSE n \in DOMAIN h.mem :
                h.mem[n] = NUL /\ \A i \in 0..(n - 1) : h.mem[i] # NUL
sdsupdatelen(h) == sdssetlen(h, ToSize(ToInt(strlen(h))))

\* One round of the loop of sdscatfmt: room for one byte, then for the piece,
\* written at the int position i, which counts what the length counts.
FaultyPieceRoom(h, t) == h
PieceRoom(h, t) == IF sdsavail(h) < Len(t) THEN sdsMakeRoomFor(h, Len(t)) ELSE h

sdscatfmtPiece(h, t) ==
    LET one == IF sdsavail(h) = 0 THEN sdsMakeRoomFor(h, 1) ELSE h
        big == PieceRoom(one, t)
    IN  sdssetlen(Write(big, ToInt(h.len), t), h.len + Len(t))

-----------------------------------------------------------------------------
(* The calls *)

Init == s = sdsnewlen(<< >>) /\ text = << >> /\ fmt = FALSE /\ narrowed = {}

\* f is recorded when it computes with an int that does not hold the length.
Narrows(f, wide) == narrowed' = IF wide THEN {f} ELSE {}

Returns(h, t) == ~fmt /\ Len(t) <= MaxLen /\ s' = h /\ text' = t /\ UNCHANGED fmt
Call(h, t) == narrowed = {} /\ Returns(h, t) /\ UNCHANGED narrowed
Overwrites(h, t) == narrowed \subseteq {"range"} /\ Returns(h, t) /\ narrowed' = {}

new(t) ==
    /\ Len(t) <= MaxLen /\ (fmt => narrowed # {})
    /\ s' = sdsnewlen(t) /\ text' = t /\ fmt' = FALSE /\ narrowed' = {}
cat(t) == Call(sdscatlen(s, t), text \o t)
copy(t) == Overwrites(sdscpylen(s, t), t)
growzero(n) ==
    Call(sdsgrowzero(s, n), IF n <= Len(text) THEN text ELSE text \o Zeros(n - Len(text)))
clear == Overwrites(sdsclear(s), << >>)
shrink == Call(sdsRemoveFreeSpace(s), text)
reserve(n) == Call(sdsMakeRoomFor(s, n), text)

\* The scheme of the comment on sdsIncrLen: make room for n bytes, read t into
\* it, tell the string. It asserts, so the call is only made when it holds.
readInto(n, t) ==
    /\ n > 0 /\ Len(t) <= n /\ n <= IntMax
    /\ LET big == sdsMakeRoomFor(s, n) IN
         Call(sdsIncrLen(Write(big, big.len, t), Len(t)), text \o t)

cutRight(n) ==
    /\ n \in 1..IntMax /\ IncrAsserted(s, -n)
    /\ Call(sdsIncrLen(s, -n), SubSeq(text, 1, Len(text) - n))

range(start, end) ==
    LET last == IF FromEnd(Len(text), end) >= Len(text)
                  THEN Len(text) ELSE FromEnd(Len(text), end) + 1
    IN  /\ narrowed = {} /\ Narrows("range", Len(text) > IntMax)
        /\ Returns(sdsrange(s, start, end), SubSeq(text, FromEnd(Len(text), start) + 1, last))

trim(cset) ==
    LET Keeps == {i \in DOMAIN text : text[i] \notin cset \cup {NUL}}
    IN  \/ Keeps = {} /\ Call(sdstrim(s, cset), << >>)
        \/ \E i, j \in Keeps : /\ \A k \in Keeps : i <= k /\ k <= j
                               /\ Call(sdstrim(s, cset), SubSeq(text, i, j))

\* The caller writes a zero byte into the string and calls sdsupdatelen. The
\* fields of type 3 take a negative int for the length that it was.
updatelen(n) ==
    /\ n < Len(text) /\ \A i \in 1..n : text[i] # NUL
    /\ narrowed = {} /\ Narrows("updatelen", n > IntMax /\ s.type = 4)
    /\ Returns(sdsupdatelen(Terminate(s, n)), SubSeq(text, 1, n))

\* sdscatfmt, piece by piece; the zero byte is written at the end. Beyond
\* INT_MAX both are written before the string, or over another part of it.
catfmtPiece(t) ==
    /\ t # << >> /\ Len(text) + Len(t) <= MaxLen
    /\ narrowed = {} /\ Narrows("catfmt", Len(text) > IntMax)
    /\ s' = sdscatfmtPiece(s, t) /\ text' = text \o t /\ fmt' = TRUE
catfmtEnd ==
    /\ fmt /\ narrowed = {} /\ Narrows("catfmt", Len(text) > IntMax)
    /\ s' = Terminate(s, ToInt(s.len)) /\ fmt' = FALSE /\ UNCHANGED text

Next ==
    \/ \E t \in Strings : new(t) \/ cat(t) \/ copy(t) \/ catfmtPiece(t)
    \/ \E n \in 1..MaxAdd, t \in Strings : readInto(n, t)
    \/ \E n \in 0..MaxLen : growzero(n) \/ cutRight(n) \/ updatelen(n) \/ reserve(n)
    \/ \E i, j \in -(IntMax + 1)..IntMax : range(i, j)
    \/ \E c \in SUBSET Chars : trim(c)
    \/ clear \/ shrink \/ catfmtEnd

Spec == Init /\ [][Next]_vars

-----------------------------------------------------------------------------
(* Properties *)

\* Whatever the order of the calls, the header describes the memory behind it:
\* length and room fit into the fields of its type, the room recorded is the
\* room there is, and the length is within it. The exceptions: sdsupdatelen
\* with more than INT_MAX bytes before the zero byte under a header of 64 bits,
\* and sdscatfmt at a position beyond INT_MAX.
HeaderOK ==
    \/ narrowed \cap {"updatelen", "catfmt"} # {}
    \/ /\ s.type \in Types /\ s.room \in Nat /\ s.len \in 0..s.room
       /\ DOMAIN s.mem = 0..s.room
       /\ Fits(s.type, s.len)
       /\ s.type # 0 => s.alloc = s.room /\ Fits(s.type, s.room)

\* The string lies within its memory, holds the bytes a caller expects and,
\* outside sdscatfmt, is terminated by a zero byte, up to the first sdsrange or
\* sdscatfmt on more than INT_MAX bytes, or sdsupdatelen as above; and again
\* from the call that overwrites the string.
ContentOK ==
    \/ narrowed # {}
    \/ /\ s.len \in DOMAIN s.mem
       /\ s.len = Len(text) /\ Bytes(s, 0, s.len) = text
       /\ ~fmt => s.mem[s.len] = NUL
=============================================================================
