----------------------------- MODULE RedisReader -----------------------------
(***************************************************************************)
(* The incremental reply parser of src/read.c, with the default functions  *)
(* of src/hiredis.c that build reply objects, as operators on a reader.    *)
(*                                                                         *)
(* Bytes are strings, "CR" and "LF" among them. The reply under            *)
(* construction is a function from paths to objects: the empty path is the *)
(* root, and the object at path p is element p[n] of the one at its front. *)
(* rstack holds the tasks 0..ridx, and the path of the current one follows *)
(* from their idx. luck says how many allocations of objects will succeed. *)
(***************************************************************************)
EXTENDS Integers, Sequences, SequencesExt, FiniteSetsExt, TLC

CONSTANTS
    MaxDepth,       \* the ridx at which nested arrays are refused, 8 in read.c
    DiscardAt       \* bytes consumed before the buffer is cut, 1024 in read.c

\* redisReaderCreate.
redisReaderCreate ==
    [buf |-> << >>, pos |-> 0, rstack |-> << >>, reply |-> << >>, err |-> "none",
     luck |-> 0, go |-> TRUE]

\* __redisReaderSetError: the reply built so far and the input are gone.
SetError(r, error) ==
    [r EXCEPT !.reply = << >>, !.buf = << >>, !.pos = 0, !.rstack = << >>,
              !.err = error, !.go = FALSE]

NeedMore(r) == [r EXCEPT !.go = FALSE]

-----------------------------------------------------------------------------
(* Bytes *)

Rest(r) == SubSeq(r.buf, r.pos + 1, Len(r.buf))

\* seekNewline: the bytes before the first CR that is followed by LF, -1 when
\* there is none. Faulty: the byte after CR is not looked at.
FaultyNewlineAt(b, i) == b[i] = "CR"
NewlineAt(b, i) == b[i] = "CR" /\ b[i + 1] = "LF"

seekNewline(b) ==
    LET hits == {i \in 1..(Len(b) - 1) : NewlineAt(b, i)}
    IN  IF hits = {} THEN -1 ELSE Min(hits) - 1

Digits == <<"0", "1", "2", "3", "4", "5", "6", "7", "8", "9">>
DigitOf(c) == (CHOOSE i \in 1..10 : Digits[i] = c) - 1

\* readLongLong, which takes anything unexpected for -1.
readLongLong(b) ==
    LET signed == b # << >> /\ b[1] \in {"-", "+"}
        d == IF signed THEN Tail(b) ELSE b
        v == FoldLeft(LAMBDA sum, c : sum * 10 + DigitOf(c), 0, d)
    IN  IF ~(ToSet(d) \subseteq ToSet(Digits)) THEN -1
        ELSE IF signed /\ b[1] = "-" THEN -v ELSE v

-----------------------------------------------------------------------------
(* Tasks and objects *)

Task(idx) == [type |-> "none", elements |-> -1, idx |-> idx]

\* moveToNextTask: leave every array whose last element was read.
moveToNextTask(st) ==
    LET unfinished == {i \in 2..Len(st) : st[i].idx # st[i - 1].elements - 1}
        k == Max(unfinished)
    IN  IF unfinished = {} THEN << >>
        ELSE Append(SubSeq(st, 1, k - 1), Task(st[k].idx + 1))

Object(type, str, num) == [type |-> type, str |-> str, num |-> num]

\* The create functions: the object becomes the root or an element of its
\* parent, r.pos moves on; without memory the reader fails.
Path(st) == [i \in 1..(Len(st) - 1) |-> st[i + 1].idx]
Create(r, obj, used, next) ==
    IF r.luck = 0 THEN SetError(r, "OOM")
    ELSE [r EXCEPT !.luck = @ - 1, !.pos = @ + used, !.rstack = next,
                   !.reply = @ @@ (Path(r.rstack) :> obj)]

CurType(r) == Last(r.rstack).type

processLineItem(r) ==
    LET b == Rest(r)
        n == seekNewline(b)
        line == SubSeq(b, 1, n)
        obj == IF CurType(r) = "integer" THEN Object("integer", << >>, readLongLong(line))
               ELSE Object(CurType(r), line, 0)
    IN  IF n = -1 THEN NeedMore(r)
        ELSE Create(r, obj, n + 2, moveToNextTask(r.rstack))

\* A bulk string is taken when all of it and its CR LF are there.
BulkComplete(b, n, len) == n + 2 + len + 2 <= Len(b)

processBulkItem(r) ==
    LET b == Rest(r)
        n == seekNewline(b)
        len == readLongLong(SubSeq(b, 1, n))
        next == moveToNextTask(r.rstack)
    IN  IF n = -1 THEN NeedMore(r)
        ELSE IF len < 0 THEN Create(r, Object("nil", << >>, 0), n + 2, next)
        ELSE IF ~BulkComplete(b, n, len) THEN NeedMore(r)
        ELSE Create(r, Object("string", SubSeq(b, n + 3, n + 2 + len), 0), n + len + 4, next)

processMultiBulkItem(r) ==
    LET b == Rest(r)
        n == seekNewline(b)
        elements == readLongLong(SubSeq(b, 1, n))
        st == r.rstack
        deeper == Append([st EXCEPT ![Len(st)].elements = elements], Task(0))
    IN  IF Len(st) - 1 = MaxDepth THEN SetError(r, "PROTOCOL")
        ELSE IF n = -1 THEN NeedMore(r)
        ELSE IF elements = -1
               THEN Create(r, Object("nil", << >>, 0), n + 2, moveToNextTask(st))
        ELSE Create(r, Object("array", << >>, elements), n + 2,
                    IF elements > 0 THEN deeper ELSE moveToNextTask(st))

TypeOf == [x \in {"-", "+", ":", "$", "*"} |->
             CASE x = "-" -> "error" [] x = "+" -> "status" [] x = ":" -> "integer"
               [] x = "$" -> "string" [] x = "*" -> "array"]

processTyped(r) ==
    CASE CurType(r) = "string" -> processBulkItem(r)
      [] CurType(r) = "array" -> processMultiBulkItem(r)
      [] OTHER -> processLineItem(r)

\* The type byte is consumed once, however often the item is tried again.
processItem(r) ==
    LET b == Rest(r)
        typed == [r EXCEPT !.pos = @ + 1, !.rstack[Len(r.rstack)].type = TypeOf[b[1]]]
    IN  IF CurType(r) # "none" THEN processTyped(r)
        ELSE IF b = << >> THEN NeedMore(r)
        ELSE IF b[1] \notin DOMAIN TypeOf THEN SetError(r, "PROTOCOL")
        ELSE processTyped(typed)

\* An item that does not end the loop consumes two bytes or more, so no more of
\* them are tried than there are bytes.
processItems(r) ==
    LET after[n \in 0..Len(r.buf)] ==
          IF n = 0 THEN r
          ELSE LET p == after[n - 1]
               IN  IF p.rstack = << >> \/ ~p.go THEN p ELSE processItem(p)
    IN  after[Len(r.buf)]

-----------------------------------------------------------------------------
(* The interface *)

redisReaderFeed(r, bytes) == [r EXCEPT !.buf = @ \o bytes]

\* Consumed input is dropped.
Discarded(r) ==
    IF r.pos >= DiscardAt THEN [r EXCEPT !.buf = Rest(r), !.pos = 0] ELSE r

\* The reader after the items, of which luck objects can be allocated. A task for
\* the root is set when there is none.
Parsed(r, luck) ==
    LET start == IF r.rstack = << >> THEN <<Task(-1)>> ELSE r.rstack
    IN  processItems([r EXCEPT !.rstack = start, !.luck = luck, !.go = TRUE])

\* redisReaderGetReply: the reader afterwards, and the reply it gave or the
\* empty function; done is the reader after the items.
redisReaderGetReply(r, done) ==
    LET kept == [Discarded(done) EXCEPT !.luck = 0, !.go = TRUE] IN
    IF r.err # "none" \/ r.buf = << >> THEN [r |-> r, reply |-> << >>]
    ELSE IF done.err # "none"
           THEN [r |-> [done EXCEPT !.luck = 0, !.go = TRUE], reply |-> << >>]
    ELSE IF kept.rstack # << >> THEN [r |-> kept, reply |-> << >>]
    ELSE [r |-> [kept EXCEPT !.reply = << >>], reply |-> kept.reply]
=============================================================================
