----------------------------- MODULE RedisFormat -----------------------------
(***************************************************************************)
(* How src/hiredis.c turns a format and its arguments, or a vector of      *)
(* arguments, into a command of the protocol. A format is a sequence of    *)
(* bytes and conversions: "%s" and "%b" (an argument as it is), "%d" (any  *)
(* printf conversion, the argument being the text it produces), "%%", and  *)
(* "%?" (a conversion that is not valid).                                  *)
(***************************************************************************)
EXTENDS Integers, Sequences, SequencesExt, FiniteSetsExt

Conversions == {"%s", "%b", "%d"}
CRLF == <<"CR", "LF">>

DigitNames == <<"0", "1", "2", "3", "4", "5", "6", "7", "8", "9">>

\* sdsll2str, sdsull2str and sprintf: the decimal digits of a number.
Decimal[n \in Nat] ==
    IF n < 10 THEN <<DigitNames[n + 1]>>
    ELSE Decimal[n \div 10] \o <<DigitNames[(n % 10) + 1]>>

DigitSteps[v \in Nat] ==
    IF v < 10 THEN 1 ELSE IF v < 100 THEN 2 ELSE IF v < 1000 THEN 3
    ELSE IF v < 10000 THEN 4 ELSE 4 + DigitSteps[v \div 10000]
countDigits(v) == DigitSteps[v]

bulklen(len) == 1 + countDigits(len) + 2 + len + 2

-----------------------------------------------------------------------------
(* redisvFormatCommand *)

\* The loop over the format: argv so far, the argument under construction and
\* whether it was touched, the arguments not yet used.
EndArgument(f) ==
    IF f.touched
      THEN [f EXCEPT !.argv = Append(@, f.curarg), !.curarg = << >>, !.touched = FALSE,
                     !.totlen = @ + bulklen(Len(f.curarg))]
      ELSE f

Appended(f, bytes) == [f EXCEPT !.curarg = @ \o bytes, !.touched = TRUE]

\* An argument that is empty counts as touched.
Interpolated(f) == [Appended(f, Head(f.args)) EXCEPT !.args = Tail(@)]

FormatStep(f, token) ==
    IF f.invalid THEN f
    ELSE CASE token = " " -> EndArgument(f)
           [] token \in Conversions -> Interpolated(f)
           [] token = "%%" -> Appended(f, <<"%">>)
           [] token = "%?" -> [f EXCEPT !.invalid = TRUE]
           [] OTHER -> Appended(f, <<token>>)

Bulk(arg) == <<"$">> \o Decimal[Len(arg)] \o CRLF \o arg \o CRLF

\* The command at protocol level, of which totlen was computed beforehand.
Command(argv) ==
    <<"*">> \o Decimal[Len(argv)] \o CRLF \o FlattenSeq([i \in DOMAIN argv |-> Bulk(argv[i])])

redisvFormatCommand(format, args) ==
    LET f == EndArgument(FoldLeft(FormatStep,
               [argv |-> << >>, curarg |-> << >>, touched |-> FALSE, args |-> args,
                totlen |-> 0, invalid |-> FALSE], format))
    IN  [cmd |-> IF f.invalid THEN << >> ELSE Command(f.argv), invalid |-> f.invalid,
         totlen |-> f.totlen + 1 + countDigits(Len(f.argv)) + 2]

\* redisFormatSdsCommandArgv and redisFormatCommandArgv.
redisFormatCommandArgv(argv) ==
    [cmd |-> Command(argv), invalid |-> FALSE,
     totlen |-> 1 + countDigits(Len(argv)) + 2
                + FoldLeft(LAMBDA sum, arg : sum + bulklen(Len(arg)), 0, argv)]

-----------------------------------------------------------------------------
(* The reference: an argument is what stands between blanks of the format, *)
(* whatever the values interpolated into it contain.                       *)

Words(format) ==
    LET Solid(a, b) == \A i \in a..b : format[i] # " "
        Ends(i) == i \in {0, Len(format) + 1} \/ format[i] = " "
        W == {w \in (1..Len(format)) \X (1..Len(format)) :
                w[1] <= w[2] /\ Solid(w[1], w[2]) /\ Ends(w[1] - 1) /\ Ends(w[2] + 1)}
    IN  SetToSortSeq(W, LAMBDA v, w : v[1] < w[1])

ExpectedArgv(format, args) ==
    LET Nth(i) == Cardinality({j \in 1..i : format[j] \in Conversions})
        Piece(i) == IF format[i] \in Conversions THEN args[Nth(i)]
                    ELSE IF format[i] = "%%" THEN <<"%">> ELSE <<format[i]>>
        Word(w) == FlattenSeq([k \in 1..(w[2] - w[1] + 1) |-> Piece(w[1] + k - 1)])
    IN  [n \in DOMAIN Words(format) |-> Word(Words(format)[n])]
=============================================================================
