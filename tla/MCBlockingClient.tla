---- MODULE MCBlockingClient ----
EXTENDS BlockingClient
Ask(format, args) == [vector |-> FALSE, format |-> format, args |-> args]
\* A blank inside a value, an empty value, a value of ten bytes, one that is
\* not valid.
MCRequests == {Ask(<<" ", "%b", " ", "%d", "%%", " ">>, << <<>>, [i \in 1..9 |-> " "] >>),
               [vector |-> TRUE, format |-> << >>, args |-> << <<"g">> >>],
               Ask(<<"%?">>, << >>)}
\* What the theorem on CommandsIntact asks of every single request.
ASSUME RequestsFormatRight == \A q \in MCRequests : FormatsRight(q)
Arr(n) == Object("array", << >>, n)
Bulky == << >> :> Object("string", <<"CR", "LF">>, 0)
Nested == << >> :> Arr(3) @@ <<0>> :> Arr(2)
          @@ <<0, 0>> :> Object("nil", << >>, 0) @@ <<0, 1>> :> Arr(0)
          @@ <<1>> :> Object("integer", << >>, 10)
          @@ <<2>> :> Object("status", <<"CR", "x">>, 0)
TooDeep == << >> :> Arr(1) @@ <<0>> :> Arr(1) @@ <<0, 0>> :> Arr(1) @@ <<0, 0, 0>> :> Arr(0)
\* Line breaks inside a string, half of one inside a status, arrays within arrays, one nested too deep.
MCAnswers == {Bulky, Nested, TooDeep}
MCKinds == {redisConnect, redisConnectUnix, redisConnectBindNonBlockWithReuse}
\* Two commands in the pipeline of redisConnect.
MCMaxCmds == [k \in MCKinds |-> IF k = redisConnect THEN 2 ELSE 1]
FdSymmetry == Permutations(Fds)
====
