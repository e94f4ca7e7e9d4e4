---- MODULE MCAsyncContext ----
EXTENDS AsyncContext
\* Two channels that share a bucket of a table of size 1 or 2.
MCTopics == {<<FALSE, 0>>, <<FALSE, 2>>}
\* A third command on one adapter of each kind of dispatch: the handlers one by
\* one, and both at once.
MCMaxCmds == [a \in Adapters |-> IF a \in {ae, glib} THEN 3 ELSE 2]
====
