---------------------------- MODULE EventAdapters ----------------------------
(***************************************************************************)
(* The adapters of src/adapters as operators on the state an adapter shares *)
(* with its event library: events, the interest the adapter remembers, and *)
(* armed, what the library will report. "read" and "write" are the events. *)
(*                                                                         *)
(* An adapter is described by                                              *)
(*   style   how addRead, delRead, addWrite, delWrite work: "flag" calls   *)
(*           the library only when its flag changes, "call" always calls,  *)
(*           "mask" changes a mask that replaces the library's             *)
(*   attach  what its attach function arms                                 *)
(*   once    the events the library disarms when it reports them           *)
(*   order   the handlers of one dispatch: a library either reports one    *)
(*           event at a time or both at once, in this order                *)
(*   checks  between two handlers the adapter or its library makes sure    *)
(*           that the context was not freed                                *)
(***************************************************************************)
EXTENDS Naturals, Sequences, SequencesExt

ReadWrite == {"read", "write"}

ae == [style |-> "flag", attach |-> {}, once |-> {},
       order |-> <<"read", "write">>, checks |-> TRUE]
libev == [style |-> "flag", attach |-> {}, once |-> {},
          order |-> <<"read", "write">>, checks |-> TRUE]
qt == [style |-> "flag", attach |-> {}, once |-> {},
       order |-> <<"read", "write">>, checks |-> TRUE]
\* event_new without EV_PERSIST: an event is reported once.
libevent == [style |-> "call", attach |-> ReadWrite, once |-> ReadWrite,
             order |-> <<"read", "write">>, checks |-> TRUE]
ivykis == [style |-> "call", attach |-> ReadWrite, once |-> {},
           order |-> <<"read", "write">>, checks |-> TRUE]
\* A CFSocket re-enables the read callback by itself, the write callback not.
macosx == [style |-> "call", attach |-> ReadWrite, once |-> {"write"},
           order |-> <<"read", "write">>, checks |-> TRUE]
\* redisLibuvPoll looks at p->context before each handler.
libuv == [style |-> "mask", attach |-> {}, once |-> {},
          order |-> <<"read", "write">>, checks |-> TRUE]
\* redis_source_dispatch calls both handlers without a look at redis->ac.
glib == [style |-> "mask", attach |-> {}, once |-> {},
         order |-> <<"write", "read">>, checks |-> FALSE]

Adapters == {ae, libev, qt, libevent, ivykis, macosx, libuv, glib}

Attach(a) == [events |-> {}, armed |-> a.attach]

\* addRead and addWrite.
Add(a, ev, what) ==
    CASE a.style = "flag" /\ what \in ev.events -> ev
      [] a.style = "mask" -> [events |-> ev.events \cup {what},
                              armed |-> ev.events \cup {what}]
      [] OTHER -> [events |-> ev.events \cup {what}, armed |-> ev.armed \cup {what}]

\* delRead and delWrite.
Del(a, ev, what) ==
    CASE a.style = "flag" /\ what \notin ev.events -> ev
      [] a.style = "mask" -> [events |-> ev.events \ {what}, armed |-> ev.events \ {what}]
      [] OTHER -> [events |-> ev.events \ {what}, armed |-> ev.armed \ {what}]

Cleanup(a, ev) == [events |-> {}, armed |-> {}]

\* The library reports these events.
Fire(a, ev, fired) == [ev EXCEPT !.armed = @ \ (fired \cap a.once)]

\* The handlers of one dispatch: one event, or both in the adapter's order.
Handlers(a, fired) ==
    IF fired = ReadWrite THEN a.order ELSE <<CHOOSE what \in fired : TRUE>>
=============================================================================
