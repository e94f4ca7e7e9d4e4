---------------------------- MODULE RequestReply ----------------------------
(***************************************************************************)
(* What a multiplexed connection promises to the threads that share it,    *)
(* whatever happens between them and the server: a call sends its command  *)
(* to the server at most once, never before it was made, and returns       *)
(* either NULL or the reply the server gave to that very command.  A call  *)
(* made on a connection that is down is rejected and never sent.           *)
(*                                                                         *)
(* The contract is read off xRedisCommand (hiredis.c:1829-1916): a call    *)
(* that has returned NULL may still be executed later, because a command   *)
(* that was already handed to the socket is not recalled on a timeout.     *)
(***************************************************************************)
EXTENDS Sequences, SequencesExt

CONSTANTS
    Callers,    \* threads, each making one call
    NULL        \* the value returned when there is no reply

VARIABLES
    phase,      \* per caller: "idle", "called", "returned" or "rejected"
    result,     \* per caller: NULL, or the caller whose reply was returned
    executed    \* the commands in the order in which the server executed them

vars == <<phase, result, executed>>

Init ==
    /\ phase = [c \in Callers |-> "idle"]
    /\ result = [c \in Callers |-> NULL]
    /\ executed = <<>>

Invoke(c) ==
    /\ phase[c] = "idle"
    /\ phase' = [phase EXCEPT ![c] = "called"]
    /\ UNCHANGED <<result, executed>>

\* The call fails before its command is queued: it will never be executed.
Reject(c) ==
    /\ phase[c] \in {"idle", "called"}
    /\ ~Contains(executed, c)
    /\ phase' = [phase EXCEPT ![c] = "rejected"]
    /\ UNCHANGED <<result, executed>>

Execute(c) ==
    /\ phase[c] \in {"called", "returned"}
    /\ ~Contains(executed, c)
    /\ executed' = Append(executed, c)
    /\ UNCHANGED <<phase, result>>

Return(c) ==
    /\ phase[c] = "called"
    /\ phase' = [phase EXCEPT ![c] = "returned"]
    /\ \/ result' = result
       \/ /\ Contains(executed, c)
          /\ result' = [result EXCEPT ![c] = c]
    /\ UNCHANGED executed

Next ==
    \E c \in Callers : Invoke(c) \/ Reject(c) \/ Execute(c) \/ Return(c)

Spec == Init /\ [][Next]_vars
=============================================================================
