------------------------------ MODULE MCAeLoop ------------------------------
(* The event loop for TLC: handlers are interchangeable. *)
EXTENDS AeLoop, TLC

HandlerSymmetry == Permutations(Procs)
==============================================================================
