---- MODULE MCBlockQueue ----
(* BlockQueue for TLC: items are alike, and so are consumers without timeout. *)
EXTENDS BlockQueue, TLC

QueueSymmetry == Permutations(Items) \cup Permutations(Consumers \ Timed)
====
