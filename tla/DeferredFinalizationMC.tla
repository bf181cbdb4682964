----------------------- MODULE DeferredFinalizationMC -----------------------
(* Instances of DeferredFinalization for TLC. *)
EXTENDS DeferredFinalization, TLC

CONSTANTS w1, w2, c1, c2, work1, work2, fin1, fin2

ThreadSymmetry == Permutations(Workers) \cup Permutations(Clients)
=============================================================================
