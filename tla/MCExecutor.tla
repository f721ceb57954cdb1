---------------------------- MODULE MCExecutor ----------------------------
(***************************************************************************)
(* Instances of Executor for TLC.                                          *)
(***************************************************************************)
EXTENDS Executor, TLC

\* Replicas are alike, and so are the goroutine slots of a replica and the
\* charts of the registry.
Symmetry == Permutations(Replicas) \cup Permutations(Slots) \cup Permutations(Charts)
===========================================================================
