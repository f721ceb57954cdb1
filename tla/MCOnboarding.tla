--------------------------- MODULE MCOnboarding ---------------------------
(* Instance of Onboarding for TLC. *)
EXTENDS Onboarding, TLC

\* The name of the long application is cut to that of the other one.
MCBase == [orders |-> "orders", ordersLong |-> "orders"]

Symmetry == Permutations(Requests) \cup Permutations(Suffixes)
===========================================================================
