-------------------------- MODULE MCScheduleTicker --------------------------
(* ScheduleTicker on small instances. *)
EXTENDS ScheduleTicker, TLC

\* Replicas, and schedules, differ only by name.
Symmetry == Permutations(Replicas) \cup Permutations(Schedules)
=============================================================================
