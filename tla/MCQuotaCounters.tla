--------------------------- MODULE MCQuotaCounters --------------------------
(* QuotaCounters on small instances. *)
EXTENDS QuotaCounters, TLC

CONSTANTS own, all

\* A policy for a user and one for everybody, both per day; the callers are this
\* user.
MCSlot == [p \in Policies |-> "daily"]

MCClock == [p \in Policies |-> "day"]

MCRank == [p \in Policies |-> IF p = own THEN 0 ELSE 2]

MCCovers == [p \in Policies |-> Callers]

\* Turns differ only by name.
Symmetry == Permutations(Turns)
=============================================================================
