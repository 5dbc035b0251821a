---------------------------- MODULE MCChatTurns -----------------------------
(* ChatTurns on small instances. *)
EXTENDS ChatTurns, TLC

\* Turns differ only by name.
Symmetry == Permutations(Turns)
=============================================================================
