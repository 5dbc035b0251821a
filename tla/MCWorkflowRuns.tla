--------------------------- MODULE MCWorkflowRuns ---------------------------
(* WorkflowRuns on small instances. *)
EXTENDS WorkflowRuns, TLC

\* Runs differ only by name.
RunSymmetry == Permutations(Runs)

\* Texts are only compared for equality.
TextSymmetry == Permutations(Text)

Symmetry == RunSymmetry \cup TextSymmetry
=============================================================================
