------------------------------ MODULE MCPipeline ------------------------------
(* Small instances of Pipeline for TLC: see the README for the bounds. *)
EXTENDS Pipeline, TLC

\* The handles are interchangeable; only the runs without liveness use it.
HandleSymmetry == Permutations(Handles)
=============================================================================
