------------------------------- MODULE MCClient -------------------------------
(* Small instances of Client for TLC: see the README for the bounds. *)
EXTENDS Client
=============================================================================
