------------------------------ MODULE MCUserConn ------------------------------
(* Small instances of UserConn for TLC: see the README for the bounds. *)
EXTENDS UserConn
=============================================================================
