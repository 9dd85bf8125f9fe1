------------------------------- MODULE MCDaemon -------------------------------
(* Small instances of Daemon for TLC: see the README for the bounds. *)
EXTENDS Daemon
=============================================================================
