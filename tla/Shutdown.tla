------------------------------- MODULE Shutdown -------------------------------
(***************************************************************************)
(* What the daemon's shutdown is to those who look at it from outside: the *)
(* workers are killed one after the other, in a fixed order, a worker dies *)
(* only once it is killed, and main returns only over dead workers, as the *)
(* last thing that happens.  Daemon implements it.                         *)
(***************************************************************************)
EXTENDS Naturals

CONSTANT Count  \* how many workers there are; they are killed in order

VARIABLES
  killed,   \* how many have been killed
  dead,     \* those that have died
  returned  \* main has returned

shutdown == <<killed, dead, returned>>

ShutdownInit == killed = 0 /\ dead = {} /\ returned = FALSE

Kill == killed < Count /\ killed' = killed + 1 /\ UNCHANGED <<dead, returned>>

Die(w) ==
  /\ w \in (1..killed) \ dead /\ ~returned
  /\ dead' = dead \cup {w} /\ UNCHANGED <<killed, returned>>

Return == dead = 1..Count /\ ~returned /\ returned' = TRUE /\ UNCHANGED <<killed, dead>>

ShutdownNext == Kill \/ Return \/ \E w \in 1..Count : Die(w)

ShutdownSpec == ShutdownInit /\ [][ShutdownNext]_shutdown
=============================================================================
