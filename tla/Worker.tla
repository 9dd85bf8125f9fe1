-------------------------------- MODULE Worker --------------------------------
(***************************************************************************)
(* What main relies on when it kills a goroutine and waits for its death:  *)
(* the goroutine lives until it is told to die, and then reports its death *)
(* once, as the last thing it does.  daemon.go's managers are such workers *)
(* (Pipeline).                                                             *)
(***************************************************************************)
EXTENDS Naturals

VARIABLES
  told,    \* somebody has killed it
  alive,   \* it has not returned
  reports  \* deaths it has reported

worker == <<told, alive, reports>>

WorkerInit == told = FALSE /\ alive = TRUE /\ reports = 0

Tell == ~told /\ told' = TRUE /\ UNCHANGED <<alive, reports>>

Report ==
  /\ told /\ alive /\ alive' = FALSE
  /\ reports' = reports + 1 /\ UNCHANGED told

WorkerSpec == WorkerInit /\ [][Tell \/ Report]_worker
=============================================================================
