-------------------------------- MODULE Daemon --------------------------------
(***************************************************************************)
(* The whole daemon process: the connection (Client) and the event         *)
(* pipeline (Pipeline) over the channels they share, and main from the     *)
(* interrupt to its return.  A panic or main's return stops every          *)
(* goroutine.                                                              *)
(***************************************************************************)
EXTENDS Client, Pipeline

VARIABLES
  deadcount,  \* main's count of the goroutines it still waits for
  returned    \* main has returned

mainLoopVars == <<deadcount, returned>>
daemonVars == <<clientVars, pipelineVars, mainLoopVars>>

DaemonInit == ClientInit /\ PipelineInit /\ deadcount = 0 /\ returned = FALSE

Running == Alive /\ ~returned

-----------------------------------------------------------------------------
(* Steps of one side, and the sends that join the two                      *)

InClient == UNCHANGED <<pipelineVars, mainLoopVars>>
InPipeline == UNCHANGED <<clientVars, mainLoopVars>>

DaemonLoop == LoopStep /\ InClient

DaemonReader(c) == ReaderStep(c) /\ InClient

\* The decode and token goroutines block while the channel is full.
DaemonDelivers(c) ==
  /\ \/ AuthToken(c) /\ PutToken
     \/ ReaderState(c) /\ PutState
     \/ ReaderSignal(c) /\ PutSignal
  /\ UNCHANGED mainLoopVars

DaemonSm == Sm /\ InPipeline
DaemonLm == Lm /\ InPipeline
DaemonCap(h) == CapStep(h) /\ InPipeline
DaemonPacket(h) == (\E b \in BOOLEAN : CapPacket(h, b)) /\ InPipeline

-----------------------------------------------------------------------------
(* main                                                                    *)

\* kill <- 1; deadcount++
MainKillsLoop ==
  /\ KillLoop /\ deadcount' = deadcount + 1
  /\ UNCHANGED <<pipelineVars, returned>>

\* stateManager.kill <- 1; deadcount++
MainKillsSm ==
  /\ mainPc = "target" /\ deadcount = 1
  /\ KillSm /\ deadcount' = deadcount + 1
  /\ UNCHANGED <<clientVars, returned>>

\* MUTANT: the deadcount++ after localManager.kill is missing.
MainKillsLmUncounted ==
  /\ mainPc = "target" /\ deadcount = 2 /\ lmKill = 0
  /\ KillLm /\ UNCHANGED <<clientVars, mainLoopVars>>

\* localManager.kill <- 1; deadcount++
MainKillsLm ==
  /\ mainPc = "target" /\ deadcount = 2
  /\ KillLm /\ deadcount' = deadcount + 1
  /\ UNCHANGED <<clientVars, returned>>

\* client.kill <- err, in two steps: the client is read, then sent to.
MainKillsClient ==
  /\ \/ MainTarget /\ deadcount = 3
     \/ MainSend
  /\ InClient

SmReaped == smDead > 0 /\ smDead' = smDead - 1 /\ UNCHANGED <<lmDead, loopDead>>
LmReaped == lmDead > 0 /\ lmDead' = lmDead - 1 /\ UNCHANGED <<smDead, loopDead>>
LoopReaped == loopDead > 0 /\ loopDead' = loopDead - 1 /\ UNCHANGED <<smDead, lmDead>>

\* Only main's count and the channel it received from change.
ReapFrame ==
  UNCHANGED <<returned, loopPc, loopKill, client, created, out, kill, conn, exit, rdr,
              auth, mainVars, panic, smPc, smKill, xboxes, handled, lmPc, lmKill,
              bcastHandle, children, serverVars, clientChans, capVars, remoteChan,
              newXboxChan, lmXboxes, killChildren>>

\* MUTANT: the channel is drained without deadcount--.
MainReapsUncounted ==
  /\ mainPc = "sent" /\ (SmReaped \/ LmReaped \/ LoopReaped)
  /\ ReapFrame /\ UNCHANGED deadcount

\* MUTANT: the three receives stand one after the other instead of in a select.
MainReapsInOrder ==
  /\ mainPc = "sent"
  /\ \/ deadcount = 3 /\ SmReaped
     \/ deadcount = 2 /\ LmReaped
     \/ deadcount = 1 /\ LoopReaped
  /\ ReapFrame /\ deadcount' = deadcount - 1

\* One of the three <-dead cases; deadcount--
MainReaps ==
  /\ mainPc = "sent" /\ (SmReaped \/ LmReaped \/ LoopReaped)
  /\ ReapFrame /\ deadcount' = deadcount - 1

\* MUTANT: the comparison is off by one.
MainReturnsEarly ==
  /\ mainPc = "sent" /\ deadcount <= 1
  /\ smDead = 0 /\ lmDead = 0 /\ loopDead = 0
  /\ returned' = TRUE
  /\ UNCHANGED <<clientVars, pipelineVars, deadcount>>

\* default, with deadcount <= 0
MainReturns ==
  /\ mainPc = "sent" /\ deadcount = 0
  /\ smDead = 0 /\ lmDead = 0 /\ loopDead = 0
  /\ returned' = TRUE
  /\ UNCHANGED <<clientVars, pipelineVars, deadcount>>

MainShutsDown ==
  MainKillsSm \/ MainKillsLm \/ MainKillsClient \/ MainReaps \/ MainReturns
-----------------------------------------------------------------------------
DaemonNext ==
  /\ Running
  /\ \/ DaemonLoop \/ DaemonSm \/ DaemonLm
     \/ \E c \in Clients : DaemonReader(c) \/ DaemonDelivers(c)
     \/ \E h \in Handles : DaemonCap(h) \/ DaemonPacket(h)
     \/ MainKillsLoop \/ MainShutsDown

DaemonSpec == DaemonInit /\ [][DaemonNext]_daemonVars

(***************************************************************************)
(* The loop, the managers, the capture goroutines and main take their next *)
(* step while they can, and the selects are fair to their kill cases.      *)
(* The interrupt, the network and the goroutines Client.run starts are     *)
(* obliged to nothing: main's return may not depend on them.               *)
(***************************************************************************)
DaemonFairness ==
  /\ WF_daemonVars(Running /\ DaemonLoop)
  /\ SF_daemonVars(Running /\ RunKilled /\ InClient)
  /\ WF_daemonVars(Running /\ DaemonSm)
  /\ SF_daemonVars(Running /\ SmDie /\ InPipeline)
  /\ WF_daemonVars(Running /\ DaemonLm)
  /\ SF_daemonVars(Running /\ LmKilled /\ InPipeline)
  /\ \A h \in Handles : WF_daemonVars(Running /\ DaemonCap(h))
  /\ WF_daemonVars(Running /\ MainShutsDown)

DaemonFairSpec == DaemonSpec /\ DaemonFairness
-----------------------------------------------------------------------------
(* Properties                                                              *)

\* main returns only when the reconnect loop and both managers are dead, so no
\* goroutine of theirs is cut off in the middle of its clean-up.
ReturnsOnlyWhenAllDead ==
  returned => loopPc = "dead" /\ smPc = "dead" /\ lmPc = "dead"

\* deadcount is exactly the goroutines main has killed and not yet reaped: a
\* death is counted once, whichever of the three channels is ready first.
Owed(started, pc, dead) == One(started /\ (pc # "dead" \/ dead > 0))
DeadcountExact ==
  deadcount = Owed(mainPc # "wait", loopPc, loopDead)
              + Owed(smKill = 1 \/ smPc = "dead", smPc, smDead)
              + Owed(lmKill = 1 \/ lmPc \in {"cleanup", "dead"}, lmPc, lmDead)

\* The daemon's shutdown is an orderly one: the loop, the StateManager and the
\* LocalManager are killed in this order, none of them dies of itself, and main
\* returns last (daemon.go:99-135).
KilledSoFar ==
  One(mainPc # "wait") + One(smKill = 1 \/ smPc = "dead")
  + One(lmKill = 1 \/ lmPc \in {"cleanup", "dead"})
DeadSoFar ==
  {w \in 1..3 : <<loopPc, smPc, lmPc>>[w] = "dead"}
Orderly ==
  INSTANCE Shutdown WITH Count <- 3, killed <- KilledSoFar, dead <- DeadSoFar
ShutdownIsOrderly == Orderly!ShutdownSpec

\* The loop serves a client main's interrupt did not reach (daemon.go:113-117).
LostKill == loopPc \in {"serve", "ping"} /\ mainPc = "sent" /\ mainClient # client

\* A goroutine main waits for is blocked for good (Client, Pipeline).
Hung == PingStuck \/ SmStuck \/ LmStuck

\* main's wait for the three deaths ends, or the daemon crashed, or it hangs in
\* one of the named ways: the loop serves a client the interrupt missed for ever
\* or is stuck on its ping, or a manager is stuck on a channel nobody drains.
ShutdownEndsOrIsStuck ==
  (mainPc = "sent") ~> (returned \/ ~Alive \/ []LostKill \/ Hung)

\* What main's wait can still depend on.  A capture goroutine counts while it has
\* a packet in hand or a token to take; its polling alone ends nothing.
Moves ==
  \/ DaemonLoop \/ DaemonSm \/ DaemonLm \/ MainShutsDown
  \/ \E h \in Handles :
       DaemonCap(h) /\ (killChildren > 0 \/ capPc[h] \in {"register", "forward"})

\* When a shutdown has come to a stop, the goroutines main still counts are
\* exactly those blocked in one of the three named ways: there is no other way to
\* deadlock, and main has reaped everyone it is not kept from reaping.  Before
\* that, only a loop stuck on its ping keeps main from handing over the interrupt
\* (daemon.go:117, :120-135, :244, local.go:62, :87, client.go:118).
StuckCount == One(PingStuck) + One(SmStuck) + One(LmStuck)
HangIsNamed ==
  Running /\ mainPc # "wait" /\ ~ENABLED Moves =>
    IF mainPc = "sent" THEN deadcount = StuckCount ELSE PingStuck
=============================================================================
