----------------------------- MODULE DaemonProofs -----------------------------
(***************************************************************************)
(* main returns only once the reconnect loop and both managers are dead,   *)
(* for any number of clients, handles and any channel capacities.          *)
(*                                                                         *)
(* The argument counts: deadcount is exactly what main still owes the      *)
(* three goroutines (DeadcountExact), and main is past its kills only when *)
(* all three were sent (AllKilled).  The count needs the invariants of     *)
(* both sides: a death message exists only after its goroutine died, and   *)
(* the loop cannot die before main's kill.                                 *)
(*                                                                         *)
(* On the same invariant rest the refinement of Shutdown, for which the    *)
(* kills must also have been sent in order (InOrder), and that a daemon    *)
(* which hangs does so for good.                                           *)
(***************************************************************************)
EXTENDS Daemon, ClientProofs, PipelineProofs

\* The steps' frames are seen through in every proof below.
USE DEF smVars, lmVars, sightings, mainLoopVars, smIn, lmChans, EnvFrame, ManagersFrame, SmFrame,
        SmTakesSignal, SmLeavesUpdate, SmTakesKill, LmFrame, LmTakesXbox, FirstHandle,
        LmTakesKill, LmSendsToken, CapTakesToken, CapSends, LoopMove, LoopGoes, LoopTakesKill,
        RunFrame, RunGoes, RunLeaves, SmReaped, LmReaped, LoopReaped, ReapFrame

SmKilled == smKill = 1 \/ smPc = "dead"
LmKilledOrSent == lmKill = 1 \/ lmPc \in {"cleanup", "dead"}

\* Once main reads client.kill, the managers have been sent theirs.
AllKilled == mainPc \in {"send", "sent"} => SmKilled /\ LmKilledOrSent

Counted ==
  /\ deadcount \in 0..3 /\ returned \in BOOLEAN
  /\ DeadcountExact /\ AllKilled /\ ReturnsOnlyWhenAllDead

DaemonIInv == ClientIInv /\ IInv /\ Counted

-----------------------------------------------------------------------------
\* The count sees only these of the daemon's variables.
counters ==
  <<deadcount, returned, mainPc, loopPc, loopDead, smPc, smKill, smDead,
    lmPc, lmKill, lmDead>>

LEMMA SameCount ==
  ASSUME Counted, UNCHANGED counters PROVE Counted'
BY DEF Counted, counters, DeadcountExact, Owed, One, AllKilled, SmKilled,
       LmKilledOrSent, ReturnsOnlyWhenAllDead

\* The loop's steps: only its death changes what it owes, from alive to reported.
LEMMA LoopCount ==
  ASSUME ClientIInv, Counted, Running, LoopStep, InClient PROVE Counted'
<1> USE DEF Counted, DeadcountExact, Owed, One, AllKilled, SmKilled, LmKilledOrSent,
            ReturnsOnlyWhenAllDead, Running, LoopMove
<1>1. UNCHANGED <<deadcount, returned, smPc, smKill, smDead, lmPc, lmKill, lmDead>>
  BY DEF InClient, pipelineVars, mainLoopVars, smVars, lmVars
<1>2. CASE LoopStop
  BY <1>1, <1>2 DEF LoopStop, mainVars, ClientIInv, ClientTypeOK, KillHeld
<1>3. CASE ~LoopStop
  <2>1. loopPc # "dead" /\ loopPc' # "dead" /\ UNCHANGED <<mainPc, loopDead>>
    BY <1>3 DEF LoopStep, LoopCheck, LookupOk, LookupFails, LoopSleep, RunNil,
                DialFails, DialOk, RunSend, RunTick, RunPing, RunSendFails, RunKilled,
                RunReturns, loopVars, mainVars
  <2>2. QED BY <1>1, <2>1
<1>4. QED BY <1>2, <1>3

\* StateManager.run owes main its death from the kill to the report.
LEMMA SmCount ==
  ASSUME IInv, Counted, Running, Sm, InPipeline PROVE Counted'
<1> USE DEF Counted, DeadcountExact, Owed, One, AllKilled, SmKilled, LmKilledOrSent,
            ReturnsOnlyWhenAllDead, Running
<1>1. UNCHANGED <<deadcount, returned, mainPc, loopPc, loopDead>>
  BY DEF InPipeline, clientVars, mainLoopVars
<1>2. CASE SmDie
  BY <1>1, <1>2 DEF SmDie, lmVars, IInv, TypeOK, DeadReports
<1>3. CASE ~SmDie
  <2>1. /\ smPc # "dead" /\ smPc' # "dead"
        /\ UNCHANGED <<smKill, smDead, lmPc, lmKill, lmDead>>
    BY <1>3 DEF Sm, SmState, SmPacket, SmXbox, SmHandles, SmSignal, SmUpdate,
                lmVars, smVars
  <2>2. QED BY <1>1, <2>1
<1>4. QED BY <1>2, <1>3

\* LocalManager.run owes its death through its clean-up.
LEMMA LmCount ==
  ASSUME IInv, Counted, Running, Lm, InPipeline PROVE Counted'
<1> USE DEF Counted, DeadcountExact, Owed, One, AllKilled, SmKilled, LmKilledOrSent,
            ReturnsOnlyWhenAllDead, Running, IInv, TypeOK, DeadReports, smVars
<1>1. UNCHANGED <<deadcount, returned, mainPc, loopPc, loopDead>>
  BY DEF InPipeline, clientVars, mainLoopVars
<1>2. CASE LmRegister BY <1>1, <1>2 DEF LmRegister
<1>3. CASE LmAnnounce BY <1>1, <1>3 DEF LmAnnounce
<1>4. CASE LmKilled BY <1>1, <1>4 DEF LmKilled
<1>5. CASE LmKillChild BY <1>1, <1>5 DEF LmKillChild
<1>6. CASE LmDie BY <1>1, <1>6 DEF LmDie
<1>7. QED BY <1>2, <1>3, <1>4, <1>5, <1>6 DEF Lm

\* The goroutines of Client.run, and the capture goroutines, move none of it.
LEMMA OthersCount ==
  ASSUME Counted,
         \/ \E c \in Clients : DaemonReader(c) \/ DaemonDelivers(c)
         \/ \E h \in Handles : DaemonCap(h) \/ DaemonPacket(h)
  PROVE  Counted'
<1>1. ASSUME NEW c \in Clients, DaemonReader(c) PROVE UNCHANGED counters
  BY <1>1 DEF counters, DaemonReader, InClient, pipelineVars, mainLoopVars, smVars,
              lmVars, ReaderStep, ReaderDecodes, ReaderFails, ReaderReports, RdrMove,
              loopVars, mainVars
<1>2. ASSUME NEW c \in Clients, DaemonDelivers(c) PROVE UNCHANGED counters
  BY <1>2 DEF counters, DaemonDelivers, mainLoopVars, AuthToken, ReaderState,
              ReaderSignal, RdrMove, loopVars, mainVars, PutToken, PutState, PutSignal,
              smVars, lmVars
<1>3. ASSUME NEW h \in Handles, DaemonCap(h) \/ DaemonPacket(h) PROVE UNCHANGED counters
  BY <1>3 DEF counters, DaemonCap, DaemonPacket, InPipeline, clientVars, mainLoopVars,
              CapStep, CapExit, CapPoll, CapTimeout, CapRegister, CapForward, CapPacket,
              CapMove, smVars, lmVars
<1>4. QED BY <1>1, <1>2, <1>3, SameCount

\* main's kills add one each; its reaping takes one off with each report.
LEMMA MainCount ==
  ASSUME ClientIInv, IInv, Counted, Running, MainKillsLoop \/ MainShutsDown
  PROVE  Counted'
<1> USE DEF Counted, DeadcountExact, Owed, One, AllKilled, SmKilled, LmKilledOrSent,
            ReturnsOnlyWhenAllDead, Running, IInv, TypeOK, DeadReports, ClientIInv,
            ClientTypeOK, KillHeld
<1>1. CASE MainKillsLoop
  BY <1>1 DEF MainKillsLoop, KillLoop, pipelineVars, smVars, lmVars
<1>2. CASE MainKillsSm
  BY <1>2 DEF MainKillsSm, KillSm, clientVars, lmVars
<1>3. CASE MainKillsLm
  BY <1>3 DEF MainKillsLm, KillLm, clientVars, smVars
<1>4. CASE MainKillsClient
  <2>1. /\ UNCHANGED <<deadcount, returned, loopPc, loopDead, smPc, smKill, smDead,
                       lmPc, lmKill, lmDead>>
        /\ mainPc # "wait" /\ mainPc' # "wait"
    BY <1>4 DEF MainKillsClient, MainTarget, MainSend, InClient, pipelineVars,
                mainLoopVars, loopVars, smVars, lmVars
  <2>2. mainPc = "target" => deadcount = 3
    BY <1>4 DEF MainKillsClient, MainSend
  <2>3. mainPc \in {"target", "send"}
    BY <1>4 DEF MainKillsClient, MainTarget, MainSend
  <2>4. SmKilled /\ LmKilledOrSent BY <2>2, <2>3
  <2>5. QED BY <2>1, <2>4
<1>5. CASE MainReaps
  <2>1. /\ mainPc = "sent" /\ deadcount' = deadcount - 1
        /\ UNCHANGED <<returned, mainPc, loopPc, smPc, smKill, lmPc, lmKill>>
    BY <1>5 DEF MainReaps, mainVars
  <2>2. CASE smDead > 0 /\ smDead' = smDead - 1 /\ UNCHANGED <<lmDead, loopDead>>
    BY <2>1, <2>2
  <2>3. CASE lmDead > 0 /\ lmDead' = lmDead - 1 /\ UNCHANGED <<smDead, loopDead>>
    BY <2>1, <2>3
  <2>4. CASE loopDead > 0 /\ loopDead' = loopDead - 1 /\ UNCHANGED <<smDead, lmDead>>
    BY <2>1, <2>4
  <2>5. QED BY <1>5, <2>2, <2>3, <2>4 DEF MainReaps
<1>6. CASE MainReturns
  BY <1>6 DEF MainReturns, clientVars, pipelineVars, smVars, lmVars
<1>7. QED BY <1>1, <1>2, <1>3, <1>4, <1>5, <1>6 DEF MainShutsDown

-----------------------------------------------------------------------------
\* But for main's reaping, a step of the daemon is a step of each side or of one
\* of them, and a stutter of the other.
LEMMA StepOfEachSide ==
  ASSUME DaemonNext, ~MainReaps
  PROVE  [ClientNext]_clientVars /\ [PipelineNext]_pipelineVars
<1>1. [ClientNext]_clientVars
  BY DEF DaemonNext, Running, DaemonLoop, DaemonSm, DaemonLm, DaemonReader,
         DaemonDelivers, DaemonCap, DaemonPacket, MainKillsLoop, MainShutsDown,
         MainKillsSm, MainKillsLm, MainKillsClient, MainReturns, InPipeline,
         ClientNext, MainKills, Deliver
<1>2. [PipelineNext]_pipelineVars
  BY DEF DaemonNext, Running, DaemonLoop, DaemonSm, DaemonLm, DaemonReader,
         DaemonDelivers, DaemonCap, DaemonPacket, MainKillsLoop, MainShutsDown,
         MainKillsSm, MainKillsLm, MainKillsClient, MainReturns, InClient,
         PipelineNext, Environment, Cap
<1>3. QED BY <1>1, <1>2

\* Each side's invariant survives the other side's steps and main's reaping.
LEMMA SidesStep ==
  ASSUME ClientIInv, IInv, Counted, DaemonNext PROVE ClientIInv' /\ IInv'
<1>1. CASE MainReaps
  <2>1. ClientIInv'
    BY <1>1 DEF MainReaps, mainVars, Counted, ClientIInv, ClientTypeOK, OneConnection,
                Fresh, Reported, KillHeld, ReaderPanicsOnlyIfRunLeftFirst, OneLastClient
  <2>2. IInv'
    BY <1>1 DEF MainReaps, Counted, serverVars, clientChans, capVars, IInv, TypeOK,
                DeadReports, XboxConservation, UpdateAccounting, KillTokenAccounting,
                FirstInLine, FirstHandleWins, Exited, One
  <2>3. QED BY <2>1, <2>2
<1>2. CASE ~MainReaps BY <1>2, StepOfEachSide, StepClientIInv, StepIInv
<1>3. QED BY <1>1, <1>2

\* The count starts at nothing killed and nothing owed.
LEMMA InitDaemonIInv == DaemonInit => DaemonIInv
<1> SUFFICES ASSUME DaemonInit PROVE DaemonIInv OBVIOUS
<1>1. ClientIInv /\ IInv BY InitClientIInv, InitIInv DEF DaemonInit
<1>2. /\ deadcount = 0 /\ returned = FALSE /\ mainPc = "wait"
      /\ smKill = 0 /\ smPc = "select" /\ lmKill = 0 /\ lmPc = "select"
  BY DEF DaemonInit, ClientInit, PipelineInit
<1>3. Counted
  <2>1. /\ Owed(mainPc # "wait", loopPc, loopDead) = 0
        /\ Owed(smKill = 1 \/ smPc = "dead", smPc, smDead) = 0
        /\ Owed(lmKill = 1 \/ lmPc \in {"cleanup", "dead"}, lmPc, lmDead) = 0
    BY <1>2 DEF Owed, One
  <2>2. DeadcountExact BY <1>2, <2>1 DEF DeadcountExact
  <2>3. returned \in BOOLEAN /\ AllKilled /\ ReturnsOnlyWhenAllDead
    BY <1>2, Zenon DEF AllKilled, ReturnsOnlyWhenAllDead
  <2>4. QED BY <1>2, <2>2, <2>3 DEF Counted
<1>4. QED BY <1>1, <1>3 DEF DaemonIInv

\* Every step of the daemon keeps all three.
LEMMA StepDaemonIInv == DaemonIInv /\ [DaemonNext]_daemonVars => DaemonIInv'
<1> SUFFICES ASSUME DaemonIInv, [DaemonNext]_daemonVars PROVE DaemonIInv' OBVIOUS
<1>1. CASE DaemonNext
  <2>1. ClientIInv' /\ IInv' BY <1>1, SidesStep DEF DaemonIInv
  <2>2. Counted'
    BY <1>1, LoopCount, SmCount, LmCount, OthersCount, MainCount
    DEF DaemonIInv, DaemonNext, DaemonLoop, DaemonSm, DaemonLm
  <2>3. QED BY <2>1, <2>2 DEF DaemonIInv
<1>2. CASE UNCHANGED daemonVars
  <2>1. ClientIInv'
    BY <1>2, StepClientIInv DEF daemonVars, DaemonIInv
  <2>2. IInv' BY <1>2, StepIInv DEF daemonVars, DaemonIInv
  <2>3. UNCHANGED counters
    BY <1>2 DEF daemonVars, counters, clientVars, pipelineVars, mainLoopVars, smVars, lmVars
  <2>4. QED BY <2>1, <2>2, <2>3, SameCount DEF DaemonIInv
<1>3. QED BY <1>1, <1>2

\* The invariant of the whole daemon.
THEOREM DaemonInvariant == DaemonSpec => []DaemonIInv
BY InitDaemonIInv, StepDaemonIInv, PTL DEF DaemonSpec

\* deadcount is always exactly the deaths main waits for.
THEOREM DeadcountIsExact == DaemonSpec => []DeadcountExact
<1>1. DaemonIInv => DeadcountExact BY DEF DaemonIInv, Counted
<1>2. QED BY <1>1, DaemonInvariant, PTL

\* main returns only when the loop and both managers are dead.
THEOREM CleanReturn == DaemonSpec => []ReturnsOnlyWhenAllDead
<1>1. DaemonIInv => ReturnsOnlyWhenAllDead BY DEF DaemonIInv, Counted
<1>2. QED BY <1>1, DaemonInvariant, PTL

\* In the composed daemon, too, no sighting is lost, StateManager.run handles at
\* most cap(serverChan) + 1 events, and no kill token is.
THEOREM PipelineInDaemon ==
  DaemonSpec => [](XboxConservation /\ LifetimeBound /\ KillTokenAccounting)
<1>1. DaemonIInv => XboxConservation /\ LifetimeBound /\ KillTokenAccounting
  BY PipelineAssumption
  DEF PipelineAssumption, DaemonIInv, IInv, TypeOK, UpdateAccounting, LifetimeBound, One
<1>2. QED BY <1>1, DaemonInvariant, PTL

\* The sightings cross the composed daemon as they cross the pipeline alone: a
\* bounded pipe, in whatever order the connection, the managers and main move.
THEOREM PipeInDaemon == DaemonSpec => SightingsArePiped
<1>1. DaemonInit => Sightings!PipeInit BY DEF DaemonInit, PipelineInit, Sightings!PipeInit
<1>2. DaemonIInv /\ [DaemonNext]_daemonVars =>
        [Sightings!Put \/ Sightings!Take]_(Sightings!pipe)
  <2> SUFFICES ASSUME DaemonIInv, [DaemonNext]_daemonVars
               PROVE  [Sightings!Put \/ Sightings!Take]_(Sightings!pipe)
    OBVIOUS
  <2>1. CASE MainReaps BY <2>1 DEF MainReaps, serverVars, capVars, Sightings!pipe
  <2>2. CASE DaemonNext /\ ~MainReaps BY <2>2, StepOfEachSide, PipeStep DEF DaemonIInv
  <2>3. CASE UNCHANGED daemonVars BY <2>3, PipeStep DEF daemonVars, DaemonIInv
  <2>4. QED BY <2>1, <2>2, <2>3
<1>3. QED
  BY <1>1, <1>2, DaemonInvariant, PTL DEF DaemonSpec, SightingsArePiped, Sightings!PipeSpec

\* What is proved of the connection holds of it in the daemon, where its messages
\* wait for the managers' channels: one connection at a time, no panic of the
\* decode goroutine but after run left first, and one more client at most.
THEOREM ClientInDaemon ==
  DaemonSpec => [](OneConnection /\ ReaderPanicsOnlyIfRunLeftFirst /\ OneLastClient)
<1>1. DaemonIInv => OneConnection /\ ReaderPanicsOnlyIfRunLeftFirst /\ OneLastClient
  BY DEF DaemonIInv, ClientIInv
<1>2. QED BY <1>1, DaemonInvariant, PTL

-----------------------------------------------------------------------------
\* Nothing in the daemon frees a goroutine that is stuck, and while it is stuck
\* main does not return, for main returns only over three dead goroutines.
LEMMA HungStep ==
  ASSUME DaemonIInv, DaemonIInv', [DaemonNext]_daemonVars, Hung PROVE Hung'
<1> USE DEF DaemonIInv, ClientIInv, IInv
<1>1. CASE DaemonNext /\ ~MainReaps
  <2>1. [ClientNext]_clientVars /\ [PipelineNext]_pipelineVars BY <1>1, StepOfEachSide
  <2>2. PingStuck => PingStuck' BY <2>1, PingStaysStuck
  <2>3. (SmStuck => SmStuck') /\ (LmStuck => LmStuck')
    BY <2>1, ManagersStayStuck, CleanupStaysStuck DEF LmStuck, CleanupStuck
  <2>4. QED BY <2>2, <2>3 DEF Hung
<1>2. CASE MainReaps \/ UNCHANGED daemonVars
  BY <1>2 DEF MainReaps, daemonVars, clientVars, pipelineVars, serverVars, capVars, Hung,
              PingStuck, SmStuck, LmStuck, AnnounceStuck, CleanupStuck, CapsStopped,
              CapStuck, NoStateManager, NoLocalManager
<1>3. QED BY <1>1, <1>2

LEMMA HungNeverReturned == ReturnsOnlyWhenAllDead /\ Hung => ~returned
BY DEF ReturnsOnlyWhenAllDead, Hung, PingStuck, SmStuck, LmStuck, AnnounceStuck,
       CleanupStuck

\* The hangs ShutdownEndsOrIsStuck names are final: once the loop is stuck on its
\* ping, or a manager on its channel, main waits for it in vain, for any number
\* of clients and handles and any channel capacities.
THEOREM HangIsFinal == DaemonSpec => [](Hung => [](Hung /\ ~returned))
<1>1. DaemonIInv /\ DaemonIInv' /\ [DaemonNext]_daemonVars => (Hung => Hung')
  BY HungStep
<1>2. DaemonIInv /\ Hung => ~returned
  BY HungNeverReturned DEF DaemonIInv, Counted
<1>3. QED BY <1>1, <1>2, DaemonInvariant, PTL DEF DaemonSpec

-----------------------------------------------------------------------------
(* The orderly shutdown                                                    *)

\* The order of main's three kills.
InOrder ==
  /\ SmKilled => mainPc # "wait"
  /\ LmKilledOrSent => SmKilled

\* A step that changes neither a kill, a death nor main's return.
Unseen ==
  /\ returned' = returned
  /\ (mainPc # "wait")' <=> mainPc # "wait"
  /\ SmKilled' <=> SmKilled
  /\ LmKilledOrSent' <=> LmKilledOrSent
  /\ (loopPc = "dead")' <=> loopPc = "dead"
  /\ (smPc = "dead")' <=> smPc = "dead"
  /\ (lmPc = "dead")' <=> lmPc = "dead"

LEMMA UnseenStutters ==
  ASSUME Unseen PROVE (InOrder => InOrder') /\ UNCHANGED Orderly!shutdown
BY DEF Unseen, InOrder, SmKilled, LmKilledOrSent, Orderly!shutdown, KilledSoFar, DeadSoFar, One

\* A worker's death adds its number to the dead and nothing else.
LEMMA OneMoreDead ==
  ASSUME NEW w \in 1..3, <<loopPc, smPc, lmPc>>[w] # "dead",
         <<loopPc, smPc, lmPc>>'[w] = "dead",
         \A v \in 1..3 \ {w} : <<loopPc, smPc, lmPc>>'[v] = <<loopPc, smPc, lmPc>>[v]
  PROVE  w \notin DeadSoFar /\ DeadSoFar' = DeadSoFar \cup {w}
BY DEF DeadSoFar

\* How many are killed, as main's position and the two managers tell it.
LEMMA KilledInOrder ==
  ASSUME InOrder
  PROVE  /\ KilledSoFar \in 0..3
         /\ mainPc # "wait" <=> KilledSoFar >= 1
         /\ SmKilled <=> KilledSoFar >= 2
         /\ LmKilledOrSent <=> KilledSoFar = 3
<1>1. KilledSoFar = One(mainPc # "wait") + One(SmKilled) + One(LmKilledOrSent)
  BY DEF KilledSoFar, SmKilled, LmKilledOrSent
<1>2. QED BY <1>1 DEF InOrder, One

\* Of the loop's steps only LoopStop is seen, and main has killed the loop by then.
LEMMA OrderlyLoop ==
  ASSUME DaemonIInv, InOrder, Running, DaemonLoop
  PROVE  InOrder' /\ [Orderly!ShutdownNext]_(Orderly!shutdown)
<1> USE DEF DaemonLoop, InClient, pipelineVars, mainLoopVars, smVars, lmVars
<1>1. CASE LoopStop
  <2>1. /\ loopPc = "check" /\ loopPc' = "dead" /\ mainPc # "wait"
        /\ UNCHANGED <<returned, mainPc, smPc, smKill, lmPc, lmKill>>
    BY <1>1 DEF LoopStop, mainVars, DaemonIInv, ClientIInv, KillHeld
  <2>2. 1 \notin DeadSoFar /\ DeadSoFar' = DeadSoFar \cup {1} BY <2>1, OneMoreDead
  <2>3. KilledSoFar' = KilledSoFar /\ InOrder'
    BY <2>1 DEF KilledSoFar, InOrder, SmKilled, LmKilledOrSent
  <2>4. Orderly!Die(1)
    BY <2>1, <2>2, <2>3, KilledInOrder DEF Orderly!Die, Running
  <2>5. QED BY <2>3, <2>4 DEF Orderly!ShutdownNext
<1>2. CASE ~LoopStop
  <2>1. loopPc # "dead" /\ loopPc' # "dead" /\ UNCHANGED mainPc
    BY <1>2 DEF LoopStep, LoopCheck, LookupOk, LookupFails, LoopSleep, RunNil, DialFails,
                DialOk, RunSend, RunTick, RunPing, RunSendFails, RunKilled, RunReturns,
                loopVars, mainVars
  <2>2. Unseen BY <2>1 DEF Unseen, SmKilled, LmKilledOrSent
  <2>3. QED BY <2>2, UnseenStutters
<1>3. QED BY <1>1, <1>2

\* Of the managers' steps only their deaths are seen, after their kills.
LEMMA OrderlyManagers ==
  ASSUME DaemonIInv, InOrder, Running, DaemonSm \/ DaemonLm
  PROVE  InOrder' /\ [Orderly!ShutdownNext]_(Orderly!shutdown)
<1> USE DEF DaemonSm, DaemonLm, InPipeline, clientVars, mainLoopVars, smVars, lmVars
<1>1. CASE DaemonSm /\ SmDie
  <2>1. /\ smPc = "select" /\ smPc' = "dead" /\ SmKilled /\ SmKilled'
        /\ UNCHANGED <<returned, mainPc, loopPc, lmPc, lmKill>>
    BY <1>1 DEF SmDie, SmKilled
  <2>2. 2 \notin DeadSoFar /\ DeadSoFar' = DeadSoFar \cup {2} BY <2>1, OneMoreDead
  <2>3. KilledSoFar' = KilledSoFar /\ InOrder'
    BY <2>1 DEF KilledSoFar, InOrder, SmKilled, LmKilledOrSent, One
  <2>4. Orderly!Die(2)
    BY <2>1, <2>2, <2>3, KilledInOrder DEF Orderly!Die, Running
  <2>5. QED BY <2>3, <2>4 DEF Orderly!ShutdownNext
<1>2. CASE DaemonLm /\ LmDie
  <2>1. /\ lmPc = "cleanup" /\ lmPc' = "dead"
        /\ UNCHANGED <<returned, mainPc, loopPc, smPc, smKill, lmKill>>
    BY <1>2 DEF LmDie
  <2>2. 3 \notin DeadSoFar /\ DeadSoFar' = DeadSoFar \cup {3} BY <2>1, OneMoreDead
  <2>3. KilledSoFar' = KilledSoFar /\ InOrder' /\ LmKilledOrSent
    BY <2>1 DEF KilledSoFar, InOrder, SmKilled, LmKilledOrSent, One
  <2>4. Orderly!Die(3)
    BY <2>2, <2>3, KilledInOrder DEF Orderly!Die, Running
  <2>5. QED BY <2>3, <2>4 DEF Orderly!ShutdownNext
<1>3. CASE DaemonSm /\ ~SmDie
  <2>1. smPc # "dead" /\ smPc' # "dead" /\ UNCHANGED smKill
    BY <1>3 DEF Sm, SmState, SmPacket, SmXbox, SmHandles, SmSignal, SmUpdate
  <2>2. Unseen BY <1>3, <2>1 DEF Unseen, SmKilled, LmKilledOrSent, Sm, SmState, SmPacket,
                                 SmXbox, SmHandles, SmSignal, SmUpdate
  <2>3. QED BY <2>2, UnseenStutters
<1>4. CASE DaemonLm /\ ~LmDie
  <2>1. Unseen
    BY <1>4 DEF Unseen, SmKilled, LmKilledOrSent, Lm, LmRegister, LmAnnounce, LmKilled,
                LmKillChild
  <2>2. QED BY <2>1, UnseenStutters
<1>5. QED BY <1>1, <1>2, <1>3, <1>4

\* main's kills go out in order, by deadcount; its reaping is not seen; and it
\* returns when nobody is owed.
LEMMA OrderlyMain ==
  ASSUME DaemonIInv, InOrder, Running, MainKillsLoop \/ MainShutsDown
  PROVE  InOrder' /\ [Orderly!ShutdownNext]_(Orderly!shutdown)
<1> USE DEF pipelineVars, clientVars, mainLoopVars, smVars, lmVars, loopVars
<1>1. TypeOK /\ ClientTypeOK /\ KillHeld /\ DeadReports /\ DeadcountExact /\ AllKilled
  BY DEF DaemonIInv, IInv, ClientIInv, Counted
<1>2. CASE MainKillsLoop
  <2>1. /\ mainPc = "wait" /\ mainPc' # "wait"
        /\ UNCHANGED <<returned, loopPc, smPc, smKill, lmPc, lmKill>>
    BY <1>2 DEF MainKillsLoop, KillLoop
  <2>2. InOrder' /\ UNCHANGED DeadSoFar /\ KilledSoFar' = KilledSoFar + 1
    BY <2>1 DEF InOrder, SmKilled, LmKilledOrSent, DeadSoFar, KilledSoFar, One
  <2>3. Orderly!Kill BY <2>1, <2>2, KilledInOrder DEF Orderly!Kill
  <2>4. QED BY <2>2, <2>3 DEF Orderly!ShutdownNext
<1>3. CASE MainKillsSm
  <2>1. /\ mainPc = "target" /\ ~SmKilled /\ SmKilled'
        /\ UNCHANGED <<returned, mainPc, loopPc, smPc, lmPc, lmKill>>
    BY <1>1, <1>3 DEF MainKillsSm, KillSm, SmKilled, TypeOK
  <2>2. InOrder' /\ UNCHANGED DeadSoFar /\ KilledSoFar' = KilledSoFar + 1
    BY <2>1 DEF InOrder, SmKilled, LmKilledOrSent, DeadSoFar, KilledSoFar, One
  <2>3. Orderly!Kill BY <2>1, <2>2, KilledInOrder DEF Orderly!Kill
  <2>4. QED BY <2>2, <2>3 DEF Orderly!ShutdownNext
<1>4. CASE MainKillsLm
  <2>1. /\ mainPc = "target" /\ ~LmKilledOrSent /\ LmKilledOrSent'
        /\ UNCHANGED <<returned, mainPc, loopPc, smPc, smKill, lmPc>>
    BY <1>1, <1>4 DEF MainKillsLm, KillLm, LmKilledOrSent, TypeOK
  <2>2. SmKilled
    BY <1>1, <1>4, <2>1 DEF MainKillsLm, DeadcountExact, Owed, One, SmKilled,
                            LmKilledOrSent, TypeOK, ClientTypeOK
  <2>3. InOrder' /\ UNCHANGED DeadSoFar /\ KilledSoFar' = KilledSoFar + 1
    BY <2>1, <2>2 DEF InOrder, SmKilled, LmKilledOrSent, DeadSoFar, KilledSoFar, One
  <2>4. Orderly!Kill BY <2>1, <2>2, <2>3, KilledInOrder DEF Orderly!Kill
  <2>5. QED BY <2>3, <2>4 DEF Orderly!ShutdownNext
<1>5. CASE MainKillsClient \/ MainReaps
  <2>1. Unseen
    BY <1>5 DEF Unseen, SmKilled, LmKilledOrSent, MainKillsClient, MainTarget, MainSend,
                InClient, MainReaps, mainVars
  <2>2. QED BY <2>1, UnseenStutters
<1>6. CASE MainReturns
  <2>1. /\ mainPc = "sent" /\ deadcount = 0 /\ returned' = TRUE /\ returned = FALSE
        /\ UNCHANGED <<mainPc, loopPc, smPc, smKill, lmPc, lmKill>>
    BY <1>6 DEF MainReturns, Running, DaemonIInv, Counted
  <2>2. loopPc = "dead" /\ smPc = "dead" /\ lmPc = "dead"
    BY <1>1, <2>1 DEF DeadcountExact, Owed, One, AllKilled, SmKilled, LmKilledOrSent
  <2>3. DeadSoFar = 1..3 BY <2>2 DEF DeadSoFar
  <2>4. InOrder' /\ UNCHANGED <<DeadSoFar, KilledSoFar>>
    BY <2>1 DEF InOrder, SmKilled, LmKilledOrSent, DeadSoFar, KilledSoFar
  <2>5. Orderly!Return BY <2>1, <2>3, <2>4 DEF Orderly!Return
  <2>6. QED BY <2>4, <2>5 DEF Orderly!ShutdownNext
<1>7. QED BY <1>2, <1>3, <1>4, <1>5, <1>6 DEF MainShutsDown

\* Every step of the daemon is a step of the orderly shutdown or none of it.
LEMMA OrderlyStep ==
  ASSUME DaemonIInv, InOrder, [DaemonNext]_daemonVars
  PROVE  InOrder' /\ [Orderly!ShutdownNext]_(Orderly!shutdown)
<1>1. ASSUME NEW c \in Clients, DaemonReader(c) \/ DaemonDelivers(c) PROVE Unseen
  BY <1>1 DEF Unseen, SmKilled, LmKilledOrSent, DaemonReader, InClient, pipelineVars,
              mainLoopVars, smVars, lmVars, ReaderStep, ReaderDecodes, ReaderFails,
              ReaderReports, RdrMove, loopVars, mainVars, DaemonDelivers, AuthToken,
              ReaderState, ReaderSignal, PutToken, PutState, PutSignal
<1>2. ASSUME NEW h \in Handles, DaemonCap(h) \/ DaemonPacket(h) PROVE Unseen
  BY <1>2 DEF Unseen, SmKilled, LmKilledOrSent, DaemonCap, DaemonPacket, InPipeline,
              clientVars, mainLoopVars, CapStep, CapExit, CapPoll, CapTimeout,
              CapRegister, CapForward, CapPacket, CapMove, smVars, lmVars
<1>3. CASE UNCHANGED daemonVars
  <2>1. Unseen
    BY <1>3 DEF Unseen, SmKilled, LmKilledOrSent, daemonVars, clientVars, pipelineVars,
                mainLoopVars, smVars, lmVars
  <2>2. QED BY <2>1, UnseenStutters
<1>4. QED
  BY <1>1, <1>2, <1>3, UnseenStutters, OrderlyLoop, OrderlyManagers, OrderlyMain
  DEF DaemonNext

\* The daemon implements the orderly shutdown: its three workers are killed in
\* main's order, none dies of itself, and main returns last and over all of them.
THEOREM ShutdownRefined == DaemonSpec => ShutdownIsOrderly
<1>1. DaemonInit => InOrder /\ Orderly!ShutdownInit
  <2> SUFFICES ASSUME DaemonInit PROVE InOrder /\ Orderly!ShutdownInit OBVIOUS
  <2>1. /\ mainPc = "wait" /\ smPc = "select" /\ smKill = 0 /\ lmPc = "select"
        /\ lmKill = 0 /\ loopPc = "check" /\ returned = FALSE
    BY DEF DaemonInit, ClientInit, PipelineInit
  <2>2. InOrder /\ ~SmKilled /\ ~LmKilledOrSent
    BY <2>1 DEF InOrder, SmKilled, LmKilledOrSent
  <2>3. KilledSoFar = 0 BY <2>1 DEF KilledSoFar, One
  <2>4. DeadSoFar = {} BY <2>1 DEF DeadSoFar
  <2>5. QED BY <2>1, <2>2, <2>3, <2>4 DEF Orderly!ShutdownInit
<1>2. DaemonIInv /\ InOrder /\ [DaemonNext]_daemonVars =>
        InOrder' /\ [Orderly!ShutdownNext]_(Orderly!shutdown)
  BY OrderlyStep
<1>3. QED
  BY <1>1, <1>2, DaemonInvariant, PTL
  DEF DaemonSpec, ShutdownIsOrderly, Orderly!ShutdownSpec
=============================================================================
