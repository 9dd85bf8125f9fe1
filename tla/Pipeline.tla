------------------------------- MODULE Pipeline -------------------------------
(***************************************************************************)
(* The daemon's event pipeline: the StateManager goroutine (daemon.go),    *)
(* the LocalManager goroutine and its capture goroutines (local.go), and   *)
(* the buffered channels that daemon.go's init creates between them.       *)
(*                                                                         *)
(* Channels whose payload no property tells apart are the number of        *)
(* messages they hold.  peerConnMap and xboxPeerMap are left out: as       *)
(* remote.go is written they stay empty in every run of the daemon (see    *)
(* the README), so a PcSignal and a captured packet are received and       *)
(* dropped.                                                                *)
(***************************************************************************)
EXTENDS Naturals, Sequences, FiniteSets

CONSTANTS
  Handles,       \* the capture handles getHandles() opened
  NoHandle,      \* no handle registered for the address yet
  ServerCap,     \* cap(serverChan), 10 in the code
  RemoteCap,     \* cap(remoteChan), 10
  StateCap,      \* cap(localStateChan), 10
  SignalCap,     \* cap(pcSignalChan), 10
  NewXboxCap,    \* cap(newXboxChan), 10
  XboxesCap,     \* cap(lm.xboxes), 5
  ChildrenCap,   \* cap(lm.killChildren), 10
  MaxPackets,    \* bound: packets captured in a behaviour
  MaxDeliveries  \* bound: messages the client hands over in a behaviour

ASSUME PipelineAssumption ==
  /\ IsFiniteSet(Handles) /\ NoHandle \notin Handles
  /\ ServerCap \in Nat \ {0} /\ RemoteCap \in Nat \ {0}
  /\ StateCap \in Nat \ {0} /\ SignalCap \in Nat \ {0}
  /\ NewXboxCap \in Nat \ {0} /\ XboxesCap \in Nat \ {0}
  /\ ChildrenCap \in Nat \ {0}
  /\ MaxPackets \in Nat /\ MaxDeliveries \in Nat

VARIABLES
  serverChan, remoteChan, localStateChan, pcSignalChan, newXboxChan,
  smPc,          \* StateManager.run: at its select, at the update, or gone
  smKill, smDead,
  xboxes,        \* len(localState.Xboxes)
  lmPc,          \* LocalManager.run
  lmKill, lmDead,
  lmXboxes,      \* lm.xboxes: the handles of the XboxHandles in flight
  bcastHandle,   \* xboxHandleMap[broadcast]: runpcap registers no other key
  children,      \* capture goroutines run() still has to kill
  killChildren,  \* tokens on lm.killChildren
  capPc,         \* runpcap, one per handle
  captured,      \* packets captured so far (bounds the model)
  delivered,     \* client messages delivered so far (bounds the model)
  registered,    \* history: XboxHandles ever put on lm.xboxes
  firstSeen,     \* history: the handle of the first of them
  handled,       \* history: events after which run() sends an update
  tokens         \* history: Token requests put on serverChan

serverVars  == <<serverChan, tokens>>
clientChans == <<localStateChan, pcSignalChan, delivered>>
smVars      == <<smPc, smKill, smDead, xboxes, handled>>
lmVars      == <<lmPc, lmKill, lmDead, bcastHandle, children>>
sightings   == <<registered, firstSeen>>
capVars     == <<capPc, captured, sightings>>

pipelineVars ==
  <<serverVars, clientChans, smVars, lmVars, capVars,
    remoteChan, newXboxChan, lmXboxes, killChildren>>

PipelineInit ==
  /\ serverChan = 0 /\ remoteChan = 0 /\ localStateChan = 0
  /\ pcSignalChan = 0 /\ newXboxChan = 0
  /\ smPc = "select" /\ smKill = 0 /\ smDead = 0 /\ xboxes = 0
  /\ lmPc = "select" /\ lmKill = 0 /\ lmDead = 0
  /\ lmXboxes = <<>> /\ bcastHandle = NoHandle
  /\ children = Cardinality(Handles) /\ killChildren = 0
  /\ capPc = [h \in Handles |-> "poll"]
  /\ captured = 0 /\ delivered = 0
  /\ registered = 0 /\ firstSeen = NoHandle /\ handled = 0 /\ tokens = 0

-----------------------------------------------------------------------------
(* What the rest of the daemon puts on the channels                        *)

smIn == <<localStateChan, pcSignalChan, remoteChan, newXboxChan>>
lmChans == <<lmXboxes, killChildren>>

EnvFrame == UNCHANGED <<capVars, lmChans, remoteChan, newXboxChan>>
ManagersFrame == EnvFrame /\ UNCHANGED <<smVars, lmVars>>

\* client.go: the decode goroutine hands over a LocalState.
PutState ==
  /\ localStateChan < StateCap /\ delivered < MaxDeliveries
  /\ localStateChan' = localStateChan + 1 /\ delivered' = delivered + 1
  /\ ManagersFrame /\ UNCHANGED <<serverVars, pcSignalChan>>

\* client.go: the decode goroutine hands over a PcSignal.
PutSignal ==
  /\ pcSignalChan < SignalCap /\ delivered < MaxDeliveries
  /\ pcSignalChan' = pcSignalChan + 1 /\ delivered' = delivered + 1
  /\ ManagersFrame /\ UNCHANGED <<serverVars, localStateChan>>

\* client.go: the goroutine each client starts to send its Token.
PutToken ==
  /\ serverChan < ServerCap /\ delivered < MaxDeliveries
  /\ serverChan' = serverChan + 1 /\ delivered' = delivered + 1
  /\ tokens' = tokens + 1
  /\ ManagersFrame /\ UNCHANGED <<localStateChan, pcSignalChan>>

\* daemon.go main: stateManager.kill <- 1, sent once.
KillSm ==
  /\ smKill = 0 /\ smPc # "dead" /\ smKill' = 1
  /\ EnvFrame
  /\ UNCHANGED <<smPc, smDead, xboxes, handled, serverVars, clientChans, lmVars>>

\* daemon.go main: localManager.kill <- 1, sent once.
KillLm ==
  /\ lmKill = 0 /\ lmPc \in {"select", "announce"} /\ lmKill' = 1
  /\ EnvFrame
  /\ UNCHANGED <<lmPc, lmDead, bcastHandle, children, serverVars, clientChans, smVars>>

-----------------------------------------------------------------------------
(* StateManager.run                                                        *)

\* What its loop never touches.
SmFrame == UNCHANGED <<tokens, delivered, lmVars, lmChans, capVars>>

\* Common to the cases that leave sendUpdate set: the update comes next.
SmHandles ==
  /\ smPc = "select" /\ smPc' = "update" /\ handled' = handled + 1
  /\ SmFrame /\ UNCHANGED <<smKill, smDead, serverChan>>

\* case ls := <-localStateChan
SmState ==
  /\ localStateChan > 0 /\ localStateChan' = localStateChan - 1
  /\ SmHandles /\ UNCHANGED <<xboxes, pcSignalChan, remoteChan, newXboxChan>>

\* case packet := <-remoteChan: no peer to send it to, but sendUpdate stays.
SmPacket ==
  /\ remoteChan > 0 /\ remoteChan' = remoteChan - 1
  /\ SmHandles /\ UNCHANGED <<xboxes, localStateChan, pcSignalChan, newXboxChan>>

\* case newXbox := <-newXboxChan: appended, whether or not it is known.
SmXbox ==
  /\ newXboxChan > 0 /\ newXboxChan' = newXboxChan - 1 /\ xboxes' = xboxes + 1
  /\ SmHandles /\ UNCHANGED <<localStateChan, pcSignalChan, remoteChan>>

SmTakesSignal ==
  /\ smPc = "select" /\ pcSignalChan > 0 /\ pcSignalChan' = pcSignalChan - 1
  /\ SmFrame
  /\ UNCHANGED <<smKill, smDead, xboxes, handled, serverChan, localStateChan,
                 remoteChan, newXboxChan>>

\* MUTANT: the PcSignal case forgets sendUpdate = false.
SmSignalUpdates == SmTakesSignal /\ smPc' = "update"

\* case pcSignal := <-pcSignalChan: the only case that clears sendUpdate.
SmSignal == SmTakesSignal /\ UNCHANGED smPc

SmLeavesUpdate ==
  /\ smPc = "update" /\ smPc' = "select"
  /\ SmFrame /\ UNCHANGED <<smKill, smDead, xboxes, handled, smIn>>

\* MUTANT: the update is sent from a select with a default, and lost when full.
SmUpdateDrops ==
  /\ SmLeavesUpdate
  /\ serverChan' = IF serverChan < ServerCap THEN serverChan + 1 ELSE serverChan

\* serverChan <- ServerReq{LocalState: localState}: blocks while it is full.
SmUpdate ==
  /\ serverChan < ServerCap /\ serverChan' = serverChan + 1 /\ SmLeavesUpdate

SmTakesKill ==
  /\ smPc = "select" /\ smKill = 1 /\ smKill' = 0
  /\ SmFrame /\ UNCHANGED <<xboxes, handled, serverChan, smIn>>

\* MUTANT: a break, which leaves the select and not the loop.
SmDieBreaks == SmTakesKill /\ UNCHANGED <<smPc, smDead>>

\* case <-sm.kill: the deferred clean-up has no peer to wait for.
SmDie == SmTakesKill /\ smPc' = "dead" /\ smDead' = smDead + 1

Sm == SmState \/ SmPacket \/ SmXbox \/ SmSignal \/ SmUpdate \/ SmDie

-----------------------------------------------------------------------------
(* LocalManager.run                                                        *)

\* What its loop never touches.
LmFrame == UNCHANGED <<serverVars, clientChans, smVars, capVars, remoteChan>>

LmTakesXbox ==
  /\ lmPc = "select" /\ lmXboxes # <<>> /\ lmXboxes' = Tail(lmXboxes)
  /\ LmFrame /\ UNCHANGED <<lmKill, lmDead, children, newXboxChan, killChildren>>

FirstHandle == IF bcastHandle = NoHandle THEN Head(lmXboxes) ELSE bcastHandle

\* MUTANT: the address moves to the last handle that saw it.
LmRegisterOverwrites ==
  LmTakesXbox /\ bcastHandle' = Head(lmXboxes) /\ lmPc' = "announce"

\* MUTANT: only an address not known yet is announced.
LmRegisterOnce ==
  /\ LmTakesXbox /\ bcastHandle' = FirstHandle
  /\ lmPc' = IF bcastHandle = NoHandle THEN "announce" ELSE "select"

\* case xh := <-lm.xboxes: the first handle that saw the address keeps it.
LmRegister == LmTakesXbox /\ bcastHandle' = FirstHandle /\ lmPc' = "announce"

\* newXboxChan <- xh.x, outside the !ok test.
LmAnnounce ==
  /\ lmPc = "announce" /\ lmPc' = "select"
  /\ newXboxChan < NewXboxCap /\ newXboxChan' = newXboxChan + 1
  /\ LmFrame /\ UNCHANGED <<lmKill, lmDead, bcastHandle, children, lmChans>>

LmTakesKill ==
  /\ lmPc = "select" /\ lmKill = 1 /\ lmKill' = 0
  /\ LmFrame /\ UNCHANGED <<lmDead, bcastHandle, children, newXboxChan, lmChans>>

\* case <-lm.kill: return, into the deferred function.
LmKilled == LmTakesKill /\ lmPc' = "cleanup"

LmSendsToken ==
  /\ lmPc = "cleanup" /\ children > 0
  /\ killChildren < ChildrenCap /\ killChildren' = killChildren + 1
  /\ LmFrame /\ UNCHANGED <<lmPc, lmKill, lmDead, bcastHandle, newXboxChan, lmXboxes>>

\* MUTANT: the loop sends tokens and forgets children--.
LmKillChildForever == LmSendsToken /\ UNCHANGED children

\* for children > 0 { lm.killChildren <- 1; children-- }
LmKillChild == LmSendsToken /\ children' = children - 1

\* MUTANT: the death is reported from inside the loop over the children.
LmDieEarly ==
  /\ lmPc = "cleanup" /\ lmDead = 0 /\ lmDead' = lmDead + 1
  /\ LmFrame /\ UNCHANGED <<lmPc, lmKill, bcastHandle, children, newXboxChan, lmChans>>

\* lm.dead <- 1
LmDie ==
  /\ lmPc = "cleanup" /\ children = 0 /\ lmPc' = "dead" /\ lmDead' = lmDead + 1
  /\ LmFrame /\ UNCHANGED <<lmKill, bcastHandle, children, newXboxChan, lmChans>>

Lm == LmRegister \/ LmAnnounce \/ LmKilled \/ LmKillChild \/ LmDie

-----------------------------------------------------------------------------
(* LocalManager.runpcap, one goroutine per handle                          *)

CapMove(h, from, to) ==
  /\ capPc[h] = from /\ capPc' = [capPc EXCEPT ![h] = to]
  /\ UNCHANGED <<serverVars, clientChans, smVars, lmVars, newXboxChan>>

CapTakesToken(h, to) ==
  /\ killChildren > 0 /\ killChildren' = killChildren - 1
  /\ CapMove(h, "poll", to) /\ UNCHANGED <<captured, sightings, remoteChan, lmXboxes>>

\* MUTANT: a break, which leaves the select and not the loop.
CapExitBreaks(h) == CapTakesToken(h, "poll")

\* case <-lm.killChildren: return
CapExit(h) == CapTakesToken(h, "exited")

\* default: into pcap.Next(), only when no kill token is ready.
CapPoll(h) ==
  /\ killChildren = 0 /\ CapMove(h, "poll", "next")
  /\ UNCHANGED <<captured, sightings, remoteChan, lmChans>>

\* pcap.Next() timed out.
CapTimeout(h) ==
  CapMove(h, "next", "poll") /\ UNCHANGED <<captured, sightings, remoteChan, lmChans>>

\* pcap.Next() returned a packet; a broadcast one is registered first.
CapPacket(h, broadcast) ==
  /\ captured < MaxPackets /\ captured' = captured + 1
  /\ CapMove(h, "next", IF broadcast THEN "register" ELSE "forward")
  /\ UNCHANGED <<sightings, remoteChan, lmChans>>

\* MUTANT: the sighting is queued without regard to the channel's capacity.
CapRegisterUnbounded(h) ==
  /\ lmXboxes' = Append(lmXboxes, h) /\ registered' = registered + 1
  /\ firstSeen' = IF registered = 0 THEN h ELSE firstSeen
  /\ CapMove(h, "register", "forward") /\ UNCHANGED <<captured, remoteChan, killChildren>>

\* lm.xboxes <- XboxHandle{packet.Dst, handle}
CapRegister(h) ==
  /\ Len(lmXboxes) < XboxesCap /\ lmXboxes' = Append(lmXboxes, h)
  /\ registered' = registered + 1
  /\ firstSeen' = IF registered = 0 THEN h ELSE firstSeen
  /\ CapMove(h, "register", "forward") /\ UNCHANGED <<captured, remoteChan, killChildren>>

CapSends(h) ==
  /\ remoteChan' = remoteChan + 1
  /\ CapMove(h, "forward", "poll") /\ UNCHANGED <<captured, sightings, lmChans>>

\* MUTANT: the packet is queued without regard to the channel's capacity.
CapForwardUnbounded(h) == CapSends(h)

\* remoteChan <- packet
CapForward(h) == remoteChan < RemoteCap /\ CapSends(h)

CapStep(h) ==
  CapExit(h) \/ CapPoll(h) \/ CapTimeout(h) \/ CapRegister(h) \/ CapForward(h)

Cap(h) == CapStep(h) \/ \E b \in BOOLEAN : CapPacket(h, b)

-----------------------------------------------------------------------------
Environment == PutState \/ PutSignal \/ PutToken \/ KillSm \/ KillLm

PipelineNext == Sm \/ Lm \/ (\E h \in Handles : Cap(h)) \/ Environment

PipelineSpec == PipelineInit /\ [][PipelineNext]_pipelineVars

(***************************************************************************)
(* Go runs every ready goroutine, and a select picks among its ready cases *)
(* at random: a kill that stays on its channel is picked eventually if the *)
(* loop keeps coming back to its select, hence SF on the two kill cases.   *)
(* Nothing is assumed of the environment or of the network card.           *)
(***************************************************************************)
PipelineFairness ==
  /\ WF_pipelineVars(Sm) /\ SF_pipelineVars(SmDie)
  /\ WF_pipelineVars(Lm) /\ SF_pipelineVars(LmKilled)
  /\ \A h \in Handles : WF_pipelineVars(CapStep(h))

PipelineFairSpec == PipelineSpec /\ PipelineFairness
-----------------------------------------------------------------------------
(* Properties                                                              *)

\* Every channel stays within the capacity init() and newLocalManager() gave
\* it, and every goroutine is at one of its program points.
TypeOK ==
  /\ serverChan \in 0..ServerCap /\ remoteChan \in 0..RemoteCap
  /\ localStateChan \in 0..StateCap /\ pcSignalChan \in 0..SignalCap
  /\ newXboxChan \in 0..NewXboxCap
  /\ smPc \in {"select", "update", "dead"} /\ smKill \in 0..1 /\ smDead \in 0..1
  /\ xboxes \in Nat
  /\ lmPc \in {"select", "announce", "cleanup", "dead"}
  /\ lmKill \in 0..1 /\ lmDead \in 0..1
  /\ lmXboxes \in Seq(Handles) /\ Len(lmXboxes) <= XboxesCap
  /\ bcastHandle \in Handles \cup {NoHandle}
  /\ children \in Nat /\ killChildren \in 0..ChildrenCap
  /\ capPc \in [Handles -> {"poll", "next", "register", "forward", "exited"}]
  /\ captured \in Nat /\ delivered \in Nat
  /\ firstSeen \in Handles \cup {NoHandle}
  /\ registered \in Nat /\ handled \in Nat /\ tokens \in Nat

One(cond) == IF cond THEN 1 ELSE 0

\* No sighting of a console is lost or doubled on its way through lm.xboxes,
\* LocalManager.run, newXboxChan and localState.Xboxes, shutdown included.
XboxConservation ==
  registered = Len(lmXboxes) + One(lmPc = "announce") + newXboxChan + xboxes

\* StateManager.run sends exactly one update for every LocalState, packet and
\* console it takes, and none for a PcSignal.
UpdateAccounting ==
  handled + tokens = serverChan + One(smPc = "update")

\* Nothing in the daemon receives from serverChan (daemon.go:38, :244), so
\* StateManager.run handles at most cap(serverChan) + 1 events in its life.
LifetimeBound == handled <= ServerCap + 1

Exited == {h \in Handles : capPc[h] = "exited"}

\* LocalManager.run's clean-up issues one kill token per capture goroutine,
\* and every goroutine that stopped took exactly one of them.
KillTokenAccounting ==
  children + killChildren + Cardinality(Exited) = Cardinality(Handles)

\* Whatever other handles see it, and however the sightings queue up, an address
\* belongs to the handle that saw it first (local.go:84, :113).
FirstHandleWins == bcastHandle \in {NoHandle, firstSeen}

\* The states in which the goroutines block for good: StateManager.run on
\* serverChan, LocalManager.run on newXboxChan, a capture goroutine on a channel
\* whose receiver is gone, and the clean-up on tokens for such goroutines.
SmStuck == smPc = "update" /\ serverChan = ServerCap
NoStateManager == smPc = "dead" \/ SmStuck
AnnounceStuck == lmPc = "announce" /\ newXboxChan = NewXboxCap /\ NoStateManager
NoLocalManager == lmPc \in {"cleanup", "dead"} \/ AnnounceStuck
CapStuck(h) ==
  \/ capPc[h] = "register" /\ Len(lmXboxes) = XboxesCap /\ NoLocalManager
  \/ capPc[h] = "forward" /\ remoteChan = RemoteCap /\ NoStateManager
CapsStopped == \A h \in Handles : capPc[h] = "exited" \/ CapStuck(h)
CleanupStuck ==
  lmPc = "cleanup" /\ children > 0 /\ killChildren = ChildrenCap /\ CapsStopped
LmStuck == AnnounceStuck \/ CleanupStuck

\* A killed manager stops, unless it blocks for good: the StateManager on
\* serverChan, the LocalManager on newXboxChan, which the StateManager has left,
\* or on tokens no blocked goroutine will take.
ManagersObeyKill ==
  /\ (smKill = 1) ~> (smPc = "dead" \/ SmStuck)
  /\ (lmKill = 1) ~> (lmPc = "dead" \/ LmStuck)

\* After LocalManager.run is dead no capture goroutine goes on for ever: each
\* takes its token or blocks on a channel nobody drains.
CapturesQuiesce == (lmPc = "dead") ~> CapsStopped

\* The chain from runpcap through lm.xboxes, LocalManager.run and newXboxChan to
\* localState.Xboxes keeps the promise of a bounded pipe: every sighting that
\* went in comes out once, and as many can be on the way as the two channels
\* and LocalManager.run's hands hold.
Sightings ==
  INSTANCE BoundedPipe WITH Depth <- XboxesCap + 1 + NewXboxCap,
                            put <- registered, taken <- xboxes
SightingsArePiped == Sightings!PipeSpec

\* Both managers are workers main may kill and wait for: whatever they are in
\* the middle of, they report one death, only when told, and nothing after it.
SmWorker ==
  INSTANCE Worker WITH told <- smKill = 1 \/ smPc = "dead",
                       alive <- smPc # "dead", reports <- smDead
LmWorker ==
  INSTANCE Worker WITH told <- lmKill = 1 \/ lmPc \in {"cleanup", "dead"},
                       alive <- lmPc # "dead", reports <- lmDead
ManagersAreWorkers == SmWorker!WorkerSpec /\ LmWorker!WorkerSpec
=============================================================================
