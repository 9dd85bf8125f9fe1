----------------------------- MODULE ClientProofs -----------------------------
(***************************************************************************)
(* What holds of the reconnect loop, Client.run and main's kills for any   *)
(* number of clients and any capacity of client.out.                       *)
(*                                                                         *)
(* The inductive invariant adds to the types and to the one-connection     *)
(* rule what the goroutines know of each other: a client that newClient    *)
(* has not made, or that run has not dialled, has no reader yet (Fresh);   *)
(* a reader that ended run is done (Reported); and from main's kill on the *)
(* loop holds the message or is gone (KillHeld).                           *)
(*                                                                         *)
(* The end is about what shutdown meets: a ping that is stuck for good,    *)
(* and an interrupt that waits on the kill channel until run takes it.     *)
(***************************************************************************)
EXTENDS Client, TLAPS

USE ClientAssumption DEF ClientAssumption, Clients, loopVars, mainVars,
        LoopMove, LoopGoes, LoopTakesKill, RunFrame, RunGoes, RunLeaves

\* Nothing has happened to a client before its run dials, but main's kill.
Fresh ==
  /\ \A c \in Clients : c > created =>
       rdr[c] = "none" /\ exit[c] = "none" /\ kill[c] = "empty" /\ conn[c] = "none"
  /\ loopPc = "run" /\ client # 0 =>
       rdr[client] = "none" /\ exit[client] = "none" /\ kill[client] \in {"empty", "interrupt"}
  /\ loopPc \in {"serve", "ping"} => client # 0

\* run closes kill, and it ends on the reader's error only after the reader.
Reported ==
  \A c \in Clients :
    /\ kill[c] = "closed" => exit[c] \in {"encode", "reader", "interrupt"}
    /\ kill[c] = "reader" \/ exit[c] = "reader" => rdr[c] = "done"

\* From main's kill on, the message is there for the loop until the loop ends.
KillHeld ==
  /\ mainPc = "wait" => loopKill = 0 /\ loopPc # "dead"
  /\ mainPc # "wait" => loopKill = 1 \/ loopPc = "dead"
  /\ mainPc # "wait" /\ loopPc = "lookup" => created <= madeAtKill
  /\ loopPc # "dead" => loopDead = 0

ClientIInv ==
  /\ ClientTypeOK /\ OneConnection /\ Fresh /\ Reported /\ KillHeld
  /\ ReaderPanicsOnlyIfRunLeftFirst /\ OneLastClient

-----------------------------------------------------------------------------
\* The loop's own steps, outside Client.run.
LEMMA LoopOutsideRun ==
  ASSUME ClientIInv, Alive, LoopStop \/ LoopCheck \/ LookupOk \/ LookupFails \/ LoopSleep
  PROVE  ClientIInv'
<1> USE DEF ClientIInv, ClientTypeOK, OneConnection, Fresh, Reported, KillHeld,
            ReaderPanicsOnlyIfRunLeftFirst, OneLastClient, LoopMove
<1>1. CASE LoopStop BY <1>1 DEF LoopStop
<1>2. CASE LoopCheck BY <1>2 DEF LoopCheck
<1>3. CASE LookupOk BY <1>3 DEF LookupOk
<1>4. CASE LookupFails BY <1>4 DEF LookupFails
<1>5. CASE LoopSleep BY <1>5 DEF LoopSleep
<1>6. QED BY <1>1, <1>2, <1>3, <1>4, <1>5

\* Client.run from its call to its return.
LEMMA LoopInsideRun ==
  ASSUME ClientIInv, Alive,
         \/ RunNil \/ DialFails \/ DialOk \/ RunSend \/ RunTick \/ RunPing
         \/ RunSendFails \/ RunKilled
  PROVE  ClientIInv'
<1> USE DEF ClientIInv, ClientTypeOK, OneConnection, Fresh, Reported, KillHeld,
            ReaderPanicsOnlyIfRunLeftFirst, OneLastClient, LoopMove, Alive
<1>1. CASE RunNil BY <1>1 DEF RunNil
<1>2. CASE DialFails BY <1>2 DEF DialFails
<1>3. CASE DialOk BY <1>3 DEF DialOk
<1>4. CASE RunSend BY <1>4 DEF RunSend
<1>5. CASE RunTick BY <1>5 DEF RunTick
<1>6. CASE RunPing BY <1>6 DEF RunPing
<1>7. CASE RunSendFails BY <1>7 DEF RunSendFails, RunReturns
<1>8. CASE RunKilled BY <1>8 DEF RunKilled, RunReturns
<1>9. QED BY <1>1, <1>2, <1>3, <1>4, <1>5, <1>6, <1>7, <1>8

\* The goroutines that run starts.  ReaderReports is the one that can panic.
LEMMA GoroutineSteps ==
  ASSUME ClientIInv, Alive, NEW c \in Clients, ReaderStep(c) \/ Deliver(c)
  PROVE  ClientIInv'
<1> USE DEF ClientIInv, ClientTypeOK, OneConnection, Fresh, Reported, KillHeld,
            ReaderPanicsOnlyIfRunLeftFirst, OneLastClient, RdrMove, Alive
<1>1. ASSUME NEW next \in {"decode", "state", "signal", "both"}, ReaderDecodes(c, next)
      PROVE  ClientIInv'
  BY <1>1 DEF ReaderDecodes
<1>2. CASE ReaderFails(c) BY <1>2 DEF ReaderFails
<1>3. CASE ReaderReports(c) BY <1>3 DEF ReaderReports
<1>4. CASE AuthToken(c) BY <1>4 DEF AuthToken
<1>5. CASE ReaderState(c)
  <2>1. UNCHANGED <<loopVars, client, created, out, kill, conn, exit, auth, mainVars, panic>>
    BY <1>5 DEF ReaderState
  <2>2. \E to \in {"decode", "signal"} : rdr[c] \in {"state", "both"} /\ rdr' = [rdr EXCEPT ![c] = to]
    BY <1>5 DEF ReaderState
  <2>3. QED BY <2>1, <2>2
<1>6. CASE ReaderSignal(c) BY <1>6 DEF ReaderSignal
<1>7. QED BY <1>1, <1>2, <1>3, <1>4, <1>5, <1>6 DEF ReaderStep, Deliver

\* main's three sends.
LEMMA MainSteps ==
  ASSUME ClientIInv, Alive, MainKills PROVE ClientIInv'
<1> USE DEF ClientIInv, ClientTypeOK, OneConnection, Fresh, Reported, KillHeld,
            ReaderPanicsOnlyIfRunLeftFirst, OneLastClient, Alive
<1>1. CASE KillLoop BY <1>1 DEF KillLoop
<1>2. CASE MainTarget BY <1>2 DEF MainTarget
<1>3. CASE MainSend BY <1>3 DEF MainSend
<1>4. QED BY <1>1, <1>2, <1>3 DEF MainKills

\* The invariant holds at the start.
LEMMA InitClientIInv == ClientInit => ClientIInv
BY DEF ClientInit, ClientIInv, ClientTypeOK, OneConnection, Fresh, Reported, KillHeld,
       ReaderPanicsOnlyIfRunLeftFirst, OneLastClient

\* Every step keeps the invariant.
LEMMA StepClientIInv == ClientIInv /\ [ClientNext]_clientVars => ClientIInv'
<1> SUFFICES ASSUME ClientIInv, [ClientNext]_clientVars PROVE ClientIInv' OBVIOUS
<1>1. CASE ClientNext
  BY <1>1, LoopOutsideRun, LoopInsideRun, GoroutineSteps, MainSteps DEF ClientNext, LoopStep
<1>2. CASE UNCHANGED clientVars
  BY <1>2 DEF clientVars, ClientIInv, ClientTypeOK, OneConnection, Fresh, Reported,
              KillHeld, ReaderPanicsOnlyIfRunLeftFirst, OneLastClient
<1>3. QED BY <1>1, <1>2

\* ClientIInv is an invariant of the connection.
THEOREM ClientInvariant == ClientSpec => []ClientIInv
BY InitClientIInv, StepClientIInv, PTL DEF ClientSpec

\* The types of daemon.go's loop and client.go hold in every run.
THEOREM ClientTypes == ClientSpec => []ClientTypeOK
<1>1. ClientIInv => ClientTypeOK BY DEF ClientIInv
<1>2. QED BY <1>1, ClientInvariant, PTL

\* The daemon never holds two connections, however often it reconnects.
THEOREM SingleConnection == ClientSpec => []OneConnection
<1>1. ClientIInv => OneConnection BY DEF ClientIInv
<1>2. QED BY <1>1, ClientInvariant, PTL

\* The decode goroutine can only bring the daemon down after run returned on an
\* encode error or on main's interrupt.
THEOREM ReaderPanicCause == ClientSpec => []ReaderPanicsOnlyIfRunLeftFirst
<1>1. ClientIInv => ReaderPanicsOnlyIfRunLeftFirst BY DEF ClientIInv
<1>2. QED BY <1>1, ClientInvariant, PTL

\* After main's kill the loop makes at most one more client.
THEOREM AtMostOneMoreClient == ClientSpec => []OneLastClient
<1>1. ClientIInv => OneLastClient BY DEF ClientIInv
<1>2. QED BY <1>1, ClientInvariant, PTL

\* A ping that waits for room waits for ever: only RunPing leaves that point.
LEMMA PingStaysStuck ==
  ASSUME ClientTypeOK, [ClientNext]_clientVars, PingStuck PROVE PingStuck'
<1> USE DEF PingStuck, ClientTypeOK
<1>1. CASE LoopStep
  BY <1>1 DEF LoopStep, LoopMove, LoopStop, LoopCheck, LookupOk, LookupFails, LoopSleep,
              RunNil, DialFails, DialOk, RunSend, RunTick, RunPing, RunSendFails,
              RunKilled, RunReturns
<1>2. ASSUME NEW c \in Clients, ReaderStep(c) \/ Deliver(c) PROVE PingStuck'
  BY <1>2 DEF ReaderStep, ReaderDecodes, ReaderFails, ReaderReports, RdrMove, Deliver,
              AuthToken, ReaderState, ReaderSignal
<1>3. CASE MainKills BY <1>3 DEF MainKills, KillLoop, MainTarget, MainSend
<1>4. CASE UNCHANGED clientVars BY <1>4 DEF clientVars
<1>5. QED BY <1>1, <1>2, <1>3, <1>4 DEF ClientNext

\* Client.run that waits to put its ping on the full client.out, which only it
\* drains, is stuck for good: no kill, no read error and no other step frees it.
THEOREM StuckPingStays == ClientSpec => [](PingStuck => []PingStuck)
<1>1. ClientIInv /\ [ClientNext]_clientVars => (PingStuck => PingStuck')
  BY PingStaysStuck DEF ClientIInv
<1>2. QED BY <1>1, ClientInvariant, PTL DEF ClientSpec
-----------------------------------------------------------------------------
\* main's interrupt, sent to the client that the loop is running or about to run,
\* is on its kill channel until run returns: nothing takes its place there.
InterruptHeld ==
  /\ mainPc \in {"send", "sent"} => mainClient \in Clients
  /\ mainPc = "sent" /\ client = mainClient /\ loopPc \in {"run", "serve", "ping"} =>
       kill[client] = "interrupt"

\* Every step leaves the interrupt in place, or takes the loop out of run, or puts
\* another client in place of the one main sent to.
LEMMA InterruptStep ==
  ASSUME ClientTypeOK, InterruptHeld, [ClientNext]_clientVars PROVE InterruptHeld'
<1> USE DEF InterruptHeld, ClientTypeOK
<1>1. CASE LoopStop \/ LoopCheck \/ LookupOk \/ LookupFails \/ LoopSleep
  BY <1>1 DEF LoopStop, LoopCheck, LookupOk, LookupFails, LoopSleep, LoopMove
<1>2. CASE RunNil \/ DialFails \/ DialOk \/ RunSend \/ RunTick \/ RunPing
  BY <1>2 DEF RunNil, DialFails, DialOk, RunSend, RunTick, RunPing, LoopMove
<1>3. CASE RunSendFails \/ RunKilled
  BY <1>3 DEF RunSendFails, RunKilled, RunReturns, LoopMove
<1>4. ASSUME NEW c \in Clients, ReaderStep(c) \/ Deliver(c) PROVE InterruptHeld'
  BY <1>4 DEF ReaderStep, ReaderDecodes, ReaderFails, ReaderReports, RdrMove, Deliver,
              AuthToken, ReaderState, ReaderSignal
<1>5. CASE MainKills BY <1>5 DEF MainKills, KillLoop, MainTarget, MainSend
<1>6. CASE UNCHANGED clientVars BY <1>6 DEF clientVars
<1>7. QED BY <1>1, <1>2, <1>3, <1>4, <1>5, <1>6 DEF ClientNext, LoopStep

\* An interrupt sent to the client in use is not lost, however the reader and run
\* race for the one-place channel (client.go:26, daemon.go:117): a shutdown that
\* misses the loop has read client.kill before the loop made a new client.
THEOREM InterruptsAreHeld == ClientSpec => []InterruptHeld
<1>1. ClientInit => InterruptHeld BY DEF ClientInit, InterruptHeld
<1>2. ClientIInv /\ InterruptHeld /\ [ClientNext]_clientVars => InterruptHeld'
  BY InterruptStep DEF ClientIInv
<1>3. QED BY <1>1, <1>2, ClientInvariant, PTL DEF ClientSpec
=============================================================================
