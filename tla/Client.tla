-------------------------------- MODULE Client --------------------------------
(***************************************************************************)
(* The daemon's connection to the server: the reconnect loop of main       *)
(* (daemon.go), newClient and Client.run with the goroutines run starts    *)
(* (client.go), and the part of main's shutdown that kills the two.        *)
(*                                                                         *)
(* Clients are numbered in the order newClient made them.  The token and   *)
(* the messages have no content here.  What the reader and the token       *)
(* goroutine put on the daemon's channels is left to Daemon.tla: alone,    *)
(* this module lets those sends complete or block as they like.            *)
(***************************************************************************)
EXTENDS Naturals, FiniteSets

CONSTANTS
  OutCap,     \* cap(client.out), 10 in the code
  MaxClients, \* bound: clients made in a behaviour
  MaxAtKill   \* bound: clients made when main's kill may still come

ASSUME ClientAssumption ==
  OutCap \in Nat \ {0} /\ MaxClients \in Nat \ {0} /\ MaxAtKill \in Nat

VARIABLES
  loopPc,     \* the reconnect loop, Client.run's own loop included
  loopKill,   \* messages on main's kill channel
  loopDead,   \* messages on main's dead channel
  client,     \* the global client; 0 is nil
  created,    \* clients made so far
  out,        \* messages on client.out
  kill,       \* per client, the content of its one-place kill channel
  conn,       \* per client, its TCP connection
  exit,       \* per client, why its run returned
  rdr,        \* per client, its decode goroutine
  auth,       \* per client, its token goroutine
  mainPc,     \* main's shutdown
  mainClient, \* the client whose kill channel main sends to
  panic,      \* the unrecovered panic that ended the process
  madeAtKill  \* history: created when main sent kill <- 1

clientVars == <<loopPc, loopKill, loopDead, client, created, out, kill, conn,
                exit, rdr, auth, mainPc, mainClient, panic, madeAtKill>>

loopVars == <<loopPc, loopKill, loopDead>>
mainVars == <<mainPc, mainClient, madeAtKill>>

Clients == 1..MaxClients

ClientInit ==
  /\ loopPc = "check" /\ loopKill = 0 /\ loopDead = 0
  /\ client = 0 /\ created = 0 /\ out = 0
  /\ kill = [c \in Clients |-> "empty"]
  /\ conn = [c \in Clients |-> "none"]
  /\ exit = [c \in Clients |-> "none"]
  /\ rdr = [c \in Clients |-> "none"]
  /\ auth = [c \in Clients |-> "none"]
  /\ mainPc = "wait" /\ mainClient = 0 /\ madeAtKill = 0
  /\ panic = "none"

Alive == panic = "none"

-----------------------------------------------------------------------------
(* The reconnect loop                                                      *)

LoopMove(from, to) == loopPc = from /\ loopPc' = to

\* The loop moves on, and the goroutines and main do not notice.
LoopGoes(from, to) ==
  LoopMove(from, to) /\ UNCHANGED <<kill, conn, exit, rdr, auth, mainVars, panic>>

LoopTakesKill(to) ==
  /\ loopKill = 1 /\ loopKill' = 0
  /\ LoopGoes("check", to) /\ UNCHANGED <<client, created, out>>

\* MUTANT: a break, which leaves the select and not the loop.
LoopStopBreaks == LoopTakesKill("sleep") /\ UNCHANGED loopDead

\* case <-kill
LoopStop == LoopTakesKill("dead") /\ loopDead' = loopDead + 1

\* default, taken only when no kill is there yet
LoopCheck ==
  /\ loopKill = 0 /\ LoopGoes("check", "lookup")
  /\ UNCHANGED <<loopKill, loopDead, client, created, out>>

\* newClient found the address: a client with channels of its own.
LookupOk ==
  /\ created < MaxClients
  /\ created' = created + 1 /\ client' = created + 1 /\ out' = 0
  /\ LoopGoes("lookup", "run") /\ UNCHANGED <<loopKill, loopDead>>

\* newClient failed: the global client becomes nil, and the error is logged.
LookupFails ==
  /\ client' = 0
  /\ LoopGoes("lookup", "run") /\ UNCHANGED <<loopKill, loopDead, created, out>>

\* time.Sleep(5 * time.Second)
LoopSleep ==
  LoopGoes("sleep", "check") /\ UNCHANGED <<loopKill, loopDead, client, created, out>>

-----------------------------------------------------------------------------
(* Client.run, called by the loop                                          *)

\* c.addr with c = nil
RunNil ==
  /\ client = 0 /\ loopPc = "run" /\ panic' = "nilClient"
  /\ UNCHANGED <<loopVars, client, created, out, kill, conn, exit, rdr, auth, mainVars>>

\* Within run only the current client's records change.
RunFrame == UNCHANGED <<loopKill, loopDead, client, created, mainVars, panic>>

\* DialTCP failed, before the deferred clean-up exists: kill stays open.
DialFails ==
  /\ client # 0 /\ LoopMove("run", "sleep")
  /\ exit' = [exit EXCEPT ![client] = "dial"]
  /\ RunFrame /\ UNCHANGED <<out, kill, conn, rdr, auth>>

\* Connected: the token goroutine and the decode goroutine start.
DialOk ==
  /\ client # 0 /\ LoopMove("run", "serve")
  /\ conn' = [conn EXCEPT ![client] = "open"]
  /\ rdr' = [rdr EXCEPT ![client] = "decode"]
  /\ auth' = [auth EXCEPT ![client] = "token"]
  /\ RunFrame /\ UNCHANGED <<out, kill, exit>>

RunGoes(from, to) == LoopGoes(from, to) /\ UNCHANGED <<loopKill, loopDead, client, created>>

\* case msg := <-c.out
RunSend == out > 0 /\ out' = out - 1 /\ RunGoes("serve", "serve")

\* case <-pinger.C: on its way to c.out <- &ServerReq{}
RunTick == RunGoes("serve", "ping") /\ UNCHANGED out

\* MUTANT: the ping is queued without regard to the channel's capacity.
RunPingUnbounded == out' = out + 1 /\ RunGoes("ping", "serve")

\* The ping waits for room on the channel that only this goroutine drains.
RunPing == out < OutCap /\ out' = out + 1 /\ RunGoes("ping", "serve")

RunLeaves(why) ==
  /\ LoopMove("serve", "sleep") /\ exit' = [exit EXCEPT ![client] = why]
  /\ RunFrame /\ UNCHANGED <<rdr, auth>>

\* MUTANT: tcpconn is not closed on the way out.
RunReturnsOpen(why) ==
  RunLeaves(why) /\ kill' = [kill EXCEPT ![client] = "closed"] /\ UNCHANGED conn

\* MUTANT: close(c.kill) is dropped.
RunReturnsKillOpen(why) ==
  RunLeaves(why) /\ conn' = [conn EXCEPT ![client] = "closed"] /\ UNCHANGED kill

\* The deferred function: closes the connection, c.out and c.kill.
RunReturns(why) ==
  /\ RunLeaves(why)
  /\ conn' = [conn EXCEPT ![client] = "closed"]
  /\ kill' = [kill EXCEPT ![client] = "closed"]

\* The encoder failed on a message from c.out.
RunSendFails == out > 0 /\ out' = out - 1 /\ RunReturns("encode")

\* MUTANT: the error is received and the loop goes on.
RunKilledGoesOn ==
  /\ LoopMove("serve", "serve") /\ kill[client] \in {"reader", "interrupt"}
  /\ kill' = [kill EXCEPT ![client] = "empty"]
  /\ RunFrame /\ UNCHANGED <<out, conn, exit, rdr, auth>>

\* case err := <-c.kill
RunKilled ==
  /\ loopPc = "serve" /\ kill[client] \in {"reader", "interrupt"}
  /\ RunReturns(kill[client]) /\ UNCHANGED out

LoopStep ==
  \/ LoopStop \/ LoopCheck \/ LookupOk \/ LookupFails \/ LoopSleep
  \/ RunNil \/ DialFails \/ DialOk
  \/ RunSend \/ RunTick \/ RunPing \/ RunSendFails \/ RunKilled

-----------------------------------------------------------------------------
(* The goroutines Client.run starts                                        *)

\* serverChan <- ServerReq{Token: &t}
AuthToken(c) ==
  /\ auth[c] = "token" /\ auth' = [auth EXCEPT ![c] = "done"]
  /\ UNCHANGED <<loopVars, client, created, out, kill, conn, exit, rdr,
                 mainVars, panic>>

RdrMove(c, from, to) ==
  /\ rdr[c] = from /\ rdr' = [rdr EXCEPT ![c] = to]
  /\ UNCHANGED <<loopVars, client, created, out, conn, exit, auth, mainVars>>

\* decoder.Decode returned a response: a keep-alive, or with content to deliver.
ReaderDecodes(c, next) ==
  RdrMove(c, "decode", next) /\ UNCHANGED <<kill, panic>>

\* decoder.Decode failed (the 5 s read deadline included), or resp.Error is set.
ReaderFails(c) == RdrMove(c, "decode", "fail") /\ UNCHANGED <<kill, panic>>

\* localStateChan <- resp.LocalState, then the PcSignal of the same response.
ReaderState(c) ==
  /\ RdrMove(c, "state", "decode") \/ RdrMove(c, "both", "signal")
  /\ UNCHANGED <<kill, panic>>

\* pcSignalChan <- *resp.PcSignal
ReaderSignal(c) ==
  RdrMove(c, "signal", "decode") /\ UNCHANGED <<kill, panic>>

\* MUTANT: the return after the send is missing.
ReaderReportsAgain(c) ==
  \/ /\ kill[c] = "empty" /\ kill' = [kill EXCEPT ![c] = "reader"]
     /\ RdrMove(c, "fail", "decode") /\ UNCHANGED panic
  \/ /\ kill[c] = "closed" /\ panic' = "reader"
     /\ RdrMove(c, "fail", "done") /\ UNCHANGED kill

\* c.kill <- err: waits while the place is taken, panics once it is closed.
ReaderReports(c) ==
  /\ RdrMove(c, "fail", "done")
  /\ \/ kill[c] = "empty" /\ kill' = [kill EXCEPT ![c] = "reader"] /\ UNCHANGED panic
     \/ kill[c] = "closed" /\ panic' = "reader" /\ UNCHANGED kill

ReaderStep(c) ==
  \/ \E next \in {"decode", "state", "signal", "both"} : ReaderDecodes(c, next)
  \/ ReaderFails(c) \/ ReaderReports(c)

Deliver(c) == AuthToken(c) \/ ReaderState(c) \/ ReaderSignal(c)

-----------------------------------------------------------------------------
(* main, from the interrupt to client.kill                                 *)

\* kill <- 1
KillLoop ==
  /\ mainPc = "wait" /\ created <= MaxAtKill
  /\ loopKill' = loopKill + 1 /\ mainPc' = "target" /\ madeAtKill' = created
  /\ UNCHANGED <<loopPc, loopDead, client, created, out, kill, conn, exit, rdr,
                 auth, mainClient, panic>>

\* client.kill is read: a nil client panics.
MainTarget ==
  /\ mainPc = "target"
  /\ IF client = 0
       THEN panic' = "main" /\ UNCHANGED <<mainPc, mainClient>>
       ELSE mainPc' = "send" /\ mainClient' = client /\ UNCHANGED panic
  /\ UNCHANGED <<loopVars, client, created, out, kill, conn, exit, rdr, auth,
                 madeAtKill>>

\* client.kill <- errors.New(...): waits while the place is taken, panics once
\* run has closed the channel.
MainSend ==
  /\ mainPc = "send"
  /\ \/ /\ kill[mainClient] = "empty" /\ mainPc' = "sent"
        /\ kill' = [kill EXCEPT ![mainClient] = "interrupt"] /\ UNCHANGED panic
     \/ kill[mainClient] = "closed" /\ panic' = "main" /\ UNCHANGED <<kill, mainPc>>
  /\ UNCHANGED <<loopVars, client, created, out, conn, exit, rdr, auth,
                 mainClient, madeAtKill>>

MainKills == KillLoop \/ MainTarget \/ MainSend
-----------------------------------------------------------------------------
ClientNext ==
  /\ Alive
  /\ \/ LoopStep
     \/ \E c \in Clients : ReaderStep(c) \/ Deliver(c)
     \/ MainKills

ClientSpec == ClientInit /\ [][ClientNext]_clientVars

(***************************************************************************)
(* A running goroutine takes its next step.  run's select picks at random  *)
(* among its ready cases, hence SF on the kill case; the reader decodes    *)
(* until the closed connection or the deadline fails it.  No fairness on   *)
(* the interrupt nor on deliveries, which other goroutines may block.      *)
(***************************************************************************)
ClientFairness ==
  /\ WF_clientVars(Alive /\ LoopStep) /\ SF_clientVars(Alive /\ RunKilled)
  /\ \A c \in Clients :
       /\ WF_clientVars(Alive /\ ReaderReports(c))
       /\ SF_clientVars(Alive /\ conn[c] = "closed" /\ ReaderFails(c))
  /\ WF_clientVars(Alive /\ (MainTarget \/ MainSend))

ClientFairSpec == ClientSpec /\ ClientFairness
-----------------------------------------------------------------------------
(* Properties                                                              *)

\* The program points, channels and client records of daemon.go and client.go.
ClientTypeOK ==
  /\ loopPc \in {"check", "lookup", "run", "serve", "ping", "sleep", "dead"}
  /\ loopKill \in 0..1 /\ loopDead \in 0..1
  /\ created \in 0..MaxClients /\ client \in {0, created}
  /\ out \in 0..OutCap
  /\ kill \in [Clients -> {"empty", "reader", "interrupt", "closed"}]
  /\ conn \in [Clients -> {"none", "open", "closed"}]
  /\ exit \in [Clients -> {"none", "dial", "encode", "reader", "interrupt"}]
  /\ rdr \in [Clients -> {"none", "decode", "state", "both", "signal", "fail", "done"}]
  /\ auth \in [Clients -> {"none", "token", "done"}]
  /\ mainPc \in {"wait", "target", "send", "sent"} /\ mainClient \in 0..created
  /\ panic \in {"none", "nilClient", "reader", "main"} /\ madeAtKill \in 0..created

\* However often the server goes away, the daemon holds one connection, that
\* of the current client, and only while the loop is inside Client.run.
OneConnection ==
  \A c \in Clients : conn[c] = "open" => c = client /\ loopPc \in {"serve", "ping"}

\* The decode goroutine crashes the daemon only when run left before it: on an
\* encode error or on main's interrupt (client.go:39-46 against :81, :89).
ReaderPanicsOnlyIfRunLeftFirst ==
  panic = "reader" => \E c \in Clients : exit[c] \in {"encode", "interrupt"}

\* Once main has sent kill, the loop makes at most the one client it was
\* already about to make (daemon.go:70-78).
OneLastClient == mainPc # "wait" => created <= madeAtKill + 1

\* run stuck on the ping it cannot put on the full channel it drains itself.
PingStuck == loopPc = "ping" /\ out = OutCap

\* A read error ends run, unless run is stuck on its own ping or the daemon
\* crashed (client.go:81, :118, :120).
ReadErrorEndsRun ==
  \A c \in Clients :
    (rdr[c] = "fail" /\ exit[c] = "none") ~> (exit[c] # "none" \/ PingStuck \/ ~Alive)

\* A reader that is waiting for main's or the manager's channel to take its message.
Delivering(c) == rdr[c] \in {"state", "both", "signal"}

\* After an encode error the decode goroutine takes the whole daemon down,
\* unless it is held up delivering for good or had reported before run left.
EncodeErrorIsFatal ==
  \A c \in Clients : (exit[c] = "encode") ~> (~Alive \/ []Delivering(c) \/ rdr[c] = "done")

\* daemon.go:85 says that run returns because "daemon was disconnected or we
\* killed it"; neither is meant to end the process from the decode goroutine.
NoReaderPanic == panic # "reader"

\* daemon.go:72, :117: after kill and client.kill the loop does not reconnect,
\* it breaks (unless the daemon crashed or run is stuck on its ping).
InterruptStopsLoop == (mainPc = "sent") ~> (loopPc = "dead" \/ PingStuck \/ ~Alive)
=============================================================================
