--------------------------------- MODULE Peers ---------------------------------
(***************************************************************************)
(* The daemon's connections to other daemons: the functions and goroutines *)
(* of remote.go, and the cases of StateManager.run (daemon.go) that keep   *)
(* the table of connections, peerConnMap.                                  *)
(*                                                                         *)
(* Connections are numbered in the order they were made.  The NAT          *)
(* traversal is a library: between calls of ShimConn it may succeed or     *)
(* fail at any time, and an error from ShimConn.Read makes it fail.  As    *)
(* the code stands nothing calls PeerConn.run, and resolvePeerConns calls  *)
(* dialPeerConnection for peers in the table only (remote.go:157), so the  *)
(* table stays empty.  With Callers there is a caller of both, who may     *)
(* call them when it likes; everything else is as written.                 *)
(*                                                                         *)
(* serverChan always has room here (Pipeline says what happens when it has *)
(* none), and the packets are Tunnel's: a reader here fails or waits.      *)
(***************************************************************************)
EXTENDS Naturals, Sequences, FiniteSets

CONSTANTS
  PeerIds,
  Lists,      \* the non-nil peer lists resolvePeerConns may be given
  Nil,        \* a nil list, the only one StateManager.run has to give
  Callers,    \* somebody dials, and somebody runs connections
  NewCap,     \* cap(newPeerConnChan), 10 in the code
  RemoveCap,  \* cap(removePeerChan), 10
  OutCap,     \* cap(pc.out), 10
  MaxConns    \* bound: connections made in a behaviour

ASSUME PeersAssumption ==
  /\ \A l \in Lists : l \subseteq PeerIds
  /\ Nil \notin Lists /\ Callers \in BOOLEAN
  /\ NewCap \in Nat \ {0} /\ RemoveCap \in Nat \ {0} /\ OutCap \in Nat \ {0}
  /\ MaxConns \in Nat

VARIABLES
  table,     \* peerConnMap: the connection of each peer, 0 for none
  newChan,   \* newPeerConnChan
  removeChan,\* removePeerChan; the connections whose peer id was sent
  smPc,      \* StateManager.run: at its select, or in one of its loops
  todo,      \* the peers its loop has still to come to
  list,      \* the list resolvePeerConns was given last
  smKill,    \* "no", "sent", "taken"
  made,      \* connections made so far
  peer,      \* per connection, its peer
  nat,       \* per connection, its traversal; "read" is inside ShimConn.Read
  udp,       \* per connection, udpConn is not nil
  kill, out, \* per connection, what is on its kill and on its out channel
  run, rdr,  \* per connection, PeerConn.run and its reader goroutine
  shim,      \* per connection, its sideband's kill and dead channels
  exit,      \* history: per connection, why its run left its loop
  early,     \* history: connections removed before they were in the table
  panic

smVars == <<table, smPc, todo, list>>
connVars == <<peer, nat, udp, kill, out, run, rdr, shim, exit>>
peersVars == <<smVars, smKill, newChan, removeChan, made, connVars, early, panic>>

Conns == 1..MaxConns
Known == {p \in PeerIds : table[p] # 0}

PeersInit ==
  /\ table = [p \in PeerIds |-> 0] /\ newChan = <<>> /\ removeChan = <<>>
  /\ smPc = "select" /\ todo = {} /\ list = Nil /\ smKill = "no"
  /\ made = 0 /\ peer = [c \in Conns |-> Nil]
  /\ nat = [c \in Conns |-> "none"] /\ udp = [c \in Conns |-> FALSE]
  /\ kill = [c \in Conns |-> "empty"] /\ out = [c \in Conns |-> 0]
  /\ run = [c \in Conns |-> "off"] /\ rdr = [c \in Conns |-> "off"]
  /\ shim = [c \in Conns |-> "idle"] /\ exit = [c \in Conns |-> "none"]
  /\ early = {} /\ panic = "none"

-----------------------------------------------------------------------------
(* Making a connection                                                     *)

\* _dialPeerConnection: newPeerConnChan <- pc, and then the traversal starts.
Dial(p) ==
  /\ made < MaxConns /\ Len(newChan) < NewCap
  /\ made' = made + 1 /\ newChan' = Append(newChan, made + 1)
  /\ peer' = [peer EXCEPT ![made + 1] = p]
  /\ nat' = [nat EXCEPT ![made + 1] = "connect"]
  /\ UNCHANGED <<udp, kill, out, run, rdr, shim, exit, removeChan, smKill, early, panic>>

CallerDials(p) == Callers /\ Dial(p) /\ UNCHANGED smVars

ConnFrame == UNCHANGED <<smVars, smKill, newChan, made, peer, early>>

CallerRuns(c) ==
  /\ Callers /\ c <= made /\ run[c] = "off"
  /\ run' = [run EXCEPT ![c] = "loop"] /\ rdr' = [rdr EXCEPT ![c] = "read"]
  /\ ConnFrame /\ UNCHANGED <<removeChan, nat, udp, kill, out, shim, exit, panic>>

-----------------------------------------------------------------------------
(* The traversal                                                           *)

NatMove(c, from, to) ==
  /\ nat[c] = from /\ nat' = [nat EXCEPT ![c] = to]
  /\ ConnFrame /\ UNCHANGED <<kill, out, run, rdr, exit, panic>>

NatReads(c) == NatMove(c, "connect", "read") /\ UNCHANGED <<udp, shim, removeChan>>

\* pc.udpConn is set; the connection stays where it is.
NatSucceeds(c) ==
  /\ NatMove(c, "connect", "done") /\ udp' = [udp EXCEPT ![c] = TRUE]
  /\ UNCHANGED <<shim, removeChan>>

NatFails(c) == NatMove(c, "connect", "fail") /\ UNCHANGED <<udp, shim, removeChan>>

\* ShimConn.Read: case <-sc.kill, answered on sc.dead.
ShimKilled(c) ==
  /\ shim[c] = "kill" /\ shim' = [shim EXCEPT ![c] = "dead"]
  /\ NatMove(c, "read", "fail") /\ UNCHANGED <<udp, removeChan>>

\* MUTANT: removePeerChan has no limit.
NatRemovesUnbounded(c) ==
  /\ removeChan' = Append(removeChan, c)
  /\ NatMove(c, "fail", "done") /\ UNCHANGED <<udp, shim>>

\* removePeerChan <- pc.peerId
NatRemoves(c) ==
  /\ Len(removeChan) < RemoveCap /\ removeChan' = Append(removeChan, c)
  /\ NatMove(c, "fail", "done") /\ UNCHANGED <<udp, shim>>

Traversal(c) ==
  NatReads(c) \/ NatSucceeds(c) \/ NatFails(c) \/ ShimKilled(c) \/ NatRemoves(c)

-----------------------------------------------------------------------------
(* PeerConn.run and its reader                                             *)

RunFrame == ConnFrame /\ UNCHANGED <<removeChan, nat, udp>>

\* The deferred function, up to its wait: kill and out are closed.
RunLeaves(c, why) ==
  /\ run[c] = "loop" /\ run' = [run EXCEPT ![c] = "cleanup"]
  /\ kill' = [kill EXCEPT ![c] = "closed"] /\ shim' = [shim EXCEPT ![c] = "kill"]
  /\ exit' = [exit EXCEPT ![c] = why]
  /\ RunFrame /\ UNCHANGED <<rdr, panic>>

\* case pkt := <-pc.out, with a connection that is still nil or takes it.
RunSends(c) ==
  /\ run[c] = "loop" /\ out[c] > 0 /\ out' = [out EXCEPT ![c] = @ - 1]
  /\ panic' = IF udp[c] THEN panic ELSE "nil"
  /\ RunFrame /\ UNCHANGED <<kill, run, rdr, shim, exit>>

\* udpConn.Write failed: return.
RunWriteFails(c) ==
  /\ out[c] > 0 /\ udp[c] /\ out' = [out EXCEPT ![c] = @ - 1] /\ RunLeaves(c, "write")

\* case <-pc.kill: return.
RunKilled(c) == kill[c] \in {"reader", "sm"} /\ RunLeaves(c, kill[c]) /\ UNCHANGED out

RunIsDead(c) ==
  /\ run[c] = "cleanup" /\ run' = [run EXCEPT ![c] = "dead"]
  /\ RunFrame /\ UNCHANGED <<kill, out, rdr, exit, panic>>

\* MUTANT: the wait for sideband.dead is dropped.
RunDiesAtOnce(c) == RunIsDead(c) /\ UNCHANGED shim

\* MUTANT: the send on pc.dead is missing, so the state manager never hears.
RunDiesSilently(c) ==
  /\ run[c] = "cleanup" /\ run' = [run EXCEPT ![c] = "reaped"]
  /\ shim[c] = "dead" /\ shim' = [shim EXCEPT ![c] = "idle"]
  /\ RunFrame /\ UNCHANGED <<kill, out, rdr, exit, panic>>

\* <-pc.sideband.dead, and then pc.dead <- 1.
RunDies(c) ==
  /\ shim[c] = "dead" /\ shim' = [shim EXCEPT ![c] = "idle"] /\ RunIsDead(c)

RunStep(c) == RunSends(c) \/ RunWriteFails(c) \/ RunKilled(c) \/ RunDies(c)

RdrMove(c, from, to) ==
  /\ rdr[c] = from /\ rdr' = [rdr EXCEPT ![c] = to]
  /\ RunFrame /\ UNCHANGED <<out, run, shim, exit>>

\* pc.udpConn.Read fails, or panics while there is no connection yet.
RdrReads(c) ==
  /\ RdrMove(c, "read", "fail") /\ UNCHANGED kill
  /\ panic' = IF udp[c] THEN panic ELSE "nil"

\* MUTANT: the return after the send is missing.
RdrReportsAgain(c) ==
  \/ /\ kill[c] = "empty" /\ kill' = [kill EXCEPT ![c] = "reader"]
     /\ RdrMove(c, "fail", "read") /\ UNCHANGED panic
  \/ /\ kill[c] = "closed" /\ panic' = "reader"
     /\ RdrMove(c, "fail", "done") /\ UNCHANGED kill

\* pc.kill <- 1: waits while the place is taken, panics once it is closed.
RdrReports(c) ==
  /\ RdrMove(c, "fail", "done")
  /\ \/ kill[c] = "empty" /\ kill' = [kill EXCEPT ![c] = "reader"] /\ UNCHANGED panic
     \/ kill[c] = "closed" /\ panic' = "reader" /\ UNCHANGED kill

-----------------------------------------------------------------------------
(* StateManager.run                                                        *)

\* From one program point to another, with the peers its loop will visit.
SmMove(from, to, visit) ==
  /\ smPc = from /\ smPc' = to /\ todo' = visit
  /\ UNCHANGED <<made, peer, udp, rdr, shim, exit>>

SmConnFrame == UNCHANGED <<nat, kill, out, run, panic>>
SmChanFrame == UNCHANGED <<newChan, removeChan, smKill, early>>

\* case ls := <-localStateChan: resolvePeerConns begins.
TakesState(l) ==
  /\ list' = l
  /\ IF l = Nil THEN SmMove("select", "drain", Known)
                ELSE SmMove("select", "dial", l \cap Known)
  /\ UNCHANGED table /\ SmChanFrame /\ SmConnFrame

\* case pcSignal := <-pcSignalChan, for a peer in the table.
TakesSignal(p) ==
  /\ p \in Known /\ SmMove("select", "signal", {p})
  /\ UNCHANGED <<table, list>> /\ SmChanFrame /\ SmConnFrame

\* case packet := <-remoteChan: for every peer, or for the one that has it.
TakesPacket(to) ==
  /\ SmMove("select", "send", to)
  /\ UNCHANGED <<table, list>> /\ SmChanFrame /\ SmConnFrame

\* MUTANT: the entry is added only if the peer has none.
TakesNewOnce ==
  /\ newChan # <<>> /\ newChan' = Tail(newChan) /\ SmMove("select", "select", {})
  /\ table' = IF table[peer[Head(newChan)]] = 0
                THEN [table EXCEPT ![peer[Head(newChan)]] = Head(newChan)] ELSE table
  /\ UNCHANGED <<list, removeChan, smKill, early>> /\ SmConnFrame

\* case newPc := <-newPeerConnChan
TakesNew ==
  /\ newChan # <<>> /\ newChan' = Tail(newChan) /\ SmMove("select", "select", {})
  /\ table' = [table EXCEPT ![peer[Head(newChan)]] = Head(newChan)]
  /\ UNCHANGED <<list, removeChan, smKill, early>> /\ SmConnFrame

Waiting(c) == \E i \in DOMAIN newChan : newChan[i] = c

RemovalTaken ==
  /\ removeChan # <<>> /\ removeChan' = Tail(removeChan) /\ SmMove("select", "select", {})
  /\ early' = IF Waiting(Head(removeChan)) THEN early \cup {Head(removeChan)} ELSE early
  /\ UNCHANGED <<list, newChan, smKill>> /\ SmConnFrame

\* MUTANT: the entry is deleted only if it is already connected.
TakesRemoveConnected ==
  /\ RemovalTaken
  /\ LET p == peer[Head(removeChan)]
     IN  table' = IF table[p] # 0 /\ udp[table[p]] THEN [table EXCEPT ![p] = 0] ELSE table

\* case pid := <-removePeerChan: whatever connection the peer has by now.
TakesRemove == RemovalTaken /\ table' = [table EXCEPT ![peer[Head(removeChan)]] = 0]

\* case <-sm.kill: return, into the deferred function.
TakesKill ==
  /\ smKill = "sent" /\ smKill' = "taken" /\ SmMove("select", "killAll", Known)
  /\ UNCHANGED <<table, list, newChan, removeChan, early>> /\ SmConnFrame

InLoop(at, p) ==
  p \in todo /\ SmMove(at, at, todo \ {p}) /\ UNCHANGED <<table, list>>

\* With no list resolvePeerConns receives from pc.kill.
Drains(p) ==
  /\ InLoop("drain", p) /\ kill[table[p]] # "empty"
  /\ kill' = IF kill[table[p]] = "closed" THEN kill ELSE [kill EXCEPT ![table[p]] = "empty"]
  /\ SmChanFrame /\ UNCHANGED <<nat, out, run, panic>>

\* The peers of the list that the table has are dialled, from this goroutine.
Redials(p) ==
  /\ smPc = "dial" /\ p \in todo /\ todo' = todo \ {p} /\ Dial(p)
  /\ UNCHANGED <<table, list, smPc>>

\* pc.kill <- 1: waits while the place is taken, panics once it is closed.
SmKills(at, p) ==
  /\ InLoop(at, p)
  /\ \/ /\ kill[table[p]] = "empty" /\ kill' = [kill EXCEPT ![table[p]] = "sm"]
        /\ UNCHANGED panic
     \/ kill[table[p]] = "closed" /\ panic' = "sm" /\ UNCHANGED kill
  /\ SmChanFrame /\ UNCHANGED <<nat, out, run>>

\* p.out <- packet, likewise.
Sends(p) ==
  /\ InLoop("send", p)
  /\ IF kill[table[p]] = "closed"
       THEN panic' = "sm" /\ UNCHANGED out
       ELSE /\ out[table[p]] < OutCap /\ out' = [out EXCEPT ![table[p]] = @ + 1]
            /\ UNCHANGED panic
  /\ SmChanFrame /\ UNCHANGED <<nat, kill, run>>

\* peer.sideband.readChan <- pcSignal.Payload: needs somebody in ShimConn.Read.
HandsOver(p) ==
  /\ InLoop("signal", p) /\ nat[table[p]] = "read"
  /\ nat' = [nat EXCEPT ![table[p]] = "connect"]
  /\ SmChanFrame /\ UNCHANGED <<kill, out, run, panic>>

\* <-pc.dead
Reaps(p) ==
  /\ InLoop("reap", p) /\ run[table[p]] = "dead"
  /\ run' = [run EXCEPT ![table[p]] = "reaped"]
  /\ SmChanFrame /\ UNCHANGED <<nat, kill, out, panic>>

Gone == IF list = Nil THEN Known ELSE Known \ list

\* A loop that has visited everybody is left.
NextLoop ==
  /\ todo = {}
  /\ \/ SmMove("drain", "kill", Known) \/ SmMove("dial", "kill", Gone)
     \/ SmMove("kill", "select", {}) \/ SmMove("send", "select", {})
     \/ SmMove("signal", "select", {})
     \/ SmMove("killAll", "reap", Known) \/ SmMove("reap", "dead", {})
  /\ UNCHANGED <<table, list>> /\ SmChanFrame /\ SmConnFrame

InALoop ==
  \/ \E p \in PeerIds : \/ Drains(p) \/ Redials(p) \/ Sends(p) \/ HandsOver(p) \/ Reaps(p)
                        \/ SmKills("kill", p) \/ SmKills("killAll", p)
  \/ NextLoop

AtSelect ==
  \/ \E l \in Lists \cup {Nil} : TakesState(l)
  \/ \E p \in PeerIds : TakesSignal(p) \/ TakesPacket({p} \cap Known)
  \/ TakesPacket(Known) \/ TakesNew \/ TakesRemove

\* main: stateManager.kill <- 1
MainKills ==
  /\ smKill = "no" /\ smKill' = "sent"
  /\ UNCHANGED <<smVars, newChan, removeChan, made, connVars, early, panic>>
-----------------------------------------------------------------------------
PeersNext ==
  /\ panic = "none"
  /\ \/ AtSelect \/ TakesKill \/ InALoop \/ MainKills
     \/ \E p \in PeerIds : CallerDials(p)
     \/ \E c \in Conns : CallerRuns(c) \/ Traversal(c) \/ RunStep(c) \/ RdrReads(c) \/ RdrReports(c)

PeersSpec == PeersInit /\ [][PeersNext]_peersVars

(***************************************************************************)
(* The state manager goes on while it can and, coming back to its select   *)
(* for ever, picks the kill; so does run.  The network, the traversal and  *)
(* the callers are obliged to nothing.                                     *)
(***************************************************************************)
PeersFairness ==
  /\ WF_peersVars(panic = "none" /\ InALoop) /\ SF_peersVars(panic = "none" /\ TakesKill)
  /\ \A c \in Conns :
       /\ WF_peersVars(panic = "none" /\ RunStep(c))
       /\ SF_peersVars(panic = "none" /\ RunKilled(c))
       /\ WF_peersVars(panic = "none" /\ ShimKilled(c))

PeersFairSpec == PeersSpec /\ PeersFairness
-----------------------------------------------------------------------------
(* Properties                                                              *)

\* The program points and channels of remote.go and of the state manager's
\* peer cases; nothing exceeds its capacity.
PeersTypeOK ==
  /\ made \in 0..MaxConns /\ table \in [PeerIds -> 0..made]
  /\ newChan \in Seq(1..made) /\ Len(newChan) <= NewCap
  /\ removeChan \in Seq(1..made) /\ Len(removeChan) <= RemoveCap
  /\ smPc \in {"select", "drain", "dial", "kill", "send", "signal", "killAll", "reap", "dead"}
  /\ todo \subseteq PeerIds /\ list \in Lists \cup {Nil}
  /\ smKill \in {"no", "sent", "taken"}
  /\ peer \in [Conns -> PeerIds \cup {Nil}]
  /\ nat \in [Conns -> {"none", "connect", "read", "fail", "done"}]
  /\ udp \in [Conns -> BOOLEAN] /\ out \in [Conns -> 0..OutCap]
  /\ kill \in [Conns -> {"empty", "reader", "sm", "closed"}]
  /\ run \in [Conns -> {"off", "loop", "cleanup", "dead", "reaped"}]
  /\ rdr \in [Conns -> {"off", "read", "fail", "done"}]
  /\ shim \in [Conns -> {"idle", "kill", "dead"}]
  /\ exit \in [Conns -> {"none", "write", "reader", "sm"}]
  /\ early \subseteq 1..made /\ panic \in {"none", "nil", "reader", "sm"}

\* PeerConn.run reports its death only for a connection that never was one: its
\* clean-up waits for somebody inside ShimConn.Read, where nobody is once the
\* traversal has succeeded (remote.go:113-116, :86).
DeadOnlyUnconnected == \A c \in Conns : run[c] \in {"dead", "reaped"} => ~udp[c]

\* The reader brings the daemon down only when run left on account of a write
\* or of the state manager, never on the reader's own report (remote.go:127).
PeerReaderPanicCause ==
  panic = "reader" => \E c \in Conns : rdr[c] = "done" /\ exit[c] \in {"write", "sm"}

\* A failed connection whose removal was taken is still in the table only if
\* the select took the removal before the addition (daemon.go:229-234): both
\* channels were ready, and neither order is ruled out.
Failed(c) == nat[c] = "done" /\ ~udp[c]
Removing(c) == \E i \in DOMAIN removeChan : removeChan[i] = c
FailedEntryCause ==
  \A p \in Known : Failed(table[p]) /\ ~Removing(table[p]) => table[p] \in early

\* A connection that is made and did not fail, and that the table does not have,
\* was pushed out by another for the same peer: by the later one's addition, or
\* by its failure, which removes whatever the peer has (daemon.go:230, :234).
OrphanCause ==
  \A c \in 1..made :
    (~Waiting(c) /\ table[peer[c]] # c /\ ~Failed(c)) =>
      \E d \in 1..made \ {c} : peer[d] = peer[c] /\ (Failed(d) \/ (d > c /\ ~Waiting(d)))

\* The places where the state manager waits for something that is not there.
SmHung ==
  \E p \in todo : LET c == table[p] IN
    \/ smPc = "drain" /\ kill[c] = "empty"
    \/ smPc = "dial" /\ (Len(newChan) = NewCap \/ made = MaxConns)
    \/ smPc = "signal" /\ nat[c] # "read"
    \/ smPc = "send" /\ out[c] = OutCap /\ run[c] = "off"
    \/ smPc \in {"kill", "killAll"} /\ kill[c] # "empty" /\ run[c] = "off"
    \/ smPc = "reap" /\ (run[c] = "off" \/ (run[c] = "cleanup" /\ nat[c] # "read"))

\* A killed state manager dies with the daemon's connections, or the daemon
\* crashed, or it comes to wait for ever: on a kill nobody sends (remote.go:149),
\* on the channel only it drains (:82), on a sideband nobody reads
\* (daemon.go:208), on a connection nobody runs, or on a clean-up that waits for
\* the sideband (remote.go:114).
PeersShutDownOrHang ==
  (smKill = "sent") ~> (smPc = "dead" \/ panic # "none" \/ []SmHung)
=============================================================================
