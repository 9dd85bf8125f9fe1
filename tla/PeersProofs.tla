------------------------------ MODULE PeersProofs ------------------------------
(***************************************************************************)
(* What holds of the peer connections for any peers, connections and       *)
(* capacities.  The inductive invariant IInv has three parts.  ConnInv     *)
(* ties the state of one connection together: who may be inside            *)
(* ShimConn.Read, who has answered, and who has sent what on kill.         *)
(* TableInv says where a connection may be: its number and its peer fit    *)
(* the entry it has, and a removal is of a connection that failed.         *)
(* FailedEntryCause and OrphanCause are inductive relative to both.        *)
(*                                                                         *)
(* Most steps change none of what TableInv is about; StepKinds says so     *)
(* once, and the table's part of the proof has five cases instead of one   *)
(* for each action.                                                        *)
(*                                                                         *)
(* CleanupInv, over IInv, is about a state manager that was killed: the    *)
(* peers it has visited have been waited for, which with ConnInv leaves    *)
(* no way out for one that is connected.                                   *)
(***************************************************************************)
EXTENDS Peers, SequenceTheorems, TLAPS

USE PeersAssumption DEF PeersAssumption

\* One connection's traversal, run, reader and channels.
ConnOK(c) ==
  /\ nat[c] # "none" => c <= made
  /\ c <= made => peer[c] \in PeerIds
  /\ udp[c] => nat[c] = "done"
  /\ shim[c] = "dead" => nat[c] \in {"fail", "done"} /\ ~udp[c]
  /\ run[c] \in {"dead", "reaped"} => nat[c] \in {"fail", "done"} /\ ~udp[c]
  /\ run[c] = "off" => rdr[c] = "off"
  /\ kill[c] = "reader" => rdr[c] = "done"
  /\ exit[c] = "reader" => rdr[c] = "done"
  /\ kill[c] = "closed" => exit[c] # "none"
ConnInv == \A c \in Conns : ConnOK(c)

\* A connection that waits was made after those in the table and those that
\* wait before it; an entry is of the peer it stands for; what is to be removed
\* failed, and what failed while it waited is still to be removed, or was early.
TableInv ==
  /\ \A i, j \in DOMAIN newChan : i < j => newChan[i] < newChan[j]
  /\ \A i \in DOMAIN newChan : \A p \in PeerIds : table[p] < newChan[i]
  /\ \A i \in DOMAIN removeChan : Failed(removeChan[i])
  /\ \A p \in Known : peer[table[p]] = p
  /\ \A c \in 1..made : Waiting(c) /\ Failed(c) /\ ~Removing(c) => c \in early

IInv ==
  /\ PeersTypeOK /\ ConnInv /\ PeerReaderPanicCause
  /\ TableInv /\ FailedEntryCause /\ OrphanCause

-----------------------------------------------------------------------------
(* Types                                                                   *)

\* The initial state.
LEMMA InitInv == PeersInit => IInv
<1> SUFFICES ASSUME PeersInit PROVE IInv OBVIOUS
<1>1. PeersTypeOK BY DEF PeersInit, PeersTypeOK, Conns
<1>2. ConnInv BY DEF PeersInit, ConnInv, ConnOK, Conns
<1>3. TableInv /\ FailedEntryCause /\ OrphanCause /\ PeerReaderPanicCause
  BY DEF PeersInit, TableInv, FailedEntryCause, OrphanCause, PeerReaderPanicCause, Known
<1>4. QED BY <1>1, <1>2, <1>3 DEF IInv

\* An update keeps a function's type, be the argument in its domain or not.
LEMMA UpdateTyped ==
  ASSUME NEW D, NEW S, NEW f \in [D -> S], NEW q, NEW v, q \in D => v \in S
  PROVE  [f EXCEPT ![q] = v] \in [D -> S]
<1>1. CASE q \in D BY <1>1
<1>2. CASE q \notin D BY <1>2
<1>3. QED BY <1>1, <1>2

\* What receiving from a channel yields and leaves.
LEMMA QueueTaken ==
  ASSUME NEW S, NEW s \in Seq(S), s # <<>>, NEW n \in Nat, Len(s) <= n
  PROVE  Head(s) \in S /\ Tail(s) \in Seq(S) /\ Len(Tail(s)) <= n
<1>1. Head(s) \in S /\ Tail(s) \in Seq(S) /\ Len(Tail(s)) = Len(s) - 1
  BY HeadTailProperties
<1>2. Len(s) \in Nat BY LenProperties
<1>3. QED BY <1>1, <1>2

\* The steps of the state manager that touch the table's and the loop's
\* variables keep the types.
LEMMA SmTypes ==
  ASSUME PeersTypeOK, ConnInv,
         \/ AtSelect \/ TakesKill \/ NextLoop \/ MainKills
         \/ \E p \in PeerIds : Drains(p) \/ Sends(p) \/ HandsOver(p) \/ Reaps(p)
                               \/ SmKills("kill", p) \/ SmKills("killAll", p)
  PROVE  PeersTypeOK'
<1> USE DEF PeersTypeOK, Conns, SmConnFrame, SmChanFrame
<1>1. ASSUME NEW l \in Lists \cup {Nil}, TakesState(l) PROVE PeersTypeOK'
  BY <1>1 DEF TakesState, SmMove, Known
<1>2. ASSUME NEW p \in PeerIds, TakesSignal(p) PROVE PeersTypeOK'
  BY <1>2 DEF TakesSignal, SmMove, Known
<1>3. ASSUME NEW to \in SUBSET PeerIds, TakesPacket(to) PROVE PeersTypeOK'
  BY <1>3 DEF TakesPacket, SmMove
<1>4. CASE TakesNew
  <2>1. Head(newChan) \in 1..made /\ Tail(newChan) \in Seq(1..made)
        /\ Len(Tail(newChan)) <= NewCap
    <3>1. newChan \in Seq(1..made) /\ newChan # <<>> /\ Len(newChan) <= NewCap
      BY <1>4 DEF TakesNew
    <3>2. NewCap \in Nat OBVIOUS
    <3> HIDE DEF PeersTypeOK
    <3>3. QED BY <3>1, <3>2, QueueTaken
  <2>2. table' \in [PeerIds -> 0..made]
    <3>1. Head(newChan) \in 0..made BY <2>1
    <3>2. QED BY <1>4, <3>1, UpdateTyped DEF TakesNew
  <2>3. QED BY <1>4, <2>1, <2>2 DEF TakesNew, SmMove
<1>5. CASE TakesRemove
  <2>1. Head(removeChan) \in 1..made /\ Tail(removeChan) \in Seq(1..made)
        /\ Len(Tail(removeChan)) <= RemoveCap
    <3>1. removeChan \in Seq(1..made) /\ removeChan # <<>> /\ Len(removeChan) <= RemoveCap
      BY <1>5 DEF TakesRemove, RemovalTaken
    <3>2. RemoveCap \in Nat OBVIOUS
    <3> HIDE DEF PeersTypeOK
    <3>3. QED BY <3>1, <3>2, QueueTaken
  <2>2. table' \in [PeerIds -> 0..made]
    <3>1. 0 \in 0..made OBVIOUS
    <3>2. QED BY <1>5, <3>1, UpdateTyped DEF TakesRemove
  <2>3. early' \subseteq 1..made BY <1>5, <2>1 DEF TakesRemove, RemovalTaken
  <2>4. QED BY <1>5, <2>1, <2>2, <2>3 DEF TakesRemove, RemovalTaken, SmMove
<1>6. CASE TakesKill BY <1>6 DEF TakesKill, SmMove, Known
<1>7. CASE NextLoop BY <1>7 DEF NextLoop, SmMove, Known, Gone
<1>8. CASE MainKills BY <1>8 DEF MainKills, smVars, connVars
<1>9. ASSUME NEW p \in PeerIds, Drains(p) PROVE PeersTypeOK'
  BY <1>9 DEF Drains, InLoop, SmMove
<1>10. ASSUME NEW p \in PeerIds, Sends(p) PROVE PeersTypeOK'
  <2>1. out' \in [Conns -> 0..OutCap]
    <3>1. CASE kill[table[p]] = "closed" BY <1>10, <3>1 DEF Sends
    <3>2. CASE kill[table[p]] # "closed"
      <4>1. out[table[p]] < OutCap /\ out' = [out EXCEPT ![table[p]] = out[table[p]] + 1]
        BY <1>10, <3>2 DEF Sends
      <4>2. ASSUME table[p] \in Conns PROVE out' \in [Conns -> 0..OutCap]
        <5>1. out[table[p]] + 1 \in 0..OutCap BY <4>1, <4>2
        <5>2. QED BY <4>1, <4>2, <5>1
      <4>3. ASSUME table[p] \notin Conns PROVE out' \in [Conns -> 0..OutCap]
        BY <4>1, <4>3
      <4>4. QED BY <4>2, <4>3
    <3>3. QED BY <3>1, <3>2
  <2>2. panic' \in {"none", "nil", "reader", "sm"} BY <1>10 DEF Sends
  <2>3. QED BY <1>10, <2>1, <2>2 DEF Sends, InLoop, SmMove
<1>11. ASSUME NEW p \in PeerIds, HandsOver(p) PROVE PeersTypeOK'
  BY <1>11 DEF HandsOver, InLoop, SmMove
<1>12. ASSUME NEW p \in PeerIds, Reaps(p) PROVE PeersTypeOK'
  BY <1>12 DEF Reaps, InLoop, SmMove
<1>13. ASSUME NEW p \in PeerIds, NEW at \in {"kill", "killAll"}, SmKills(at, p)
       PROVE PeersTypeOK'
  <2>1. kill' \in [Conns -> {"empty", "reader", "sm", "closed"}] BY <1>13 DEF SmKills
  <2>2. panic' \in {"none", "nil", "reader", "sm"} BY <1>13 DEF SmKills
  <2>3. smPc' = smPc /\ todo' \subseteq PeerIds BY <1>13 DEF SmKills, InLoop, SmMove
  <2>4. UNCHANGED <<made, table, newChan, removeChan, list, smKill, peer, nat, udp, out, run, rdr, shim, exit, early>>
    BY <1>13 DEF SmKills, InLoop, SmMove
  <2>5. QED BY <2>1, <2>2, <2>3, <2>4
<1>14. Known \subseteq PeerIds /\ \A p \in PeerIds : {p} \cap Known \subseteq PeerIds
  BY DEF Known
<1>15. QED
  BY <1>1, <1>2, <1>3, <1>4, <1>5, <1>6, <1>7, <1>8, <1>9, <1>10, <1>11, <1>12, <1>13, <1>14
  DEF AtSelect

\* So do a dial, whoever dials, and the steps of a connection's goroutines.
LEMMA ConnTypes ==
  ASSUME PeersTypeOK, ConnInv,
         \/ \E p \in PeerIds : CallerDials(p) \/ Redials(p)
         \/ \E c \in Conns : CallerRuns(c) \/ Traversal(c) \/ RunStep(c) \/ RdrReads(c) \/ RdrReports(c)
  PROVE  PeersTypeOK'
<1> USE DEF PeersTypeOK, Conns, smVars, ConnFrame, RunFrame
<1>1. ASSUME NEW p \in PeerIds, Dial(p), table' = table, list' = list, smPc' = smPc,
             todo' \subseteq todo
      PROVE  PeersTypeOK'
  <2>1. /\ made + 1 \in 1..made + 1 /\ newChan \in Seq(1..made + 1)
        /\ removeChan \in Seq(1..made + 1)
    BY SeqMonotonic
  <2>2. Append(newChan, made + 1) \in Seq(1..made + 1)
        /\ Len(Append(newChan, made + 1)) = Len(newChan) + 1
    BY <2>1, AppendProperties
  <2>3. Len(newChan) \in Nat BY LenProperties
  <2>4. /\ made + 1 \in Conns /\ peer' \in [Conns -> PeerIds \cup {Nil}]
        /\ nat' \in [Conns -> {"none", "connect", "read", "fail", "done"}]
    BY <1>1 DEF Dial
  <2>5. table' \in [PeerIds -> 0..made'] /\ early' \subseteq 1..made'
    BY <1>1 DEF Dial
  <2>6. made' \in 0..MaxConns /\ newChan' \in Seq(1..made') /\ Len(newChan') <= NewCap
        /\ removeChan' \in Seq(1..made') /\ Len(removeChan') <= RemoveCap
    BY <1>1, <2>1, <2>2, <2>3 DEF Dial
  <2>7. QED BY <1>1, <2>4, <2>5, <2>6 DEF Dial
<1>2. ASSUME NEW c \in Conns, CallerRuns(c) PROVE PeersTypeOK' BY <1>2 DEF CallerRuns
<1>3. ASSUME NEW c \in Conns, Traversal(c) PROVE PeersTypeOK'
  <2>1. CASE NatReads(c) BY <2>1 DEF NatReads, NatMove
  <2>2. CASE NatSucceeds(c) BY <2>2 DEF NatSucceeds, NatMove
  <2>3. CASE NatFails(c) BY <2>3 DEF NatFails, NatMove
  <2>4. CASE ShimKilled(c) BY <2>4 DEF ShimKilled, NatMove
  <2>5. CASE NatRemoves(c)
    <3>1. c \in 1..made BY <2>5 DEF NatRemoves, NatMove, ConnInv, ConnOK
    <3>2. Append(removeChan, c) \in Seq(1..made)
          /\ Len(Append(removeChan, c)) = Len(removeChan) + 1
      BY <3>1, AppendProperties
    <3>3. Len(removeChan) \in Nat BY LenProperties
    <3>4. QED BY <2>5, <3>2, <3>3 DEF NatRemoves, NatMove
  <2>6. QED BY <1>3, <2>1, <2>2, <2>3, <2>4, <2>5 DEF Traversal
<1>4. ASSUME NEW c \in Conns, RunStep(c) PROVE PeersTypeOK'
  <2>1. CASE RunSends(c)
    <3>1. out' \in [Conns -> 0..OutCap] BY <2>1 DEF RunSends
    <3>2. panic' \in {"none", "nil", "reader", "sm"} BY <2>1 DEF RunSends
    <3>3. QED BY <2>1, <3>1, <3>2 DEF RunSends
  <2>2. CASE RunWriteFails(c) BY <2>2 DEF RunWriteFails, RunLeaves
  <2>3. CASE RunKilled(c) BY <2>3 DEF RunKilled, RunLeaves
  <2>4. CASE RunDies(c) BY <2>4 DEF RunDies, RunIsDead
  <2>5. QED BY <1>4, <2>1, <2>2, <2>3, <2>4 DEF RunStep
<1>5. ASSUME NEW c \in Conns, RdrReads(c) PROVE PeersTypeOK' BY <1>5 DEF RdrReads, RdrMove
<1>6. ASSUME NEW c \in Conns, RdrReports(c) PROVE PeersTypeOK' BY <1>6 DEF RdrReports, RdrMove
<1>7. QED BY <1>1, <1>2, <1>3, <1>4, <1>5, <1>6 DEF CallerDials, Redials

-----------------------------------------------------------------------------
(* One connection                                                          *)

\* The state manager's steps keep what holds of each connection: a kill it
\* sends or takes, and a signal it hands over, are the only marks it leaves.
LEMMA SmConn ==
  ASSUME PeersTypeOK, ConnInv, panic = "none",
         \/ AtSelect \/ TakesKill \/ NextLoop \/ MainKills
         \/ \E p \in PeerIds : Drains(p) \/ Sends(p) \/ HandsOver(p) \/ Reaps(p)
                               \/ SmKills("kill", p) \/ SmKills("killAll", p)
  PROVE  ConnInv' /\ panic' # "reader"
<1> USE DEF SmMove, SmConnFrame, SmChanFrame
<1>1. ASSUME UNCHANGED <<made, peer, nat, udp, kill, run, rdr, shim, exit>>
      PROVE  ConnInv'
  BY <1>1 DEF ConnInv, ConnOK, Conns
<1>2. CASE AtSelect \/ TakesKill \/ NextLoop
  BY <1>1, <1>2 DEF AtSelect, TakesState, TakesSignal, TakesPacket, TakesNew, TakesRemove,
     RemovalTaken, TakesKill, NextLoop
<1>3. CASE MainKills BY <1>1, <1>3 DEF MainKills, smVars, connVars
<1>4. ASSUME NEW p \in PeerIds, Sends(p) PROVE ConnInv' /\ panic' # "reader"
  BY <1>1, <1>4 DEF Sends, InLoop
<1>5. ASSUME NEW p \in PeerIds, Drains(p) PROVE ConnInv' /\ panic' # "reader"
  <2>1. UNCHANGED <<made, peer, nat, udp, run, rdr, shim, exit, panic>>
        /\ \A d \in Conns : kill'[d] \in {kill[d], "empty"}
    BY <1>5 DEF Drains, InLoop, PeersTypeOK
  <2>2. QED BY <2>1 DEF ConnInv, ConnOK, Conns
<1>6. ASSUME NEW p \in PeerIds, HandsOver(p) PROVE ConnInv' /\ panic' # "reader"
  <2>1. UNCHANGED <<made, peer, udp, kill, run, rdr, shim, exit, panic>>
        /\ \A d \in Conns : nat'[d] = nat[d] \/ (nat[d] = "read" /\ nat'[d] = "connect")
    BY <1>6 DEF HandsOver, InLoop, PeersTypeOK
  <2>2. QED BY <2>1 DEF ConnInv, ConnOK, Conns
<1>7. ASSUME NEW p \in PeerIds, Reaps(p) PROVE ConnInv' /\ panic' # "reader"
  <2>1. UNCHANGED <<made, peer, nat, udp, kill, rdr, shim, exit, panic>>
        /\ \A d \in Conns : run'[d] = run[d] \/ (run[d] = "dead" /\ run'[d] = "reaped")
    BY <1>7 DEF Reaps, InLoop, PeersTypeOK
  <2>2. QED BY <2>1 DEF ConnInv, ConnOK, Conns
<1>8. ASSUME NEW p \in PeerIds, NEW at \in {"kill", "killAll"}, SmKills(at, p)
      PROVE  ConnInv' /\ panic' # "reader"
  <2>1. UNCHANGED <<made, peer, nat, udp, run, rdr, shim, exit>> /\ panic' # "reader"
        /\ \A d \in Conns : kill'[d] \in {kill[d], "sm"}
    BY <1>8 DEF SmKills, InLoop, PeersTypeOK
  <2>2. QED BY <2>1 DEF ConnInv, ConnOK, Conns
<1>9. QED BY <1>2, <1>3, <1>4, <1>5, <1>6, <1>7, <1>8

\* So do a dial, the traversal, run and the reader; and the reader's panic is
\* after run was ended by a write or by the state manager.
LEMMA ConnStep ==
  ASSUME PeersTypeOK, ConnInv, panic = "none",
         \/ \E p \in PeerIds : CallerDials(p) \/ Redials(p)
         \/ \E c \in Conns : CallerRuns(c) \/ Traversal(c) \/ RunStep(c) \/ RdrReads(c) \/ RdrReports(c)
  PROVE  ConnInv' /\ PeerReaderPanicCause'
<1> USE DEF ConnFrame, RunFrame, smVars
<1>1. ASSUME panic' # "reader" PROVE PeerReaderPanicCause'
  BY <1>1 DEF PeerReaderPanicCause
<1>2. ASSUME NEW p \in PeerIds, Dial(p) PROVE ConnInv' /\ panic' # "reader"
  <2>1. /\ made' = made + 1 /\ made + 1 \in Conns
        /\ UNCHANGED <<udp, kill, run, rdr, shim, exit, panic>>
        /\ \A d \in Conns : /\ nat'[d] = IF d = made + 1 THEN "connect" ELSE nat[d]
                            /\ peer'[d] = IF d = made + 1 THEN p ELSE peer[d]
    BY <1>2 DEF Dial, PeersTypeOK, Conns
  <2>2. ASSUME NEW d \in Conns PROVE ConnOK(d)'
    <3>1. CASE d = made + 1
      <4>1. nat[d] = "none" BY <3>1 DEF ConnInv, ConnOK, PeersTypeOK, Conns
      <4>2. nat'[d] = "connect" /\ peer'[d] = p /\ d <= made'
        BY <2>1, <3>1 DEF PeersTypeOK, Conns
      <4>3. ~udp[d] /\ shim[d] # "dead" /\ run[d] \notin {"dead", "reaped"}
        BY <4>1 DEF ConnInv, ConnOK
      <4>4. QED BY <2>1, <4>2, <4>3 DEF ConnInv, ConnOK
    <3>2. CASE d # made + 1
      <4>1. d <= made <=> d <= made + 1 BY <3>2 DEF Conns, PeersTypeOK
      <4>2. QED BY <2>1, <3>2, <4>1 DEF ConnInv, ConnOK, PeersTypeOK
    <3>3. QED BY <3>1, <3>2
  <2>3. QED BY <2>1, <2>2 DEF ConnInv, Conns
<1>3. ASSUME NEW c \in Conns, CallerRuns(c) PROVE ConnInv' /\ panic' # "reader"
  BY <1>3 DEF CallerRuns, ConnInv, ConnOK, PeersTypeOK, Conns
<1>4. ASSUME NEW c \in Conns, Traversal(c) PROVE ConnInv' /\ panic' # "reader"
  <2> USE DEF ConnInv, ConnOK, PeersTypeOK, Conns, NatMove
  <2>1. CASE NatReads(c) BY <2>1 DEF NatReads
  <2>2. CASE NatSucceeds(c) BY <2>2 DEF NatSucceeds
  <2>3. CASE NatFails(c) BY <2>3 DEF NatFails
  <2>4. CASE ShimKilled(c) BY <2>4 DEF ShimKilled
  <2>5. CASE NatRemoves(c) BY <2>5 DEF NatRemoves
  <2>6. QED BY <1>4, <2>1, <2>2, <2>3, <2>4, <2>5 DEF Traversal
<1>5. ASSUME NEW c \in Conns, RunStep(c) PROVE ConnInv' /\ panic' # "reader"
  <2> USE DEF ConnInv, ConnOK, PeersTypeOK, Conns
  <2>1. CASE RunSends(c) BY <2>1 DEF RunSends
  <2>2. CASE RunWriteFails(c) BY <2>2 DEF RunWriteFails, RunLeaves
  <2>3. CASE RunKilled(c) BY <2>3 DEF RunKilled, RunLeaves
  <2>4. CASE RunDies(c) BY <2>4 DEF RunDies, RunIsDead
  <2>5. QED BY <1>5, <2>1, <2>2, <2>3, <2>4 DEF RunStep
<1>6. ASSUME NEW c \in Conns, RdrReads(c) PROVE ConnInv' /\ panic' # "reader"
  BY <1>6 DEF RdrReads, RdrMove, ConnInv, ConnOK, PeersTypeOK, Conns
<1>7. ASSUME NEW c \in Conns, RdrReports(c) PROVE ConnInv' /\ PeerReaderPanicCause'
  <2>1. ConnInv' BY <1>7 DEF RdrReports, RdrMove, ConnInv, ConnOK, PeersTypeOK, Conns
  <2>2. ASSUME panic' = "reader" PROVE rdr'[c] = "done" /\ exit'[c] \in {"write", "sm"}
    <3>1. kill[c] = "closed" /\ rdr[c] = "fail" /\ exit' = exit /\ rdr'[c] = "done"
      BY <1>7, <2>2 DEF RdrReports, RdrMove, PeersTypeOK
    <3>2. exit[c] \in {"none", "write", "reader", "sm"} BY DEF PeersTypeOK
    <3>3. QED BY <3>1, <3>2 DEF ConnInv, ConnOK
  <2>3. QED BY <2>1, <2>2 DEF PeerReaderPanicCause
<1>8. QED BY <1>1, <1>2, <1>3, <1>4, <1>5, <1>6, <1>7 DEF CallerDials, Redials

-----------------------------------------------------------------------------
(* The table                                                               *)

\* A step that neither makes nor moves a connection, and that none fails in.
Quiet ==
  /\ UNCHANGED <<table, newChan, removeChan, made, peer, early>>
  /\ \A c \in Conns : Failed(c)' = Failed(c)

\* A dial, an addition, a removal and a failure are all that concerns the table.
LEMMA StepKinds ==
  ASSUME PeersTypeOK, ConnInv, PeersNext
  PROVE  \/ \E p \in PeerIds : Dial(p) /\ table' = table
         \/ TakesNew \/ TakesRemove
         \/ \E c \in Conns : NatRemoves(c)
         \/ Quiet
<1> USE DEF SmMove, SmConnFrame, SmChanFrame, ConnFrame, RunFrame, smVars, connVars, Quiet, Failed
<1>1. CASE AtSelect \/ TakesKill \/ NextLoop \/ MainKills
  BY <1>1 DEF AtSelect, TakesState, TakesSignal, TakesPacket, TakesKill, NextLoop, MainKills
<1>2. ASSUME NEW p \in PeerIds, HandsOver(p) PROVE Quiet
  BY <1>2 DEF HandsOver, InLoop, PeersTypeOK
<1>3. ASSUME NEW p \in PeerIds,
             Drains(p) \/ Sends(p) \/ Reaps(p) \/ SmKills("kill", p) \/ SmKills("killAll", p)
      PROVE  Quiet
  BY <1>3 DEF Drains, Sends, Reaps, SmKills, InLoop
<1>4. ASSUME NEW c \in Conns, Traversal(c) PROVE NatRemoves(c) \/ Quiet
  BY <1>4 DEF Traversal, NatReads, NatSucceeds, NatFails, ShimKilled, NatMove, PeersTypeOK
<1>5. ASSUME NEW c \in Conns, CallerRuns(c) \/ RdrReads(c) \/ RdrReports(c) PROVE Quiet
  BY <1>5 DEF CallerRuns, RdrReads, RdrReports, RdrMove
<1>6. ASSUME NEW c \in Conns, RunStep(c) PROVE Quiet
  BY <1>6 DEF RunStep, RunSends, RunWriteFails, RunKilled, RunDies, RunLeaves, RunIsDead
<1>7. QED
  BY <1>1, <1>2, <1>3, <1>4, <1>5, <1>6 DEF PeersNext, InALoop, CallerDials, Redials

TablePart == TableInv /\ FailedEntryCause /\ OrphanCause

\* Quiet steps keep all of it.
LEMMA QuietTable ==
  ASSUME PeersTypeOK, TablePart, Quiet
  PROVE  TablePart'
<1>1. \A c \in 1..made : Failed(c)' = Failed(c)
  <2>1. 1..made \subseteq Conns BY DEF PeersTypeOK, Conns
  <2>2. QED BY <2>1 DEF Quiet
<1>2. \A i \in DOMAIN removeChan : removeChan[i] \in 1..made
  BY ElementOfSeq, LenProperties DEF PeersTypeOK
<1>3. \A p \in PeerIds : table[p] \in 0..made BY DEF PeersTypeOK
<1>4. TableInv'
  BY <1>1, <1>2 DEF TablePart, TableInv, Quiet, Known, Waiting, Removing
<1>5. FailedEntryCause'
  BY <1>1, <1>3 DEF TablePart, FailedEntryCause, Quiet, Known, Removing
<1>6. OrphanCause'
  BY <1>1 DEF TablePart, OrphanCause, Quiet, Waiting
<1>7. QED BY <1>4, <1>5, <1>6 DEF TablePart

\* The new connection waits behind all others, and did not fail.
LEMMA DialTable ==
  ASSUME PeersTypeOK, TablePart, NEW p \in PeerIds, Dial(p), table' = table
  PROVE  TablePart'
<1> PICK n \in Nat : n = made + 1 BY DEF PeersTypeOK
<1>1. /\ made' = n /\ made \in Nat /\ n \in Nat /\ n \in Conns /\ 1..made \subseteq Conns
      /\ UNCHANGED <<table, removeChan, early, udp>>
  BY DEF Dial, PeersTypeOK, Conns
<1>2. /\ Len(newChan') = Len(newChan) + 1 /\ Len(newChan) \in Nat
      /\ DOMAIN newChan = 1..Len(newChan) /\ DOMAIN newChan' = 1..Len(newChan) + 1
      /\ \A i \in DOMAIN newChan : newChan'[i] = newChan[i] /\ newChan[i] \in 1..made
      /\ newChan'[Len(newChan) + 1] = n
  <2>1. newChan' = Append(newChan, n) /\ newChan \in Seq(1..made) /\ newChan \in Seq(Nat)
    BY SeqMonotonic DEF Dial, PeersTypeOK
  <2>2. QED BY <1>1, <2>1, AppendProperties, LenProperties, ElementOfSeq
<1>3. /\ \A c \in 1..made : peer'[c] = peer[c] /\ nat'[c] = nat[c]
      /\ nat'[n] = "connect"
  BY <1>1 DEF Dial, PeersTypeOK
<1>4. \A c \in 1..made : Failed(c)' = Failed(c) BY <1>1, <1>3 DEF Failed
<1>5. ~Failed(n)' BY <1>3 DEF Failed
<1>6. \A c \in 1..made : Waiting(c)' <=> Waiting(c) BY <1>1, <1>2 DEF Waiting
<1>7. Waiting(n)' BY <1>2 DEF Waiting
<1>8. \A q \in PeerIds : table[q] \in 0..made BY DEF PeersTypeOK
<1>9. \A i \in DOMAIN removeChan : removeChan[i] \in 1..made
  BY ElementOfSeq, LenProperties DEF PeersTypeOK
<1>10. \A c : c \in 1..made' <=> c \in 1..made \/ c = n BY <1>1
<1>11. TableInv'
  <2>1. \A i, j \in DOMAIN newChan' : i < j => newChan'[i] < newChan'[j]
    <3>1. \A i \in DOMAIN newChan : newChan[i] < n BY <1>1, <1>2
    <3>2. QED BY <1>2, <3>1 DEF TablePart, TableInv
  <2>2. \A i \in DOMAIN newChan' : \A q \in PeerIds : table'[q] < newChan'[i]
    <3>1. \A q \in PeerIds : table[q] < n BY <1>1, <1>8
    <3>2. QED BY <1>1, <1>2, <3>1 DEF TablePart, TableInv
  <2>3. (\A i \in DOMAIN removeChan : Failed(removeChan[i]))'
    BY <1>1, <1>4, <1>9 DEF TablePart, TableInv
  <2>4. \A q \in Known' : peer'[table'[q]] = q
    BY <1>1, <1>3, <1>8 DEF TablePart, TableInv, Known
  <2>5. \A c \in 1..made' : (Waiting(c) /\ Failed(c) /\ ~Removing(c) => c \in early)'
    BY <1>1, <1>4, <1>5, <1>6, <1>10 DEF TablePart, TableInv, Removing
  <2>6. QED BY <2>1, <2>2, <2>3, <2>4, <2>5 DEF TableInv
<1>12. FailedEntryCause'
  BY <1>1, <1>4, <1>8 DEF TablePart, FailedEntryCause, Known, Removing
<1>13. OrphanCause'
  <2>1. ASSUME NEW c \in 1..made, ~Waiting(c), table[peer[c]] # c, ~Failed(c)
        PROVE  \E d \in 1..made' \ {c} :
                 peer'[d] = peer'[c] /\ (Failed(d)' \/ (d > c /\ ~Waiting(d)'))
    <3>1. PICK d \in 1..made \ {c} : peer[d] = peer[c] /\ (Failed(d) \/ (d > c /\ ~Waiting(d)))
      BY <2>1 DEF TablePart, OrphanCause
    <3>2. QED BY <1>3, <1>4, <1>6, <1>10, <3>1
  <2>2. QED BY <1>1, <1>3, <1>4, <1>6, <1>7, <1>10, <2>1 DEF OrphanCause
<1>14. QED BY <1>11, <1>12, <1>13 DEF TablePart

\* The head of newPeerConnChan leaves it for the table.
LEMMA NewTable ==
  ASSUME PeersTypeOK, ConnInv, TablePart, TakesNew
  PROVE  TablePart'
<1> PICK h : h = Head(newChan) OBVIOUS
<1>1. /\ UNCHANGED <<made, peer, nat, udp, removeChan, early>>
      /\ newChan # <<>> /\ newChan' = Tail(newChan) /\ newChan \in Seq(1..made)
      /\ table' = [table EXCEPT ![peer[h]] = h]
  BY DEF TakesNew, SmMove, SmConnFrame, PeersTypeOK
<1>2. /\ Len(newChan) \in Nat \ {0} /\ DOMAIN newChan = 1..Len(newChan)
      /\ Len(newChan') = Len(newChan) - 1 /\ DOMAIN newChan' = 1..Len(newChan) - 1
      /\ \A i \in DOMAIN newChan' : newChan'[i] = newChan[i + 1]
      /\ h = newChan[1] /\ \A i \in DOMAIN newChan : newChan[i] \in 1..made
  <2>1. newChan' \in Seq(1..made) /\ Len(newChan') = Len(newChan) - 1
        /\ \A i \in 1..Len(Tail(newChan)) : Tail(newChan)[i] = newChan[i + 1]
    BY <1>1, HeadTailProperties
  <2>2. Len(newChan) \in Nat \ {0} /\ DOMAIN newChan = 1..Len(newChan)
    BY <1>1, EmptySeq, LenProperties
  <2>3. DOMAIN newChan' = 1..Len(newChan) - 1 BY <2>1, LenProperties
  <2>4. h = newChan[1] BY <1>1
  <2>5. \A i \in DOMAIN newChan : newChan[i] \in 1..made BY <1>1, <2>2, ElementOfSeq
  <2>6. QED BY <1>1, <2>1, <2>2, <2>3, <2>4, <2>5
<1>3. \A i \in DOMAIN newChan' : i + 1 \in DOMAIN newChan /\ 1 \in DOMAIN newChan /\ 1 < i + 1
  BY <1>2
<1>4. h \in 1..made /\ peer[h] \in PeerIds /\ Waiting(h) /\ made \in Nat
  <2>1. 1 \in DOMAIN newChan /\ newChan[1] = h BY <1>2
  <2>2. h \in 1..made /\ h \in Conns BY <1>2, <2>1 DEF PeersTypeOK, Conns
  <2>3. made \in Nat /\ h <= made BY <2>2 DEF PeersTypeOK
  <2>4. QED BY <2>1, <2>2, <2>3 DEF ConnInv, ConnOK, Waiting
<1>5. \A q \in PeerIds : table'[q] = IF q = peer[h] THEN h ELSE table[q]
  BY <1>1 DEF PeersTypeOK
<1>6. \A i \in DOMAIN newChan' : h < newChan'[i]
  BY <1>2, <1>3 DEF TablePart, TableInv
<1>7. ASSUME NEW c PROVE Waiting(c) <=> (Waiting(c)' \/ c = h)
  <2>1. Waiting(c)' => Waiting(c) BY <1>2, <1>3 DEF Waiting
  <2>2. ASSUME NEW i \in DOMAIN newChan, newChan[i] = c, c # h PROVE Waiting(c)'
    <3>1. i - 1 \in DOMAIN newChan' /\ newChan'[i - 1] = c BY <1>2, <2>2
    <3>2. QED BY <3>1 DEF Waiting
  <2>3. QED BY <1>4, <2>1, <2>2 DEF Waiting
<1>8. ~Waiting(h)' BY <1>2, <1>4, <1>6 DEF Waiting
<1>9. \A c : Failed(c)' = Failed(c) /\ Removing(c)' = Removing(c) BY <1>1 DEF Failed, Removing
<1>10. TableInv'
  <2>1. \A i, j \in DOMAIN newChan' : i < j => newChan'[i] < newChan'[j]
    BY <1>2, <1>3 DEF TablePart, TableInv
  <2>2. \A i \in DOMAIN newChan' : \A q \in PeerIds : table'[q] < newChan'[i]
    BY <1>2, <1>3, <1>5, <1>6 DEF TablePart, TableInv
  <2>3. (\A i \in DOMAIN removeChan : Failed(removeChan[i]))'
    BY <1>1 DEF TablePart, TableInv, Failed
  <2>4. \A q \in Known' : peer'[table'[q]] = q
    BY <1>1, <1>5 DEF TablePart, TableInv, Known
  <2>5. \A c \in 1..made' : (Waiting(c) /\ Failed(c) /\ ~Removing(c) => c \in early)'
    BY <1>1, <1>7, <1>9 DEF TablePart, TableInv
  <2>6. QED BY <2>1, <2>2, <2>3, <2>4, <2>5 DEF TableInv
<1>11. FailedEntryCause'
  <2>1. ASSUME NEW q \in PeerIds, table'[q] # 0, Failed(table'[q]), ~Removing(table'[q])
        PROVE  table'[q] \in early
    BY <1>4, <1>5, <2>1 DEF TablePart, TableInv, FailedEntryCause, Known
  <2>2. QED BY <1>1, <1>9, <2>1 DEF FailedEntryCause, Known
<1>12. OrphanCause'
  <2>1. ASSUME NEW c \in 1..made, ~Waiting(c)', table'[peer[c]] # c, ~Failed(c)
        PROVE  \E d \in 1..made \ {c} : peer[d] = peer[c] /\ (Failed(d) \/ (d > c /\ ~Waiting(d)'))
    <3>1. peer[c] \in PeerIds BY DEF ConnInv, ConnOK, PeersTypeOK, Conns
    <3>2. c # h /\ ~Waiting(c) BY <1>5, <1>7, <2>1, <3>1
    <3>3. CASE table[peer[c]] = c
      <4>1. peer[c] = peer[h] BY <1>5, <2>1, <3>1, <3>3
      <4>2. c < h BY <1>2, <3>1, <3>3 DEF TablePart, TableInv
      <4>3. QED BY <1>4, <1>8, <4>1, <4>2
    <3>4. CASE table[peer[c]] # c
      <4>1. PICK d \in 1..made \ {c} : peer[d] = peer[c] /\ (Failed(d) \/ (d > c /\ ~Waiting(d)))
        BY <2>1, <3>2, <3>4 DEF TablePart, OrphanCause
      <4>2. QED BY <1>7, <4>1
    <3>5. QED BY <3>3, <3>4
  <2>2. QED BY <1>1, <1>9, <2>1 DEF OrphanCause
<1>13. QED BY <1>10, <1>11, <1>12 DEF TablePart

\* The head of removePeerChan leaves it, and its peer's entry the table.
LEMMA RemoveTable ==
  ASSUME PeersTypeOK, ConnInv, TablePart, TakesRemove
  PROVE  TablePart'
<1> PICK h : h = Head(removeChan) OBVIOUS
<1>1. /\ UNCHANGED <<made, peer, nat, udp, newChan>>
      /\ removeChan # <<>> /\ removeChan' = Tail(removeChan) /\ removeChan \in Seq(1..made)
      /\ table' = [table EXCEPT ![peer[h]] = 0]
      /\ early' = IF Waiting(h) THEN early \cup {h} ELSE early
  BY DEF TakesRemove, RemovalTaken, SmMove, SmConnFrame, PeersTypeOK
<1>2. /\ h \in 1..made /\ 1 \in DOMAIN removeChan /\ h = removeChan[1]
      /\ \A c : Removing(c) => Removing(c)' \/ c = h
      /\ \A i \in DOMAIN removeChan' : i + 1 \in DOMAIN removeChan /\ removeChan'[i] = removeChan[i + 1]
  <2>1. removeChan' \in Seq(1..made) /\ Len(removeChan') = Len(removeChan) - 1
        /\ \A i \in 1..Len(Tail(removeChan)) : Tail(removeChan)[i] = removeChan[i + 1]
        /\ Head(removeChan) \in 1..made
    BY <1>1, HeadTailProperties
  <2>2. Len(removeChan) \in Nat \ {0} /\ DOMAIN removeChan = 1..Len(removeChan)
    BY <1>1, EmptySeq, LenProperties
  <2>3. DOMAIN removeChan' = 1..Len(removeChan) - 1 BY <2>1, LenProperties
  <2>4. h = removeChan[1] BY <1>1
  <2>5. \A i \in DOMAIN removeChan' : i + 1 \in DOMAIN removeChan /\ removeChan'[i] = removeChan[i + 1]
    BY <1>1, <2>1, <2>2, <2>3
  <2>6. ASSUME NEW i \in DOMAIN removeChan, removeChan[i] # h
        PROVE  i - 1 \in DOMAIN removeChan' /\ removeChan'[i - 1] = removeChan[i]
    <3>1. i \in 2..Len(removeChan) BY <2>2, <2>4, <2>6
    <3>2. i - 1 \in DOMAIN removeChan' /\ (i - 1) + 1 = i BY <2>2, <2>3, <3>1
    <3>3. QED BY <2>5, <3>2
  <2>7. \A c : Removing(c) => Removing(c)' \/ c = h BY <2>6 DEF Removing
  <2>8. \A i \in DOMAIN removeChan : removeChan[i] \in 1..made BY <1>1, <2>2, ElementOfSeq
  <2>9. 1 \in DOMAIN removeChan BY <2>2
  <2>10. QED BY <2>4, <2>5, <2>7, <2>8, <2>9
<1>3. Failed(h) BY <1>2 DEF TablePart, TableInv
<1>4. \A q \in PeerIds : table'[q] = IF q = peer[h] THEN 0 ELSE table[q]
  BY <1>1 DEF PeersTypeOK
<1>5. \A c : Failed(c)' = Failed(c) /\ Waiting(c)' = Waiting(c) BY <1>1 DEF Failed, Waiting
<1>6. early \subseteq early' /\ (Waiting(h) => h \in early') BY <1>1
<1>7. TableInv'
  <2>1. \A i, j \in DOMAIN newChan' : i < j => newChan'[i] < newChan'[j]
    BY <1>1 DEF TablePart, TableInv
  <2>2. \A i \in DOMAIN newChan' : \A q \in PeerIds : table'[q] < newChan'[i]
    <3>1. \A i \in DOMAIN newChan : 0 < newChan[i]
      BY ElementOfSeq, LenProperties DEF PeersTypeOK
    <3>2. QED BY <1>1, <1>4, <3>1 DEF TablePart, TableInv
  <2>3. (\A i \in DOMAIN removeChan : Failed(removeChan[i]))'
    BY <1>1, <1>2 DEF TablePart, TableInv, Failed
  <2>4. \A q \in Known' : peer'[table'[q]] = q
    BY <1>1, <1>4 DEF TablePart, TableInv, Known
  <2>5. \A c \in 1..made' : (Waiting(c) /\ Failed(c) /\ ~Removing(c) => c \in early)'
    BY <1>1, <1>2, <1>5, <1>6 DEF TablePart, TableInv
  <2>6. QED BY <2>1, <2>2, <2>3, <2>4, <2>5 DEF TableInv
<1>8. FailedEntryCause'
  <2>1. ASSUME NEW q \in PeerIds, NEW c, c = table'[q], c # 0, Failed(c), ~Removing(c)'
        PROVE  c \in early'
    <3>1. c = table[q] /\ q # peer[h] /\ q \in Known BY <1>4, <2>1 DEF Known
    <3>2. peer[c] = q BY <3>1 DEF TablePart, TableInv
    <3>3. ~Removing(c) BY <1>2, <2>1, <3>1, <3>2
    <3>4. QED BY <1>6, <2>1, <3>1, <3>3 DEF TablePart, FailedEntryCause
  <2>2. ASSUME NEW q \in Known' PROVE (Failed(table[q]) /\ ~Removing(table[q]) => table[q] \in early)'
    BY <1>5, <2>1 DEF Known, Failed, Removing
  <2>3. QED BY <2>2 DEF FailedEntryCause
<1>9. OrphanCause'
  <2>1. ASSUME NEW c \in 1..made, ~Waiting(c), table'[peer[c]] # c, ~Failed(c)
        PROVE  \E d \in 1..made \ {c} : peer[d] = peer[c] /\ (Failed(d) \/ (d > c /\ ~Waiting(d)))
    <3>1. peer[c] \in PeerIds
      <4>1. c \in Conns /\ c <= made BY DEF PeersTypeOK, Conns
      <4>2. QED BY <4>1 DEF ConnInv, ConnOK
    <3>2. CASE table[peer[c]] = c
      <4>1. peer[c] = peer[h] BY <1>4, <2>1, <3>1, <3>2
      <4>2. QED BY <1>2, <1>3, <2>1, <4>1
    <3>3. CASE table[peer[c]] # c BY <2>1, <3>3 DEF TablePart, OrphanCause
    <3>4. QED BY <3>2, <3>3
  <2>2. QED BY <1>1, <1>5, <2>1 DEF OrphanCause
<1>10. QED BY <1>7, <1>8, <1>9 DEF TablePart

\* A failed traversal announces its connection on removePeerChan.
LEMMA FailTable ==
  ASSUME PeersTypeOK, ConnInv, TablePart, NEW c \in Conns, NatRemoves(c)
  PROVE  TablePart'
<1>1. /\ UNCHANGED <<table, newChan, made, peer, udp, early>>
      /\ c \in 1..made /\ ~udp[c] /\ removeChan' = Append(removeChan, c)
      /\ \A d \in Conns : nat'[d] = IF d = c THEN "done" ELSE nat[d]
      /\ made \in Nat /\ 1..made \subseteq Conns
  BY DEF NatRemoves, NatMove, ConnFrame, smVars, ConnInv, ConnOK, PeersTypeOK, Conns
<1>2. \A d \in 1..made : Failed(d)' <=> (Failed(d) \/ d = c)
  BY <1>1 DEF Failed, ConnInv, ConnOK
<1>3. /\ \A d : Removing(d)' <=> (Removing(d) \/ d = c)
      /\ DOMAIN removeChan' = 1..Len(removeChan) + 1 /\ DOMAIN removeChan = 1..Len(removeChan)
      /\ Len(removeChan) \in Nat /\ removeChan'[Len(removeChan) + 1] = c
      /\ \A i \in DOMAIN removeChan : removeChan'[i] = removeChan[i] /\ removeChan[i] \in 1..made
  <2>1. removeChan \in Seq(1..made) BY DEF PeersTypeOK
  <2>2. /\ Len(removeChan') = Len(removeChan) + 1 /\ removeChan' \in Seq(1..made)
        /\ \A i \in 1..Len(removeChan) : removeChan'[i] = removeChan[i]
        /\ removeChan'[Len(removeChan) + 1] = c
    BY <1>1, <2>1, AppendProperties
  <2>3. /\ DOMAIN removeChan' = 1..Len(removeChan) + 1 /\ DOMAIN removeChan = 1..Len(removeChan)
        /\ Len(removeChan) \in Nat /\ \A i \in DOMAIN removeChan : removeChan[i] \in 1..made
    BY <2>1, <2>2, LenProperties, ElementOfSeq
  <2>4. \A d : Removing(d)' <=> (Removing(d) \/ d = c) BY <2>2, <2>3 DEF Removing
  <2>5. QED BY <2>2, <2>3, <2>4
<1>4. \A d : Waiting(d)' <=> Waiting(d) BY <1>1 DEF Waiting
<1>5. \A q \in PeerIds : table[q] \in 0..made BY DEF PeersTypeOK
<1>6. TableInv'
  <2>1. (\A i \in DOMAIN removeChan : Failed(removeChan[i]))'
    <3>1. \A i \in DOMAIN removeChan' : removeChan'[i] \in 1..made
                                       /\ (removeChan'[i] = c \/ Failed(removeChan'[i]))
      BY <1>1, <1>3 DEF TablePart, TableInv
    <3>2. QED BY <1>2, <3>1 DEF Failed
  <2>2. \A d \in 1..made' : (Waiting(d) /\ Failed(d) /\ ~Removing(d) => d \in early)'
    BY <1>1, <1>2, <1>3, <1>4 DEF TablePart, TableInv
  <2>3. QED BY <1>1, <2>1, <2>2 DEF TablePart, TableInv, Known
<1>7. FailedEntryCause'
  <2>1. ASSUME NEW q \in Known, NEW d \in 1..made, d = table[q], Failed(d)', ~Removing(d)'
        PROVE  d \in early
    BY <1>2, <1>3, <2>1 DEF TablePart, FailedEntryCause
  <2>2. \A q \in Known : table[q] \in 1..made BY <1>1, <1>5 DEF Known
  <2>3. QED BY <1>1, <2>1, <2>2 DEF FailedEntryCause, Known, Failed, Removing
<1>8. OrphanCause' BY <1>1, <1>2, <1>4 DEF TablePart, OrphanCause
<1>9. QED BY <1>6, <1>7, <1>8 DEF TablePart

-----------------------------------------------------------------------------
(* The theorems                                                            *)

\* Every step keeps IInv.
LEMMA PeersStep == IInv /\ [PeersNext]_peersVars => IInv'
<1> SUFFICES ASSUME IInv, [PeersNext]_peersVars PROVE IInv' OBVIOUS
<1>1. CASE UNCHANGED peersVars
  BY <1>1 DEF IInv, PeersTypeOK, ConnInv, ConnOK, PeerReaderPanicCause, TableInv, FailedEntryCause,
     OrphanCause, Failed, Removing, Waiting, Known, peersVars, smVars, connVars
<1>2. CASE PeersNext
  <2>1. PeersTypeOK' /\ ConnInv' /\ PeerReaderPanicCause'
    <3>1. panic' # "reader" => PeerReaderPanicCause' BY DEF PeerReaderPanicCause
    <3>2. QED BY <1>2, <3>1, SmTypes, ConnTypes, SmConn, ConnStep DEF IInv, PeersNext, InALoop
  <2>2. TablePart'
    BY <1>2, StepKinds, QuietTable, DialTable, NewTable, RemoveTable, FailTable
    DEF IInv, TablePart
  <2>3. QED BY <2>1, <2>2 DEF IInv, TablePart
<1>3. QED BY <1>1, <1>2

\* IInv is an invariant of the peer connections.
THEOREM PeersInvariant == PeersSpec => []IInv
BY InitInv, PeersStep, PTL DEF PeersSpec

\* Every variable is of its type and every channel within its capacity.
THEOREM PeersTypes == PeersSpec => []PeersTypeOK
<1>1. IInv => PeersTypeOK BY DEF IInv
<1>2. QED BY <1>1, PeersInvariant, PTL

\* PeerConn.run reports its death only for a connection that never was one.
THEOREM DeadAreUnconnected == PeersSpec => []DeadOnlyUnconnected
<1>1. IInv => DeadOnlyUnconnected BY DEF IInv, ConnInv, ConnOK, DeadOnlyUnconnected
<1>2. QED BY <1>1, PeersInvariant, PTL

\* A reader brings the daemon down only after run left for another reason than
\* the reader's report.
THEOREM PeerReaderPanics == PeersSpec => []PeerReaderPanicCause
<1>1. IInv => PeerReaderPanicCause BY DEF IInv
<1>2. QED BY <1>1, PeersInvariant, PTL

\* An entry of a failed connection outlives its removal only when the select
\* took the removal before the addition.
THEOREM FailedEntries == PeersSpec => []FailedEntryCause
<1>1. IInv => FailedEntryCause BY DEF IInv
<1>2. QED BY <1>1, PeersInvariant, PTL

\* A connection the table has lost was pushed out by another for the same peer.
THEOREM Orphans == PeersSpec => []OrphanCause
<1>1. IInv => OrphanCause BY DEF IInv
<1>2. QED BY <1>1, PeersInvariant, PTL

-----------------------------------------------------------------------------
(* As the code stands                                                      *)

\* No connection, no message about one, and nothing to visit in any loop.
Idle ==
  /\ made = 0 /\ newChan = <<>> /\ removeChan = <<>> /\ Known = {} /\ todo = {}
  /\ \A c \in Conns : nat[c] = "none" /\ run[c] = "off" /\ rdr[c] = "off"
  /\ panic = "none"

\* With nobody to dial, the two cases on peers' connections never have a message
\* and nothing here brings the daemon down: Pipeline leaves nothing out by having
\* no peers (remote.go:157).
THEOREM NobodyDialled ==
  ASSUME ~Callers
  PROVE  PeersSpec => [](made = 0 /\ Known = {} /\ newChan = <<>> /\ removeChan = <<>> /\ panic = "none")
<1>1. PeersInit => Idle BY DEF PeersInit, Idle, Known, Conns
<1>2. Idle /\ [PeersNext]_peersVars => Idle'
  <2> SUFFICES ASSUME Idle, [PeersNext]_peersVars PROVE Idle' OBVIOUS
  <2> USE DEF Idle, SmMove, SmConnFrame, SmChanFrame
  <2>1. CASE AtSelect
    BY <2>1 DEF AtSelect, TakesState, TakesSignal, TakesPacket, TakesNew, TakesRemove,
       RemovalTaken, Known
  <2>2. CASE TakesKill \/ NextLoop BY <2>2 DEF TakesKill, NextLoop, Known, Gone
  <2>3. CASE MainKills \/ UNCHANGED peersVars
    BY <2>3 DEF MainKills, peersVars, smVars, connVars, Known
  <2>4. ASSUME NEW p \in PeerIds PROVE ~(Drains(p) \/ Redials(p) \/ Sends(p) \/ HandsOver(p)
                  \/ Reaps(p) \/ SmKills("kill", p) \/ SmKills("killAll", p) \/ CallerDials(p))
    BY DEF Drains, Redials, Sends, HandsOver, Reaps, SmKills, CallerDials, InLoop
  <2>5. ASSUME NEW c \in Conns PROVE ~(CallerRuns(c) \/ Traversal(c) \/ RunStep(c)
                  \/ RdrReads(c) \/ RdrReports(c))
    BY DEF CallerRuns, Traversal, NatReads, NatSucceeds, NatFails, ShimKilled, NatRemoves, NatMove,
       RunStep, RunSends, RunWriteFails, RunKilled, RunDies, RunLeaves, RunIsDead,
       RdrReads, RdrReports, RdrMove
  <2>6. QED BY <2>1, <2>2, <2>3, <2>4, <2>5 DEF PeersNext, InALoop
<1>3. QED BY <1>1, <1>2, PTL DEF PeersSpec, Idle

-----------------------------------------------------------------------------
(* The state manager's clean-up                                            *)

\* Killed, the state manager is in its clean-up or dead; there it has waited for
\* the connections of the peers it has visited.
CleanupInv ==
  /\ smKill = "taken" <=> smPc \in {"killAll", "reap", "dead"}
  /\ smPc = "reap" => \A p \in Known \ todo : run[table[p]] = "reaped"
  /\ smPc = "dead" => \A p \in Known : run[table[p]] = "reaped"

\* Once it has taken its kill nothing changes its table, and nothing but Reaps
\* and NextLoop what it has still to wait for; a connection stays connected, and
\* reaped.
LEMMA CleanupFrame ==
  ASSUME PeersTypeOK, CleanupInv, [PeersNext]_peersVars
  PROVE  /\ smKill = "taken" => smKill' = "taken" /\ table' = table
         /\ \A c \in Conns : udp[c] => udp'[c]
         /\ \A c \in Conns : run[c] = "reaped" => run'[c] = "reaped"
<1> USE DEF PeersTypeOK, CleanupInv, SmMove, SmConnFrame, SmChanFrame, InLoop
<1>1. CASE AtSelect
  BY <1>1 DEF AtSelect, TakesState, TakesSignal, TakesPacket, TakesNew, TakesRemove, RemovalTaken
<1>2. CASE TakesKill \/ NextLoop BY <1>2 DEF TakesKill, NextLoop
<1>3. ASSUME NEW p \in PeerIds, Drains(p) \/ Sends(p) \/ HandsOver(p) \/ Reaps(p)
                                 \/ SmKills("kill", p) \/ SmKills("killAll", p)
      PROVE  /\ UNCHANGED <<smKill, table, udp>>
             /\ \A c \in Conns : run[c] = "reaped" => run'[c] = "reaped"
  BY <1>3 DEF Drains, Sends, HandsOver, Reaps, SmKills
<1>4. ASSUME NEW p \in PeerIds, Redials(p) \/ CallerDials(p)
      PROVE  UNCHANGED <<smKill, table, udp, run>>
  BY <1>4 DEF Redials, CallerDials, Dial, smVars
<1>5. ASSUME NEW c \in Conns,
             CallerRuns(c) \/ Traversal(c) \/ RunStep(c) \/ RdrReads(c) \/ RdrReports(c)
      PROVE  /\ UNCHANGED <<smKill, table>>
             /\ \A d \in Conns : udp[d] => udp'[d]
             /\ \A d \in Conns : run[d] = "reaped" => run'[d] = "reaped"
  <2>1. CASE CallerRuns(c) BY <2>1 DEF CallerRuns, ConnFrame, smVars
  <2>2. CASE Traversal(c)
    BY <2>2 DEF Traversal, NatReads, NatSucceeds, NatFails, ShimKilled, NatRemoves, NatMove,
       ConnFrame, smVars
  <2>3. CASE RunStep(c)
    BY <2>3 DEF RunStep, RunSends, RunWriteFails, RunKilled, RunDies, RunLeaves, RunIsDead,
       RunFrame, ConnFrame, smVars
  <2>4. CASE RdrReads(c) \/ RdrReports(c)
    BY <2>4 DEF RdrReads, RdrReports, RdrMove, RunFrame, ConnFrame, smVars
  <2>5. QED BY <1>5, <2>1, <2>2, <2>3, <2>4
<1>6. CASE MainKills \/ UNCHANGED peersVars
  BY <1>6 DEF MainKills, peersVars, smVars, connVars
<1>7. QED BY <1>1, <1>2, <1>3, <1>4, <1>5, <1>6 DEF PeersNext, InALoop

\* A visit in the reap loop ends only when the connection is reaped.
LEMMA CleanupStep ==
  ASSUME PeersTypeOK, CleanupInv, [PeersNext]_peersVars PROVE CleanupInv'
<1> USE DEF PeersTypeOK, SmMove, SmConnFrame, SmChanFrame, InLoop, Known
<1>1. CASE AtSelect
  BY <1>1 DEF CleanupInv, AtSelect, TakesState, TakesSignal, TakesPacket, TakesNew, TakesRemove, RemovalTaken
<1>2. CASE TakesKill \/ NextLoop BY <1>2 DEF CleanupInv, TakesKill, NextLoop
<1>3. ASSUME NEW p \in PeerIds, Drains(p) \/ Sends(p) \/ HandsOver(p)
                                 \/ SmKills("kill", p) \/ SmKills("killAll", p)
      PROVE  CleanupInv'
  BY <1>3 DEF CleanupInv, Drains, Sends, HandsOver, SmKills
<1>4. ASSUME NEW p \in PeerIds, Reaps(p) PROVE CleanupInv'
  <2>1. /\ smPc = "reap" /\ UNCHANGED <<smPc, table, smKill>> /\ todo' = todo \ {p}
        /\ run[table[p]] = "dead" /\ run' = [run EXCEPT ![table[p]] = "reaped"]
    BY <1>4 DEF Reaps
  <2>2. ASSUME NEW q \in Known, q \notin todo' PROVE run'[table[q]] = "reaped"
    <3>1. table[q] \in Conns BY <2>2 DEF Conns
    <3>2. CASE table[q] = table[p] BY <2>1, <3>1, <3>2
    <3>3. CASE table[q] # table[p]
      <4>1. q \notin todo BY <2>1, <2>2, <3>3
      <4>2. run[table[q]] = "reaped" BY <2>1, <2>2, <4>1 DEF CleanupInv
      <4>3. QED BY <2>1, <3>1, <3>3, <4>2
    <3>4. QED BY <3>2, <3>3
  <2>3. QED BY <2>1, <2>2 DEF CleanupInv
<1>5. ASSUME NEW p \in PeerIds, Redials(p) \/ CallerDials(p) PROVE CleanupInv'
  BY <1>5 DEF CleanupInv, Redials, CallerDials, Dial, smVars
<1>6. ASSUME NEW c \in Conns,
             CallerRuns(c) \/ Traversal(c) \/ RunStep(c) \/ RdrReads(c) \/ RdrReports(c)
      PROVE  CleanupInv'
  <2>1. UNCHANGED <<smKill, smPc, table, todo>>
    BY <1>6 DEF CallerRuns, Traversal, NatReads, NatSucceeds, NatFails, ShimKilled, NatRemoves,
       NatMove, RunStep, RunSends, RunWriteFails, RunKilled, RunDies, RunLeaves, RunIsDead,
       RdrReads, RdrReports, RdrMove, RunFrame, ConnFrame, smVars
  <2>2. \A p \in Known : table[p] \in Conns BY DEF Conns
  <2>3. \A d \in Conns : run[d] = "reaped" => run'[d] = "reaped"
    BY <1>6 DEF CallerRuns, Traversal, NatReads, NatSucceeds, NatFails, ShimKilled, NatRemoves,
       NatMove, RunStep, RunSends, RunWriteFails, RunKilled, RunDies, RunLeaves, RunIsDead,
       RdrReads, RdrReports, RdrMove, RunFrame, ConnFrame
  <2>4. QED BY <2>1, <2>2, <2>3 DEF CleanupInv
<1>7. CASE MainKills \/ UNCHANGED peersVars
  BY <1>7 DEF CleanupInv, MainKills, peersVars, smVars, connVars
<1>8. QED BY <1>1, <1>2, <1>3, <1>4, <1>5, <1>6, <1>7 DEF PeersNext, InALoop

\* The state manager was killed while its table had a peer it is connected to.
KilledConnected == smKill = "taken" /\ \E p \in Known : udp[table[p]]

LEMMA KilledConnectedStays ==
  ASSUME PeersTypeOK, CleanupInv, KilledConnected, [PeersNext]_peersVars
  PROVE  KilledConnected'
<1>1. PICK p \in Known : udp[table[p]] BY DEF KilledConnected
<1>2. table[p] \in Conns BY DEF Known, PeersTypeOK, Conns
<1>3. smKill' = "taken" /\ table' = table /\ udp'[table[p]]
  BY <1>1, <1>2, CleanupFrame DEF KilledConnected
<1>4. QED BY <1>1, <1>3 DEF KilledConnected, Known

\* A state manager that is killed while it is connected to a peer never dies, for
\* any peers and capacities: the clean-up of a working connection hands its kill
\* to ShimConn.Read, in which nobody is any more (remote.go:113-114,
\* daemon.go:180-185), and main waits for it in vain.
THEOREM ConnectedNeverShutsDown ==
  PeersSpec => [](KilledConnected => [](KilledConnected /\ smPc # "dead"))
<1>1. PeersInit => CleanupInv BY DEF PeersInit, CleanupInv
<1>2. IInv /\ CleanupInv /\ [PeersNext]_peersVars => CleanupInv'
  BY CleanupStep DEF IInv
<1>3. IInv /\ CleanupInv /\ [PeersNext]_peersVars => (KilledConnected => KilledConnected')
  BY KilledConnectedStays DEF IInv
<1>4. IInv /\ CleanupInv /\ KilledConnected => smPc # "dead"
  <2> SUFFICES ASSUME IInv, CleanupInv, KilledConnected, smPc = "dead" PROVE FALSE OBVIOUS
  <2>1. PICK p \in Known : udp[table[p]] BY DEF KilledConnected
  <2>2. table[p] \in Conns BY DEF Known, IInv, PeersTypeOK, Conns
  <2>3. run[table[p]] = "reaped" BY DEF CleanupInv
  <2>4. QED BY <2>1, <2>2, <2>3 DEF IInv, ConnInv, ConnOK
<1>5. QED BY <1>1, <1>2, <1>3, <1>4, PeersInvariant, PTL DEF PeersSpec
=============================================================================
