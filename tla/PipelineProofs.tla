---------------------------- MODULE PipelineProofs ----------------------------
(***************************************************************************)
(* What holds of the daemon's event pipeline for every set of handles and  *)
(* every channel capacity.                                                 *)
(*                                                                         *)
(* The inductive invariant is IInv: the type invariant, the two            *)
(* conservation laws, the kill-token count, DeadReports (a goroutine       *)
(* reports its death only once it is dead) and FirstInLine (lm.xboxes is a *)
(* queue whose head is the first sighting until one is taken).  Without    *)
(* DeadReports TypeOK is not inductive, for smDead and lmDead could pass   *)
(* their channels' capacity; without FirstInLine FirstHandleWins is not.   *)
(*                                                                         *)
(* The last section says that the stuck states in which the liveness       *)
(* properties let a goroutine hang are never left.                         *)
(***************************************************************************)
EXTENDS Pipeline, FiniteSetTheorems, TLAPS

USE PipelineAssumption
    DEF PipelineAssumption, serverVars, clientChans, smVars, lmVars, capVars, sightings, smIn,
        lmChans, EnvFrame, ManagersFrame, SmFrame, SmTakesSignal, SmLeavesUpdate, SmTakesKill,
        LmFrame, LmTakesXbox, FirstHandle, LmTakesKill, LmSendsToken, CapTakesToken, CapSends

\* No goroutine has reported its death (daemon.go:187, local.go:65) early.
DeadReports ==
  /\ smPc # "dead" => smDead = 0
  /\ lmPc # "dead" => lmDead = 0

\* While no sighting has been taken off lm.xboxes, all of them are on it, the
\* first one first; a sighting that was taken has given the address its handle.
FirstInLine ==
  /\ FirstHandleWins
  /\ bcastHandle = NoHandle =>
       /\ registered = Len(lmXboxes)
       /\ lmXboxes # <<>> => Head(lmXboxes) = firstSeen
  /\ bcastHandle # NoHandle => registered > 0

IInv ==
  /\ TypeOK /\ DeadReports /\ XboxConservation /\ UpdateAccounting
  /\ KillTokenAccounting /\ FirstInLine

-----------------------------------------------------------------------------
(* The steps of each group keep the types, the reports and both laws.      *)

Laws == TypeOK /\ DeadReports /\ XboxConservation /\ UpdateAccounting

\* The environment's sends touch serverChan together with tokens only.
LEMMA EnvironmentLaws ==
  ASSUME Laws, Environment PROVE Laws'
<1> USE DEF Laws, TypeOK, DeadReports, XboxConservation, UpdateAccounting, One
<1>1. CASE PutState BY <1>1 DEF PutState
<1>2. CASE PutSignal BY <1>2 DEF PutSignal
<1>3. CASE PutToken BY <1>3 DEF PutToken
<1>4. CASE KillSm BY <1>4 DEF KillSm
<1>5. CASE KillLm BY <1>5 DEF KillLm
<1>6. QED BY <1>1, <1>2, <1>3, <1>4, <1>5 DEF Environment

\* StateManager.run: an event taken is an update owed until SmUpdate sends it.
LEMMA SmLaws ==
  ASSUME Laws, Sm PROVE Laws'
<1> USE DEF Laws, TypeOK, DeadReports, XboxConservation, UpdateAccounting, One
<1>1. CASE SmState BY <1>1 DEF SmState, SmHandles
<1>2. CASE SmPacket BY <1>2 DEF SmPacket, SmHandles
<1>3. CASE SmXbox
  <2>1. Len(lmXboxes) \in Nat OBVIOUS
  <2>2. xboxes' = xboxes + 1 /\ newXboxChan' = newXboxChan - 1 /\ newXboxChan > 0
        /\ UNCHANGED <<registered, lmXboxes, lmPc>>
    BY <1>3 DEF SmXbox, SmHandles
  <2>3. XboxConservation'
    <3> HIDE DEF One
    <3>1. One(lmPc = "announce") \in Nat BY DEF One
    <3>2. registered \in Nat /\ newXboxChan \in Nat /\ xboxes \in Nat OBVIOUS
    <3> HIDE DEF TypeOK
    <3>3. QED BY <2>1, <2>2, <3>1, <3>2
  <2>4. TypeOK' /\ DeadReports' BY <1>3 DEF SmXbox, SmHandles
  <2>5. UpdateAccounting'
    BY <1>3 DEF SmXbox, SmHandles
  <2>6. QED BY <2>3, <2>4, <2>5
<1>4. CASE SmSignal BY <1>4 DEF SmSignal
<1>5. CASE SmUpdate BY <1>5 DEF SmUpdate
<1>6. CASE SmDie BY <1>6 DEF SmDie
<1>7. QED BY <1>1, <1>2, <1>3, <1>4, <1>5, <1>6 DEF Sm

\* LocalManager.run: a sighting taken off lm.xboxes is in hand until announced.
LEMMA LmLaws ==
  ASSUME Laws, Lm PROVE Laws'
<1> USE DEF Laws, TypeOK, DeadReports, XboxConservation, UpdateAccounting, One
<1>1. CASE LmRegister
  <2>1. Len(Tail(lmXboxes)) = Len(lmXboxes) - 1 /\ Tail(lmXboxes) \in Seq(Handles)
        /\ Head(lmXboxes) \in Handles
    BY <1>1 DEF LmRegister
  <2>2. QED BY <1>1, <2>1 DEF LmRegister
<1>2. CASE LmAnnounce BY <1>2 DEF LmAnnounce
<1>3. CASE LmKilled BY <1>3 DEF LmKilled
<1>4. CASE LmKillChild BY <1>4 DEF LmKillChild
<1>5. CASE LmDie BY <1>5 DEF LmDie
<1>6. QED BY <1>1, <1>2, <1>3, <1>4, <1>5 DEF Lm

\* runpcap: CapRegister is the only step that changes the count of sightings.
LEMMA CapLaws ==
  ASSUME Laws, NEW h \in Handles, Cap(h) PROVE Laws'
<1> USE DEF Laws, TypeOK, DeadReports, XboxConservation, UpdateAccounting, One, CapMove
<1>1. CASE CapExit(h) BY <1>1 DEF CapExit
<1>2. CASE CapPoll(h) BY <1>2 DEF CapPoll
<1>3. CASE CapTimeout(h) BY <1>3 DEF CapTimeout
<1>4. CASE CapRegister(h)
  <2>1. Append(lmXboxes, h) \in Seq(Handles) /\ Len(Append(lmXboxes, h)) = Len(lmXboxes) + 1
    BY <1>4
  <2>2. TypeOK' /\ DeadReports' /\ UpdateAccounting'
    BY <1>4, <2>1 DEF CapRegister
  <2>3. XboxConservation'
    <3> HIDE DEF One
    <3>1. One(lmPc = "announce") \in Nat BY DEF One
    <3>2. /\ Len(lmXboxes') = Len(lmXboxes) + 1 /\ registered' = registered + 1
          /\ UNCHANGED <<lmPc, newXboxChan, xboxes>>
      BY <1>4, <2>1 DEF CapRegister
    <3>3. /\ registered \in Nat /\ newXboxChan \in Nat /\ xboxes \in Nat
          /\ Len(lmXboxes) \in Nat
      OBVIOUS
    <3> HIDE DEF TypeOK
    <3>4. QED BY <3>1, <3>2, <3>3
  <2>4. QED BY <2>2, <2>3
<1>5. CASE CapForward(h) BY <1>5 DEF CapForward
<1>6. ASSUME NEW b \in BOOLEAN, CapPacket(h, b) PROVE Laws'
  BY <1>6 DEF CapPacket
<1>7. QED BY <1>1, <1>2, <1>3, <1>4, <1>5, <1>6 DEF Cap, CapStep

-----------------------------------------------------------------------------
(* Kill tokens                                                             *)

\* One more capture goroutine that has stopped is one more in the count.
LEMMA OneMoreExited ==
  ASSUME TypeOK, NEW h \in Handles, CapMove(h, "poll", "exited")
  PROVE  Cardinality(Exited') = Cardinality(Exited) + 1 /\ Cardinality(Exited) \in Nat
<1>1. Exited' = Exited \cup {h} /\ h \notin Exited
  BY DEF Exited, CapMove, TypeOK
<1>2. IsFiniteSet(Exited) BY FS_Subset DEF Exited
<1>3. QED BY <1>1, <1>2, FS_AddElement, FS_CardinalityType

\* A step that moves no goroutine to "exited" leaves the count as it is.
LEMMA SameExited ==
  ASSUME TypeOK, NEW h \in Handles, NEW from \in {"poll", "next", "register", "forward"},
         NEW to \in {"poll", "next", "register", "forward"}, CapMove(h, from, to)
  PROVE  Exited' = Exited
BY DEF Exited, CapMove, TypeOK

\* Every step of the pipeline keeps the count of kill tokens: LmKillChild
\* moves one from children to killChildren, CapExit from there to Exited.
LEMMA TokenStep ==
  ASSUME TypeOK, KillTokenAccounting, PipelineNext PROVE KillTokenAccounting'
<1> USE DEF KillTokenAccounting
<1>0. Cardinality(Exited) \in Nat
  <2>1. IsFiniteSet(Exited) BY FS_Subset DEF Exited
  <2>2. QED BY <2>1, FS_CardinalityType
<1>1. CASE Environment
  <2>1. UNCHANGED <<children, killChildren, capPc>>
    BY <1>1 DEF Environment, PutState, PutSignal, PutToken, KillSm, KillLm
  <2>2. QED BY <2>1 DEF Exited
<1>2. CASE Sm
  <2>1. UNCHANGED <<children, killChildren, capPc>>
    BY <1>2 DEF Sm, SmState, SmPacket, SmXbox, SmHandles, SmSignal, SmUpdate, SmDie
  <2>2. QED BY <2>1 DEF Exited
<1>3. CASE Lm
  <2>1. Exited' = Exited
    BY <1>3 DEF Exited, Lm, LmRegister, LmAnnounce, LmKilled, LmKillChild, LmDie
  <2>2. CASE LmKillChild
    <3>1. children' = children - 1 /\ killChildren' = killChildren + 1
      BY <2>2 DEF LmKillChild
    <3>2. QED BY <1>0, <2>1, <3>1 DEF TypeOK
  <2>3. CASE LmRegister \/ LmAnnounce \/ LmKilled \/ LmDie
    <3>1. UNCHANGED <<children, killChildren>>
      BY <2>3 DEF LmRegister, LmAnnounce, LmKilled, LmDie
    <3>2. QED BY <2>1, <3>1
  <2>4. QED BY <1>3, <2>2, <2>3 DEF Lm
<1>4. ASSUME NEW h \in Handles, Cap(h) PROVE KillTokenAccounting'
  <2>1. CASE CapExit(h)
    <3>1. Cardinality(Exited') = Cardinality(Exited) + 1
      BY <2>1, OneMoreExited DEF CapExit
    <3>2. QED BY <1>0, <2>1, <3>1 DEF CapExit, CapMove, TypeOK
  <2>2. CASE CapPoll(h) \/ CapTimeout(h) \/ CapRegister(h) \/ CapForward(h)
             \/ \E b \in BOOLEAN : CapPacket(h, b)
    <3>1. UNCHANGED <<children, killChildren>>
      BY <2>2 DEF CapPoll, CapTimeout, CapRegister, CapForward, CapPacket, CapMove
    <3>2. Exited' = Exited
      BY <2>2, SameExited DEF CapPoll, CapTimeout, CapRegister, CapForward, CapPacket
    <3>3. QED BY <3>1, <3>2
  <2>3. QED BY <1>4, <2>1, <2>2 DEF Cap, CapStep
<1>5. QED BY <1>1, <1>2, <1>3, <1>4 DEF PipelineNext

-----------------------------------------------------------------------------
(* The first handle                                                        *)

\* lm.xboxes is a queue: appending leaves its head, and LocalManager.run takes
\* the head, which is the first sighting as long as none was taken before.
LEMMA FirstStep ==
  ASSUME TypeOK, FirstInLine, PipelineNext PROVE FirstInLine'
<1> USE DEF FirstInLine, FirstHandleWins
<1>1. CASE Environment
  BY <1>1 DEF Environment, PutState, PutSignal, PutToken, KillSm, KillLm
<1>2. CASE Sm
  BY <1>2 DEF Sm, SmState, SmPacket, SmXbox, SmHandles, SmSignal, SmUpdate, SmDie
<1>3. CASE LmRegister
  <2>1. Head(lmXboxes) \in Handles /\ Len(lmXboxes) > 0 BY <1>3 DEF LmRegister, TypeOK
  <2>2. QED BY <1>3, <2>1 DEF LmRegister, TypeOK
<1>4. CASE LmAnnounce \/ LmKilled \/ LmKillChild \/ LmDie
  BY <1>4 DEF LmAnnounce, LmKilled, LmKillChild, LmDie
<1>5. ASSUME NEW h \in Handles, CapRegister(h) PROVE FirstInLine'
  <2>1. /\ Len(lmXboxes') = Len(lmXboxes) + 1 /\ lmXboxes' # <<>>
        /\ Head(lmXboxes') = IF lmXboxes = <<>> THEN h ELSE Head(lmXboxes)
    BY <1>5 DEF CapRegister, TypeOK
  <2>2. registered \in Nat /\ (Len(lmXboxes) = 0 <=> lmXboxes = <<>>)
    BY DEF TypeOK
  <2>3. registered' = registered + 1 /\ bcastHandle' = bcastHandle
        /\ firstSeen' = IF registered = 0 THEN h ELSE firstSeen
    BY <1>5 DEF CapRegister, CapMove
  <2>4. QED BY <2>1, <2>2, <2>3
<1>6. ASSUME NEW h \in Handles,
             \/ CapExit(h) \/ CapPoll(h) \/ CapTimeout(h) \/ CapForward(h)
             \/ \E b \in BOOLEAN : CapPacket(h, b)
      PROVE  FirstInLine'
  BY <1>6 DEF CapExit, CapPoll, CapTimeout, CapForward, CapPacket, CapMove
<1>7. QED BY <1>1, <1>2, <1>3, <1>4, <1>5, <1>6 DEF PipelineNext, Lm, Cap, CapStep

-----------------------------------------------------------------------------
\* At the start no goroutine has stopped and every capture goroutine is owed
\* its token.
LEMMA InitIInv == PipelineInit => IInv
<1> SUFFICES ASSUME PipelineInit PROVE IInv OBVIOUS
<1>1. Exited = {} BY DEF Exited, PipelineInit
<1>2. Cardinality(Exited) = 0 BY <1>1, FS_EmptySet
<1>3. Cardinality(Handles) \in Nat BY FS_CardinalityType
<1>4. lmXboxes = <<>> /\ Len(lmXboxes) = 0 /\ lmXboxes \in Seq(Handles)
  BY DEF PipelineInit
<1>5. TypeOK BY <1>3, <1>4 DEF PipelineInit, TypeOK
<1>6. QED
  BY <1>2, <1>3, <1>4, <1>5
  DEF PipelineInit, IInv, DeadReports, XboxConservation, UpdateAccounting,
      KillTokenAccounting, FirstInLine, FirstHandleWins, One

\* Every step of the pipeline keeps the inductive invariant.
LEMMA StepIInv == IInv /\ [PipelineNext]_pipelineVars => IInv'
<1> SUFFICES ASSUME IInv, [PipelineNext]_pipelineVars PROVE IInv' OBVIOUS
<1>1. CASE PipelineNext
  <2>1. Laws BY DEF IInv, Laws
  <2>2. Laws'
    BY <1>1, <2>1, EnvironmentLaws, SmLaws, LmLaws, CapLaws DEF PipelineNext
  <2>3. KillTokenAccounting' /\ FirstInLine' BY <1>1, TokenStep, FirstStep DEF IInv
  <2>4. QED BY <2>2, <2>3 DEF IInv, Laws
<1>2. CASE UNCHANGED pipelineVars
  BY <1>2 DEF pipelineVars, IInv, TypeOK, DeadReports, XboxConservation,
              UpdateAccounting, KillTokenAccounting, FirstInLine, FirstHandleWins,
              Exited, One
<1>3. QED BY <1>1, <1>2

\* IInv is an invariant of the pipeline.
THEOREM PipelineInvariant == PipelineSpec => []IInv
BY InitIInv, StepIInv, PTL DEF PipelineSpec

\* Every channel of daemon.go and local.go keeps to its capacity.
THEOREM PipelineTypes == PipelineSpec => []TypeOK
<1>1. IInv => TypeOK BY DEF IInv
<1>2. QED BY <1>1, PipelineInvariant, PTL

\* No sighting of a console is lost or doubled between runpcap and
\* localState.Xboxes, for any number of handles and any capacities.
THEOREM SightingsConserved == PipelineSpec => []XboxConservation
<1>1. IInv => XboxConservation BY DEF IInv
<1>2. QED BY <1>1, PipelineInvariant, PTL

\* StateManager.run sends exactly one update per event that asks for one.
THEOREM UpdatesConserved == PipelineSpec => []UpdateAccounting
<1>1. IInv => UpdateAccounting BY DEF IInv
<1>2. QED BY <1>1, PipelineInvariant, PTL

\* Whatever the capacities, StateManager.run handles at most
\* cap(serverChan) + 1 events, since nothing receives from serverChan.
THEOREM BoundedLifetime == PipelineSpec => []LifetimeBound
<1>1. IInv => LifetimeBound
  BY DEF IInv, TypeOK, UpdateAccounting, LifetimeBound, One
<1>2. QED BY <1>1, PipelineInvariant, PTL

\* LocalManager.run's clean-up owes, has sent or has had taken one kill token
\* per capture goroutine at every moment.
THEOREM TokensConserved == PipelineSpec => []KillTokenAccounting
<1>1. IInv => KillTokenAccounting BY DEF IInv
<1>2. QED BY <1>1, PipelineInvariant, PTL

\* An address belongs to the handle that saw it first, for any number of handles
\* and any capacity of lm.xboxes.
THEOREM HandleStable == PipelineSpec => []FirstHandleWins
<1>1. IInv => FirstHandleWins BY DEF IInv, FirstInLine
<1>2. QED BY <1>1, PipelineInvariant, PTL

-----------------------------------------------------------------------------
(* The refinements                                                         *)

\* A step of the pipeline is a put, a take, or no step of the pipe: what is
\* inside is Len(lmXboxes), the one in hand and newXboxChan, each at its bound.
LEMMA PipeStep ==
  ASSUME IInv, [PipelineNext]_pipelineVars
  PROVE  [Sightings!Put \/ Sightings!Take]_(Sightings!pipe)
<1> USE DEF IInv, Sightings!pipe
<1>1. CASE UNCHANGED pipelineVars BY <1>1 DEF pipelineVars
<1>2. CASE Environment
  BY <1>2 DEF Environment, PutState, PutSignal, PutToken, KillSm, KillLm
<1>3. CASE SmXbox
  <2>1. Len(lmXboxes) \in Nat /\ One(lmPc = "announce") \in Nat
    BY DEF TypeOK, One
  <2>2. xboxes < registered BY <1>3, <2>1 DEF SmXbox, XboxConservation, TypeOK
  <2>3. Sightings!Take BY <1>3, <2>2 DEF Sightings!Take, SmXbox, SmHandles
  <2>4. QED BY <2>3
<1>4. CASE SmState \/ SmPacket \/ SmSignal \/ SmUpdate \/ SmDie
  BY <1>4 DEF SmState, SmPacket, SmHandles, SmSignal, SmUpdate, SmDie
<1>5. CASE Lm
  BY <1>5 DEF Lm, LmRegister, LmAnnounce, LmKilled, LmKillChild, LmDie
<1>6. ASSUME NEW h \in Handles, CapRegister(h)
      PROVE  Sightings!Put
  <2>1. One(lmPc = "announce") \in 0..1 BY DEF One
  <2>2. registered - xboxes < XboxesCap + 1 + NewXboxCap
    BY <1>6, <2>1 DEF CapRegister, XboxConservation, TypeOK
  <2>3. QED BY <1>6, <2>2 DEF CapRegister, CapMove, Sightings!Put
<1>7. ASSUME NEW h \in Handles,
             \/ CapExit(h) \/ CapPoll(h) \/ CapTimeout(h) \/ CapForward(h)
             \/ \E b \in BOOLEAN : CapPacket(h, b)
      PROVE  UNCHANGED <<registered, xboxes>>
  BY <1>7 DEF CapExit, CapPoll, CapTimeout, CapForward, CapPacket, CapMove
<1>8. QED BY <1>1, <1>2, <1>3, <1>4, <1>5, <1>6, <1>7 DEF PipelineNext, Sm, Cap, CapStep

\* The way of a sighting from runpcap to localState.Xboxes is a bounded pipe,
\* whatever the capacities of the two channels it crosses.
THEOREM PipeRefined == PipelineSpec => SightingsArePiped
<1>1. PipelineInit => Sightings!PipeInit BY DEF PipelineInit, Sightings!PipeInit
<1>2. IInv /\ [PipelineNext]_pipelineVars =>
        [Sightings!Put \/ Sightings!Take]_(Sightings!pipe)
  BY PipeStep
<1>3. QED
  BY <1>1, <1>2, PipelineInvariant, PTL
  DEF PipelineSpec, SightingsArePiped, Sightings!PipeSpec

\* main's KillSm is the telling and SmDie the report; nothing else touches them.
LEMMA SmWorkerStep ==
  ASSUME IInv, [PipelineNext]_pipelineVars
  PROVE  [SmWorker!Tell \/ SmWorker!Report]_(SmWorker!worker)
<1> USE DEF IInv, TypeOK, SmWorker!worker
<1>1. CASE KillSm BY <1>1 DEF KillSm, SmWorker!Tell
<1>2. CASE SmDie BY <1>2 DEF SmDie, SmWorker!Report
<1>3. CASE PutState \/ PutSignal \/ PutToken \/ KillLm
  BY <1>3 DEF PutState, PutSignal, PutToken, KillLm
<1>4. CASE SmState \/ SmPacket \/ SmXbox \/ SmSignal \/ SmUpdate
  BY <1>4 DEF SmState, SmPacket, SmXbox, SmHandles, SmSignal, SmUpdate
<1>5. CASE Lm
  BY <1>5 DEF Lm, LmRegister, LmAnnounce, LmKilled, LmKillChild, LmDie
<1>6. ASSUME NEW h \in Handles, Cap(h) PROVE UNCHANGED smVars
  BY <1>6 DEF Cap, CapStep, CapExit, CapPoll, CapTimeout, CapRegister, CapForward,
              CapPacket, CapMove
<1>7. CASE UNCHANGED pipelineVars BY <1>7 DEF pipelineVars
<1>8. QED BY <1>1, <1>2, <1>3, <1>4, <1>5, <1>6, <1>7 DEF PipelineNext, Environment, Sm

\* main's KillLm is the telling and LmDie, after the last token, the report.
LEMMA LmWorkerStep ==
  ASSUME IInv, [PipelineNext]_pipelineVars
  PROVE  [LmWorker!Tell \/ LmWorker!Report]_(LmWorker!worker)
<1> USE DEF IInv, TypeOK, LmWorker!worker
<1>1. CASE KillLm BY <1>1 DEF KillLm, LmWorker!Tell
<1>2. CASE LmDie BY <1>2 DEF LmDie, LmWorker!Report
<1>3. CASE PutState \/ PutSignal \/ PutToken \/ KillSm
  BY <1>3 DEF PutState, PutSignal, PutToken, KillSm
<1>4. CASE LmRegister \/ LmAnnounce \/ LmKilled \/ LmKillChild
  BY <1>4 DEF LmRegister, LmAnnounce, LmKilled, LmKillChild
<1>5. CASE Sm
  BY <1>5 DEF Sm, SmState, SmPacket, SmXbox, SmHandles, SmSignal, SmUpdate, SmDie
<1>6. ASSUME NEW h \in Handles, Cap(h) PROVE UNCHANGED lmVars
  BY <1>6 DEF Cap, CapStep, CapExit, CapPoll, CapTimeout, CapRegister, CapForward,
              CapPacket, CapMove
<1>7. CASE UNCHANGED pipelineVars BY <1>7 DEF pipelineVars
<1>8. QED BY <1>1, <1>2, <1>3, <1>4, <1>5, <1>6, <1>7 DEF PipelineNext, Environment, Lm

\* Both managers implement the worker that main kills and waits for.
THEOREM WorkersRefined == PipelineSpec => ManagersAreWorkers
<1>1. PipelineInit => SmWorker!WorkerInit /\ LmWorker!WorkerInit
  BY DEF PipelineInit, SmWorker!WorkerInit, LmWorker!WorkerInit
<1>2. IInv /\ [PipelineNext]_pipelineVars =>
        /\ [SmWorker!Tell \/ SmWorker!Report]_(SmWorker!worker)
        /\ [LmWorker!Tell \/ LmWorker!Report]_(LmWorker!worker)
  BY SmWorkerStep, LmWorkerStep
<1>3. QED
  BY <1>1, <1>2, PipelineInvariant, PTL
  DEF PipelineSpec, ManagersAreWorkers, SmWorker!WorkerSpec, LmWorker!WorkerSpec
-----------------------------------------------------------------------------
(* The hangs                                                               *)

\* A StateManager.run that is dead or blocked takes nothing off its channels, so
\* a channel that is full behind it stays full.
LEMMA ManagersStayStuck ==
  ASSUME TypeOK, [PipelineNext]_pipelineVars
  PROVE  /\ SmStuck => SmStuck'
         /\ NoStateManager => NoStateManager'
         /\ NoStateManager => remoteChan' >= remoteChan /\ newXboxChan' >= newXboxChan
         /\ AnnounceStuck => AnnounceStuck'
         /\ NoLocalManager => NoLocalManager' /\ Len(lmXboxes') >= Len(lmXboxes)
<1> USE DEF TypeOK, SmStuck, NoStateManager, AnnounceStuck, NoLocalManager
<1>1. CASE Environment
  <2>1. UNCHANGED <<smPc, lmPc, newXboxChan, remoteChan, lmXboxes>>
    BY <1>1 DEF Environment, PutState, PutSignal, PutToken, KillSm, KillLm
  <2>2. serverChan = ServerCap => serverChan' = serverChan
    BY <1>1 DEF Environment, PutState, PutSignal, PutToken, KillSm, KillLm
  <2>3. QED BY <2>1, <2>2
<1>2. CASE Sm
  <2>1. ~NoStateManager
    BY <1>2 DEF Sm, SmState, SmPacket, SmXbox, SmHandles, SmSignal, SmUpdate, SmDie
  <2>2. UNCHANGED <<lmPc, lmXboxes>>
    BY <1>2 DEF Sm, SmState, SmPacket, SmXbox, SmHandles, SmSignal, SmUpdate, SmDie
  <2>3. QED BY <2>1, <2>2
<1>3. CASE Lm
  <2>1. UNCHANGED <<smPc, serverChan, remoteChan>> /\ newXboxChan' >= newXboxChan
    BY <1>3 DEF Lm, LmRegister, LmAnnounce, LmKilled, LmKillChild, LmDie
  <2>2. ~AnnounceStuck
    BY <1>3 DEF Lm, LmRegister, LmAnnounce, LmKilled, LmKillChild, LmDie
  <2>3. lmPc \in {"cleanup", "dead"} =>
          lmPc' \in {"cleanup", "dead"} /\ lmXboxes' = lmXboxes
    BY <1>3 DEF Lm, LmRegister, LmAnnounce, LmKilled, LmKillChild, LmDie
  <2>4. QED BY <2>1, <2>2, <2>3
<1>4. ASSUME NEW h \in Handles, CapRegister(h)
      PROVE  /\ Len(lmXboxes') >= Len(lmXboxes)
             /\ UNCHANGED <<smPc, serverChan, lmPc, newXboxChan, remoteChan>>
  BY <1>4 DEF CapRegister, CapMove
<1>5. ASSUME NEW h \in Handles,
             \/ CapExit(h) \/ CapPoll(h) \/ CapTimeout(h) \/ CapForward(h)
             \/ \E b \in BOOLEAN : CapPacket(h, b)
      PROVE  /\ remoteChan' >= remoteChan
             /\ UNCHANGED <<smPc, serverChan, lmPc, newXboxChan, lmXboxes>>
  BY <1>5 DEF CapExit, CapPoll, CapTimeout, CapForward, CapPacket, CapMove
<1>6. CASE UNCHANGED pipelineVars BY <1>6 DEF pipelineVars
<1>7. QED BY <1>1, <1>2, <1>3, <1>4, <1>5, <1>6 DEF PipelineNext, Cap, CapStep

\* A capture goroutine takes its step only if the channel has room, and the
\* steps of the others move only their own program points.
LEMMA CapsStayStuck ==
  ASSUME TypeOK, TypeOK', [PipelineNext]_pipelineVars, NEW g \in Handles
  PROVE  /\ CapStuck(g) => CapStuck(g)'
         /\ capPc[g] = "exited" => capPc'[g] = "exited"
<1>1. /\ NoStateManager => NoStateManager' /\ remoteChan' >= remoteChan
      /\ NoLocalManager => NoLocalManager' /\ Len(lmXboxes') >= Len(lmXboxes)
  BY ManagersStayStuck
<1>2. Len(lmXboxes) \in Nat /\ Len(lmXboxes') \in Nat
  <2>1. lmXboxes \in Seq(Handles) /\ lmXboxes' \in Seq(Handles) BY DEF TypeOK
  <2>2. QED BY <2>1
<1>3. Len(lmXboxes') <= XboxesCap /\ remoteChan' <= RemoteCap
  BY DEF TypeOK
<1>4. CapStuck(g) \/ capPc[g] = "exited" => capPc'[g] = capPc[g]
  <2>1. ASSUME NEW h \in Handles, Cap(h), CapStuck(g) \/ capPc[g] = "exited"
        PROVE  capPc'[g] = capPc[g]
    <3>1. h # g
      BY <2>1 DEF Cap, CapStep, CapExit, CapPoll, CapTimeout, CapRegister, CapForward,
                  CapPacket, CapMove, CapStuck
    <3>2. \E v : capPc' = [capPc EXCEPT ![h] = v]
      BY <2>1 DEF Cap, CapStep, CapExit, CapPoll, CapTimeout, CapRegister, CapForward,
                  CapPacket, CapMove
    <3>3. QED BY <3>1, <3>2 DEF TypeOK
  <2>2. CASE Environment \/ Sm \/ Lm \/ UNCHANGED pipelineVars
    BY <2>2 DEF Environment, PutState, PutSignal, PutToken, KillSm, KillLm, Sm, SmState,
                SmPacket, SmXbox, SmHandles, SmSignal, SmUpdate, SmDie, Lm, LmRegister,
                LmAnnounce, LmKilled, LmKillChild, LmDie, pipelineVars
  <2>3. QED BY <2>1, <2>2 DEF PipelineNext
<1>5. ASSUME CapStuck(g) PROVE CapStuck(g)'
  <2>1. remoteChan \in Nat /\ remoteChan' \in Nat BY DEF TypeOK
  <2>2. CASE capPc[g] = "register" /\ Len(lmXboxes) = XboxesCap /\ NoLocalManager
    <3>1. NoLocalManager' /\ Len(lmXboxes') = XboxesCap BY <1>1, <1>2, <1>3, <2>2
    <3>2. QED BY <1>4, <1>5, <2>2, <3>1 DEF CapStuck
  <2>3. CASE capPc[g] = "forward" /\ remoteChan = RemoteCap /\ NoStateManager
    <3>1. NoStateManager' /\ remoteChan' = RemoteCap BY <1>1, <1>3, <2>1, <2>3
    <3>2. QED BY <1>4, <1>5, <2>3, <3>1 DEF CapStuck
  <2>4. QED BY <1>5, <2>2, <2>3 DEF CapStuck
<1>6. QED BY <1>4, <1>5

\* The clean-up needs a token taken, and nobody is left to take one.
LEMMA CleanupStaysStuck ==
  ASSUME TypeOK, TypeOK', [PipelineNext]_pipelineVars
  PROVE  CapsStopped => CapsStopped' /\ (CleanupStuck => CleanupStuck')
<1> SUFFICES ASSUME CapsStopped PROVE CapsStopped' /\ (CleanupStuck => CleanupStuck')
  OBVIOUS
<1>1. CapsStopped' BY CapsStayStuck DEF CapsStopped
<1>2. ASSUME CleanupStuck PROVE lmPc' = lmPc /\ UNCHANGED <<children, killChildren>>
  <2>1. ASSUME NEW h \in Handles, Cap(h) PROVE UNCHANGED <<lmPc, children, killChildren>>
    BY <2>1 DEF CapsStopped, CapStuck, Cap, CapStep, CapExit, CapPoll, CapTimeout,
                CapRegister, CapForward, CapPacket, CapMove, TypeOK
  <2>2. CASE Lm
    BY <1>2, <2>2 DEF CleanupStuck, TypeOK, Lm, LmRegister, LmAnnounce, LmKilled,
                      LmKillChild, LmDie
  <2>3. CASE Environment \/ Sm \/ UNCHANGED pipelineVars
    BY <1>2, <2>3
    DEF CleanupStuck, Environment, PutState, PutSignal, PutToken, KillSm, KillLm, Sm,
        SmState, SmPacket, SmXbox, SmHandles, SmSignal, SmUpdate, SmDie, pipelineVars
  <2>4. QED BY <2>1, <2>2, <2>3 DEF PipelineNext
<1>3. QED BY <1>1, <1>2 DEF CleanupStuck

\* The exceptions ManagersObeyKill allows are hangs for good: a manager that is
\* stuck stays stuck, whatever the rest of the daemon does.
THEOREM StuckManagersStay ==
  PipelineSpec => [](SmStuck => []SmStuck) /\ [](LmStuck => []LmStuck)
<1>1. IInv /\ IInv' /\ [PipelineNext]_pipelineVars =>
        (SmStuck => SmStuck') /\ (LmStuck => LmStuck')
  BY ManagersStayStuck, CleanupStaysStuck DEF IInv, LmStuck, CleanupStuck
<1>2. QED BY <1>1, PipelineInvariant, PTL DEF PipelineSpec

\* So are the ones CapturesQuiesce allows: a capture goroutine that waits for a
\* receiver that is gone never takes its kill token, and one that has taken it
\* is never heard of again.
THEOREM StoppedCapturesStay ==
  PipelineSpec => [](CapsStopped => []CapsStopped)
<1>1. IInv /\ IInv' /\ [PipelineNext]_pipelineVars => (CapsStopped => CapsStopped')
  BY CleanupStaysStuck DEF IInv
<1>2. QED BY <1>1, PipelineInvariant, PTL DEF PipelineSpec
=============================================================================
