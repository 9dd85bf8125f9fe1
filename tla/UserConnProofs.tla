---------------------------- MODULE UserConnProofs ----------------------------
(***************************************************************************)
(* What holds of the server's TCP half for any connections and sessions.   *)
(*                                                                         *)
(* The inductive invariant is IInv: ConnOK says how far the two goroutines *)
(* of a connection can be apart, which makes a connection that has ended   *)
(* stay so, and Routed says of a reader between its check of an encoder    *)
(* and its use that the encoder is still there or its connection has       *)
(* ended; the properties are inductive with these.                         *)
(***************************************************************************)
EXTENDS UserConn, TLAPS

USE UserConnAssumption DEF UserConnAssumption

\* The reader is done once its message is on deadc, and handleUserConn only
\* after that; nothing has happened before Accept.
ConnOK(c) ==
  /\ deadc[c] > 0 => reader[c] = "done"
  /\ main[c] = "done" => deadc[c] > 0
  /\ remote[c] = "none" => main[c] = "off" /\ reader[c] = "off"
  /\ reader[c] \in {"send", "write"} => to[c] \in Sessions
  /\ main[c] = "off" => reader[c] = "off"

Routed(c) ==
  reader[c] = "send" => encoder[to[c]] # Nobody \/ EndedWith(to[c]) # {}

IInv ==
  /\ UserConnTypeOK /\ \A c \in UserConns : ConnOK(c) /\ Routed(c)
  /\ EncoderOwner /\ UnreachableCause /\ NilEncoderCause

LEMMA InitInv == UserConnInit => IInv
<1> SUFFICES ASSUME UserConnInit PROVE IInv OBVIOUS
<1>1. UserConnTypeOK
  <2>1. shut \in BOOLEAN BY Zenon DEF UserConnInit
  <2>2. full \in [UserConns -> BOOLEAN] BY Zenon DEF UserConnInit
  <2>3. deadc \in [UserConns -> 0..1] BY DEF UserConnInit
  <2>4. /\ remote \in [UserConns -> {"none"}] /\ main \in [UserConns -> {"off"}]
        /\ reader \in [UserConns -> {"off"}] /\ crash = "none"
    BY DEF UserConnInit
  <2>5. /\ sess \in [UserConns -> {Nobody}] /\ to \in [UserConns -> {Nobody}]
        /\ via \in [UserConns -> {Nobody}] /\ encoder \in [Sessions -> {Nobody}]
    BY DEF UserConnInit
  <2>6. QED BY <2>1, <2>2, <2>3, <2>4, <2>5 DEF UserConnTypeOK
<1>2. \A c \in UserConns : ConnOK(c) /\ Routed(c) BY DEF UserConnInit, ConnOK, Routed
<1>3. EncoderOwner BY DEF UserConnInit, EncoderOwner
<1>4. UnreachableCause /\ NilEncoderCause BY DEF UserConnInit, UnreachableCause, NilEncoderCause
<1>5. QED BY <1>1, <1>2, <1>3, <1>4 DEF IInv

\* The steps that leave the sessions' encoders and the end of every connection
\* alone keep the causes; what is left is how they keep ConnOK and Routed.
LEMMA SameEnds ==
  ASSUME UserConnTypeOK, EncoderOwner, UnreachableCause,
         UNCHANGED regVars, \A c \in UserConns : main'[c] = "done" <=> main[c] = "done"
  PROVE  EncoderOwner' /\ UnreachableCause' /\ \A s : EndedWith(s)' = EndedWith(s)
<1>1. \A s : EndedWith(s)' = EndedWith(s) BY DEF EndedWith, regVars
<1>2. EncoderOwner' BY DEF EncoderOwner, regVars
<1>3. UnreachableCause' BY <1>1 DEF UnreachableCause, regVars
<1>4. QED BY <1>1, <1>2, <1>3

\* The daemon's end, the ticker and a reader that fails or is locked out.
LEMMA QuietStep ==
  ASSUME IInv, crash = "none", NEW c \in UserConns,
         \/ Accept(c) \/ RemoteReads(c) \/ RemoteGoes(c) \/ DecodeFails(c) \/ LocksOut(c)
         \/ Tick(c) \/ TickWritten(c)
  PROVE  IInv'
<1> USE DEF regVars, routeVars, MainMove, ReaderMove, Written
<1>1. UserConnTypeOK'
  <2> USE DEF IInv, UserConnTypeOK
  <2>1. CASE Accept(c)
    <3>1. /\ remote' \in [UserConns -> {"none", "up", "gone"}]
          /\ main' \in [UserConns -> {"off", "select", "tick", "done"}]
          /\ reader' \in [UserConns -> {"off", "decode", "locked out", "send", "write", "done"}]
      BY <2>1 DEF Accept
    <3>2. UNCHANGED <<full, deadc, routeVars, regVars, shut, crash>> BY <2>1 DEF Accept
    <3>3. QED BY <3>1, <3>2
  <2>2. CASE RemoteReads(c) \/ RemoteGoes(c) BY <2>2 DEF RemoteReads, RemoteGoes
  <2>3. CASE DecodeFails(c)
    <3>1. deadc[c] = 0
      <4>1. reader[c] = "decode" BY <2>3 DEF DecodeFails
      <4>2. ConnOK(c) /\ deadc[c] \in 0..1 OBVIOUS
      <4>3. ~(deadc[c] > 0) BY <4>1, <4>2 DEF ConnOK
      <4> HIDE DEF IInv, UserConnTypeOK
      <4>4. QED BY <4>2, <4>3
    <3>2. deadc' \in [UserConns -> 0..1]
      <4>1. deadc \in [UserConns -> 0..1] OBVIOUS
      <4> HIDE DEF IInv, UserConnTypeOK
      <4>2. deadc' = [deadc EXCEPT ![c] = deadc[c] + 1] BY <2>3 DEF DecodeFails
      <4>3. QED BY <3>1, <4>1, <4>2
    <3>3. reader' \in [UserConns -> {"off", "decode", "locked out", "send", "write", "done"}]
      BY <2>3 DEF DecodeFails
    <3>4. UNCHANGED <<remote, full, main, routeVars, regVars, shut, crash>>
      BY <2>3 DEF DecodeFails
    <3>5. QED BY <3>2, <3>3, <3>4
  <2>4. CASE LocksOut(c)
    <3>1. reader' = [reader EXCEPT ![c] = "locked out"] BY <2>4, Zenon DEF LocksOut
    <3>2. reader' \in [UserConns -> {"off", "decode", "locked out", "send", "write", "done"}]
      BY <3>1
    <3>3. UNCHANGED <<remote, full, main, deadc, routeVars, regVars, shut, crash>>
      BY <2>4, Zenon DEF LocksOut
    <3>4. QED BY <3>2, <3>3
  <2>5. CASE Tick(c) \/ TickWritten(c) BY <2>5 DEF Tick, TickWritten
  <2>6. QED BY <2>1, <2>2, <2>3, <2>4, <2>5
<1>2. \A d \in UserConns : ConnOK(d)'
  BY DEF IInv, UserConnTypeOK, ConnOK, Accept, RemoteReads, RemoteGoes,
     DecodeFails, LocksOut, Tick, TickWritten
<1>3. /\ UNCHANGED <<regVars, routeVars, crash>>
      /\ \A d \in UserConns : main'[d] = "done" <=> main[d] = "done"
      /\ \A d \in UserConns : reader'[d] = "send" => reader[d] = "send"
  BY DEF IInv, UserConnTypeOK, ConnOK, Accept, RemoteReads, RemoteGoes,
     DecodeFails, LocksOut, Tick, TickWritten
<1>4. EncoderOwner' /\ UnreachableCause' /\ \A s : EndedWith(s)' = EndedWith(s)
  BY <1>3, SameEnds DEF IInv
<1>5. \A d \in UserConns : Routed(d)' BY <1>3, <1>4 DEF IInv, Routed
<1>6. NilEncoderCause' BY <1>3 DEF NilEncoderCause
<1>7. QED BY <1>1, <1>2, <1>4, <1>5, <1>6 DEF IInv

\* A reader that routes a signal.
LEMMA RouteStep ==
  ASSUME IInv, crash = "none", NEW c \in UserConns,
         ReaderStep(c) \/ TokenCrashes(c) \/ \E s \in Sessions : Route(c, s)
  PROVE  IInv'
<1> USE DEF regVars, routeVars, ReaderMove, Written, ReaderStep, Decodes
<1>1. UserConnTypeOK'
  <2> USE DEF IInv, UserConnTypeOK
  <2>1. CASE SendStarts(c)
    <3>1. encoder[to[c]] \in UserConns BY <2>1 DEF SendStarts, ConnOK
    <3>2. QED BY <2>1, <3>1 DEF SendStarts
  <2>2. CASE SendCrashes(c) \/ TokenCrashes(c) BY <2>2 DEF SendCrashes, TokenCrashes
  <2>3. CASE SendEnds(c) BY <2>3 DEF SendEnds
  <2>4. ASSUME NEW s \in Sessions, Route(c, s) PROVE UserConnTypeOK' BY <2>4 DEF Route
  <2>5. QED BY <2>1, <2>2, <2>3, <2>4
<1>2. \A d \in UserConns : ConnOK(d)'
  BY DEF IInv, UserConnTypeOK, ConnOK, SendStarts, SendCrashes, SendEnds, TokenCrashes, Route
<1>3. UNCHANGED regVars /\ UNCHANGED main
  BY DEF SendStarts, SendCrashes, SendEnds, TokenCrashes, Route
<1>4. EncoderOwner' /\ UnreachableCause' /\ \A s : EndedWith(s)' = EndedWith(s)
  BY <1>3, SameEnds DEF IInv
<1>5. \A d \in UserConns :
        reader'[d] = "send" => \/ reader[d] = "send" /\ to'[d] = to[d]
                               \/ encoder[to'[d]] # Nobody
  BY DEF IInv, UserConnTypeOK, SendStarts, SendCrashes, SendEnds, TokenCrashes, Route
<1>6. \A d \in UserConns : Routed(d)' BY <1>3, <1>4, <1>5 DEF IInv, Routed
<1>7. NilEncoderCause'
  <2>1. CASE SendCrashes(c)
    <3>1. reader'[c] = "send" /\ to' = to /\ EndedWith(to[c]) # {}
      BY <2>1 DEF SendCrashes, IInv, Routed
    <3>2. QED BY <1>4, <3>1 DEF NilEncoderCause
  <2>2. CASE ~SendCrashes(c)
    <3>1. crash' # "encoder" BY <2>2 DEF SendStarts, SendEnds, TokenCrashes, Route
    <3>2. QED BY <3>1 DEF NilEncoderCause
  <2>3. QED BY <2>1, <2>2
<1>8. QED BY <1>1, <1>2, <1>4, <1>6, <1>7 DEF IInv

\* A token registers the connection, which has not ended.
LEMMA TokenStep ==
  ASSUME IInv, crash = "none", NEW c \in UserConns, NEW s \in Sessions, TokenTaken(c, s)
  PROVE  IInv'
<1> USE DEF TokenTaken, Registers, Decodes, routeVars
<1>1. UserConnTypeOK' BY DEF IInv, UserConnTypeOK
<1>2. \A d \in UserConns : ConnOK(d)' BY DEF IInv, ConnOK
<1>3. main[c] # "done" BY DEF IInv, ConnOK
<1>4. /\ \A d \in UserConns : sess'[d] = IF d = c THEN s ELSE sess[d]
      /\ \A t \in Sessions : encoder'[t] = IF t = s THEN c ELSE encoder[t]
      /\ UNCHANGED <<main, reader, to, crash>>
  BY DEF IInv, UserConnTypeOK
<1>5. \A t : EndedWith(t)' = EndedWith(t) BY <1>3, <1>4 DEF EndedWith
<1>6. EncoderOwner' BY <1>3, <1>4 DEF IInv, EncoderOwner
<1>7. UnreachableCause'
  <2>1. ASSUME NEW d \in UserConns, sess'[d] # Nobody, main[d] # "done", encoder'[sess'[d]] = Nobody
        PROVE  EndedWith(sess'[d]) \ {d} # {}
    <3>1. sess'[d] \in Sessions BY <1>1, <2>1 DEF UserConnTypeOK
    <3>2. sess'[d] # s /\ d # c BY <1>4, <2>1, <3>1
    <3>3. QED BY <1>4, <2>1, <3>1, <3>2 DEF IInv, UnreachableCause
  <2>2. QED BY <1>4, <1>5, <2>1 DEF UnreachableCause
<1>8. \A d \in UserConns : Routed(d)' BY <1>4, <1>5 DEF IInv, Routed, ConnOK
<1>9. NilEncoderCause' BY <1>4 DEF NilEncoderCause
<1>10. QED BY <1>1, <1>2, <1>6, <1>7, <1>8, <1>9 DEF IInv

\* A connection's end clears its session's encoder, whoever's it is.
LEMMA EndStep ==
  ASSUME IInv, crash = "none", NEW c \in UserConns, Ends(c)
  PROVE  IInv'
<1> USE DEF Ends, MainMove, routeVars
<1>1. UserConnTypeOK' BY DEF IInv, UserConnTypeOK
<1>2. \A d \in UserConns : ConnOK(d)' BY DEF IInv, ConnOK, UserConnTypeOK
<1>3. /\ \A d \in UserConns : main'[d] = IF d = c THEN "done" ELSE main[d]
      /\ \A t \in Sessions : encoder'[t] = IF t = sess[c] THEN Nobody ELSE encoder[t]
      /\ UNCHANGED <<sess, reader, to, crash>>
  BY DEF IInv, UserConnTypeOK
<1>4. \A t : EndedWith(t) \subseteq EndedWith(t)' /\ c \in EndedWith(sess[c])'
  BY <1>3 DEF EndedWith
<1>5. EncoderOwner' BY <1>3 DEF IInv, EncoderOwner
<1>6. UnreachableCause'
  <2>1. ASSUME NEW d \in UserConns, sess[d] # Nobody, main'[d] # "done", encoder'[sess[d]] = Nobody
        PROVE  EndedWith(sess[d])' \ {d} # {}
    <3>1. sess[d] \in Sessions /\ d # c /\ main[d] # "done" BY <1>3, <2>1 DEF IInv, UserConnTypeOK
    <3>2. CASE sess[d] = sess[c] BY <1>4, <3>1, <3>2
    <3>3. CASE sess[d] # sess[c]
      BY <1>3, <1>4, <2>1, <3>1, <3>3 DEF IInv, UnreachableCause
    <3>4. QED BY <3>2, <3>3
  <2>2. QED BY <1>3, <2>1 DEF UnreachableCause
<1>7. ASSUME NEW d \in UserConns PROVE Routed(d)'
  <2>1. CASE reader[d] = "send"
    <3>1. to[d] \in Sessions BY <2>1 DEF IInv, ConnOK
    <3>2. encoder'[to[d]] # Nobody \/ EndedWith(to[d])' # {}
      BY <1>3, <1>4, <2>1, <3>1 DEF IInv, Routed
    <3>3. QED BY <1>3, <3>2 DEF Routed
  <2>2. CASE reader[d] # "send" BY <1>3, <2>2 DEF Routed
  <2>3. QED BY <2>1, <2>2
<1>8. NilEncoderCause' BY <1>3 DEF NilEncoderCause
<1>9. QED BY <1>1, <1>2, <1>5, <1>6, <1>7, <1>8 DEF IInv

LEMMA UserConnStep == IInv /\ [UserConnNext]_userConnVars => IInv'
<1> SUFFICES ASSUME IInv, [UserConnNext]_userConnVars PROVE IInv' OBVIOUS
<1>1. CASE UNCHANGED userConnVars
  BY <1>1 DEF IInv, UserConnTypeOK, ConnOK, Routed, EncoderOwner, UnreachableCause, NilEncoderCause,
     EndedWith, userConnVars, routeVars, regVars
<1>2. CASE StoreShuts
  BY <1>2 DEF StoreShuts, IInv, UserConnTypeOK, ConnOK, Routed, EncoderOwner, UnreachableCause,
     NilEncoderCause, EndedWith, routeVars, regVars
<1>3. CASE UserConnNext
  BY <1>2, <1>3, QuietStep, RouteStep, TokenStep, EndStep DEF UserConnNext
<1>4. QED BY <1>1, <1>3

\* IInv is an invariant of the connections.
THEOREM UserConnInvariant == UserConnSpec => []IInv
BY InitInv, UserConnStep, PTL DEF UserConnSpec

\* Every variable is of its type, and no reader waits to send on deadc.
THEOREM UserConnTypes == UserConnSpec => []UserConnTypeOK
<1>1. IInv => UserConnTypeOK BY DEF IInv
<1>2. QED BY <1>1, UserConnInvariant, PTL

\* An encoder left behind by an ended connection is one of an earlier token.
THEOREM EncodersOwned == UserConnSpec => []EncoderOwner
<1>1. IInv => EncoderOwner BY DEF IInv
<1>2. QED BY <1>1, UserConnInvariant, PTL

\* A connected daemon without an encoder lost it to another connection's end.
THEOREM UnreachableCauses == UserConnSpec => []UnreachableCause
<1>1. IInv => UnreachableCause BY DEF IInv
<1>2. QED BY <1>1, UserConnInvariant, PTL

\* A crash on a nil encoder needs an end between the check and the use.
THEOREM NilEncoderCauses == UserConnSpec => []NilEncoderCause
<1>1. IInv => NilEncoderCause BY DEF IInv
<1>2. QED BY <1>1, UserConnInvariant, PTL
=============================================================================
