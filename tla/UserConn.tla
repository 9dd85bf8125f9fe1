-------------------------------- MODULE UserConn --------------------------------
(***************************************************************************)
(* The TCP half of the server: handleUserConn of server.go, its reader and *)
(* its ticker, for several daemons, and the routing of PcSignals from one  *)
(* connection to the session that another registered.                      *)
(*                                                                         *)
(* As the code stands every token ends the server: getSessionByToken       *)
(* dereferences the *User that it never allocates, or returns nil and the  *)
(* next line dereferences that (memorysessionstore.go:42-51, server.go:249)*)
(* in a goroutine nobody recovers.  With Lookups it returns a session, as  *)
(* it is written to; everything else is as written.                        *)
(*                                                                         *)
(* Sessions are those logins have made: RoomServer makes them, and shut is *)
(* its state Shut, in which the session store's lock is lost (and stays    *)
(* lost: theorem ShutForGood of RoomServerProofs).  Nothing ever locks a   *)
(* session for writing, so its RLock holds nobody up.  A gob encoder takes *)
(* one Encode at a time.                                                   *)
(***************************************************************************)
EXTENDS Naturals, FiniteSets

CONSTANTS
  UserConns,   \* bound: the TCP connections of a behaviour
  Sessions,    \* the sessions in ss.s
  Nobody,      \* no session, no connection
  Lookups      \* getSessionByToken can return a session

ASSUME UserConnAssumption ==
  Nobody \notin UserConns \cup Sessions /\ Lookups \in BOOLEAN

VARIABLES
  remote,   \* per connection, the daemon's end: "none", "up", "gone"
  full,     \* per connection, what was sent fills the socket
  main,     \* per connection, handleUserConn: "off", "select", "tick", "done"
  reader,   \* per connection, its reader goroutine
  deadc,    \* per connection, the messages sent on deadc, which holds one
  sess,     \* per connection, the variable s
  to, via,  \* per connection, to_s, and the connection its encoder writes to
  encoder,  \* per session, the connection of Session.encoder, or Nobody
  shut,     \* the session store is shut: ss.RLock() blocks for good
  crash

routeVars == <<to, via>>
regVars == <<sess, encoder>>
userConnVars == <<remote, full, main, reader, deadc, routeVars, regVars, shut, crash>>

UserConnInit ==
  /\ remote = [c \in UserConns |-> "none"] /\ full = [c \in UserConns |-> FALSE]
  /\ main = [c \in UserConns |-> "off"] /\ reader = [c \in UserConns |-> "off"]
  /\ deadc = [c \in UserConns |-> 0] /\ sess = [c \in UserConns |-> Nobody]
  /\ to = [c \in UserConns |-> Nobody] /\ via = [c \in UserConns |-> Nobody]
  /\ encoder = [s \in Sessions |-> Nobody]
  /\ shut = FALSE /\ crash = "none"

-----------------------------------------------------------------------------
(* The daemon's end                                                        *)

\* handleTcpConns accepts a connection.
Accept(c) ==
  /\ remote[c] = "none" /\ remote' = [remote EXCEPT ![c] = "up"]
  /\ main' = [main EXCEPT ![c] = "select"] /\ reader' = [reader EXCEPT ![c] = "decode"]
  /\ UNCHANGED <<full, deadc, routeVars, regVars, shut, crash>>

\* The daemon takes what was sent to it; a busy one need not.
RemoteReads(c) ==
  /\ remote[c] = "up" /\ full[c] /\ full' = [full EXCEPT ![c] = FALSE]
  /\ UNCHANGED <<remote, main, reader, deadc, routeVars, regVars, shut, crash>>

RemoteGoes(c) ==
  /\ remote[c] = "up" /\ remote' = [remote EXCEPT ![c] = "gone"]
  /\ UNCHANGED <<full, main, reader, deadc, routeVars, regVars, shut, crash>>

\* Encode returns: the bytes went to the socket, or there is no other end.
Written(d) ==
  IF remote[d] = "gone" THEN UNCHANGED full
                        ELSE ~full[d] /\ full' = [full EXCEPT ![d] = TRUE]

-----------------------------------------------------------------------------
(* The session store                                                       *)

\* createSession is in ss.Lock() behind a read lock that notifyRoom has lost.
StoreShuts ==
  /\ ~shut /\ shut' = TRUE
  /\ UNCHANGED <<remote, full, main, reader, deadc, routeVars, regVars, crash>>

-----------------------------------------------------------------------------
(* The reader goroutine                                                    *)

ReaderMove(c, from, at) ==
  /\ reader[c] = from /\ reader' = [reader EXCEPT ![c] = at]
  /\ UNCHANGED <<remote, main, shut>>

\* MUTANT: the reader returns without telling handleUserConn.
DecodeFailsSilently(c) ==
  /\ ReaderMove(c, "decode", "done") /\ UNCHANGED <<full, deadc, routeVars, regVars, crash>>

\* MUTANT: the return after the send on deadc is missing.
DecodeFailsAgain(c) ==
  /\ ReaderMove(c, "decode", "decode") /\ deadc' = [deadc EXCEPT ![c] = @ + 1]
  /\ UNCHANGED <<full, routeVars, regVars, crash>>

\* The other end is gone, was silent for 50 seconds, or sent no ServerReq.
DecodeFails(c) ==
  /\ ReaderMove(c, "decode", "done") /\ deadc' = [deadc EXCEPT ![c] = @ + 1]
  /\ UNCHANGED <<full, routeVars, regVars, crash>>

\* A request to act on.  A wait for ss.RLock() that ends makes it a later one, and
\* one still in the socket when its daemon goes is of a daemon that goes later.
Decodes(c) == remote[c] = "up" /\ reader[c] = "decode"

\* ss.RLock() in getSessionByToken, or for the addressee of a PcSignal, while the
\* store is shut.
LocksOut(c) ==
  /\ shut /\ Decodes(c) /\ ReaderMove(c, "decode", "locked out")
  /\ UNCHANGED <<full, deadc, routeVars, regVars, crash>>

\* MUTANT: a connection registers for its first token only.
RegistersOnce(c, s) ==
  /\ sess' = [sess EXCEPT ![c] = s]
  /\ encoder' = IF sess[c] = Nobody THEN [encoder EXCEPT ![s] = c] ELSE encoder

\* s = the session of the token; s.encoder = encoder, without s.Lock().
Registers(c, s) ==
  /\ sess' = [sess EXCEPT ![c] = s]
  /\ encoder' = [encoder EXCEPT ![s] = c]

TokenTaken(c, s) ==
  /\ ~shut /\ Decodes(c) /\ Lookups /\ Registers(c, s)
  /\ UNCHANGED <<remote, full, main, reader, deadc, routeVars, shut, crash>>

\* No session, or no lookup that returns: a nil pointer is dereferenced.
TokenCrashes(c) ==
  /\ ~shut /\ Decodes(c) /\ crash' = "token"
  /\ UNCHANGED <<remote, full, main, reader, deadc, routeVars, regVars, shut>>

\* MUTANT: the encoder is not compared with nil first.
RouteUnchecked(c, s) ==
  /\ ~shut /\ Decodes(c) /\ sess[c] # Nobody
  /\ to' = [to EXCEPT ![c] = s] /\ ReaderMove(c, "decode", "send")
  /\ UNCHANGED <<full, deadc, via, regVars, crash>>

\* A PcSignal for a session whose encoder is not nil; any other is dropped.
Route(c, s) ==
  /\ ~shut /\ Decodes(c) /\ sess[c] # Nobody /\ encoder[s] # Nobody
  /\ to' = [to EXCEPT ![c] = s] /\ ReaderMove(c, "decode", "send")
  /\ UNCHANGED <<full, deadc, via, regVars, crash>>

\* to_s.encoder is read again for Encode, and may be nil by now.
SendStarts(c) ==
  /\ reader[c] = "send" /\ encoder[to[c]] # Nobody
  /\ via' = [via EXCEPT ![c] = encoder[to[c]]] /\ ReaderMove(c, "send", "write")
  /\ UNCHANGED <<full, deadc, to, regVars, crash>>

SendCrashes(c) ==
  /\ reader[c] = "send" /\ encoder[to[c]] = Nobody /\ crash' = "encoder"
  /\ UNCHANGED <<remote, full, main, reader, deadc, routeVars, regVars, shut>>

\* Encode on another connection's socket; its error is not looked at.
SendEnds(c) ==
  /\ ReaderMove(c, "write", "decode") /\ Written(via[c])
  /\ to' = [to EXCEPT ![c] = Nobody] /\ via' = [via EXCEPT ![c] = Nobody]
  /\ UNCHANGED <<deadc, regVars, crash>>

ReaderStep(c) == SendStarts(c) \/ SendCrashes(c) \/ SendEnds(c)

-----------------------------------------------------------------------------
(* handleUserConn                                                          *)

MainMove(c, from, at) ==
  /\ main[c] = from /\ main' = [main EXCEPT ![c] = at]
  /\ UNCHANGED <<remote, reader, deadc, routeVars, sess, shut, crash>>

\* case <-ticker.C: an empty ServerResp, whose error is only logged.
Tick(c) == MainMove(c, "select", "tick") /\ UNCHANGED <<full, encoder>>

TickWritten(c) == MainMove(c, "tick", "select") /\ Written(c) /\ UNCHANGED encoder

\* MUTANT: the deferred function is given s before any token has come.
EndsForgetful(c) ==
  /\ deadc[c] > 0 /\ MainMove(c, "select", "done") /\ UNCHANGED <<full, encoder>>

\* case <-deadc: return; the deferred function sets s.encoder to nil, whichever
\* connection it is.
Ends(c) ==
  /\ deadc[c] > 0 /\ MainMove(c, "select", "done") /\ UNCHANGED full
  /\ encoder' = IF sess[c] = Nobody THEN encoder ELSE [encoder EXCEPT ![sess[c]] = Nobody]

-----------------------------------------------------------------------------
UserConnNext ==
  /\ crash = "none"
  /\ \/ StoreShuts
     \/ \E c \in UserConns :
          \/ Accept(c) \/ RemoteReads(c) \/ RemoteGoes(c)
          \/ DecodeFails(c) \/ LocksOut(c) \/ TokenCrashes(c) \/ ReaderStep(c)
          \/ \E s \in Sessions : TokenTaken(c, s) \/ Route(c, s)
          \/ Tick(c) \/ TickWritten(c) \/ Ends(c)

UserConnSpec == UserConnInit /\ [][UserConnNext]_userConnVars

(***************************************************************************)
(* The goroutines go on while they can; a socket that has room again and   *)
(* again lets in whoever waits to write; a select that is offered deadc    *)
(* again and again takes it; and a read from a daemon that is gone fails.  *)
(* No daemon need do anything.                                             *)
(***************************************************************************)
UserConnFairness ==
  \A c \in UserConns :
    /\ SF_userConnVars(crash = "none" /\ ReaderStep(c))
    /\ WF_userConnVars(crash = "none" /\ remote[c] = "gone" /\ DecodeFails(c))
    /\ SF_userConnVars(crash = "none" /\ TickWritten(c))
    /\ SF_userConnVars(crash = "none" /\ Ends(c))

UserConnFairSpec == UserConnSpec /\ UserConnFairness
-----------------------------------------------------------------------------
(* Properties                                                              *)

\* The program points of the two goroutines of each connection; a reader never
\* waits to send on deadc.
UserConnTypeOK ==
  /\ remote \in [UserConns -> {"none", "up", "gone"}] /\ full \in [UserConns -> BOOLEAN]
  /\ main \in [UserConns -> {"off", "select", "tick", "done"}]
  /\ reader \in [UserConns -> {"off", "decode", "locked out", "send", "write", "done"}]
  /\ deadc \in [UserConns -> 0..1]
  /\ sess \in [UserConns -> Sessions \cup {Nobody}]
  /\ to \in [UserConns -> Sessions \cup {Nobody}]
  /\ via \in [UserConns -> UserConns \cup {Nobody}]
  /\ encoder \in [Sessions -> UserConns \cup {Nobody}]
  /\ shut \in BOOLEAN /\ crash \in {"none", "token", "encoder"}

\* A session's encoder is of a connection that gave a token, and of one that has
\* ended only if that one went on to another session: the deferred function
\* clears the last session only (server.go:213-217).
EncoderOwner ==
  \A s \in Sessions, c \in UserConns : encoder[s] = c =>
    sess[c] # Nobody /\ (main[c] = "done" => sess[c] # s)

\* A connected daemon's session is without an encoder only because another
\* connection of the same session ended after it had registered: a reconnected
\* daemon gets no signal once its old connection is cleaned up (server.go:215).
EndedWith(s) == {d \in UserConns : main[d] = "done" /\ sess[d] = s}
UnreachableCause ==
  \A c \in UserConns :
    sess[c] # Nobody /\ main[c] # "done" /\ encoder[sess[c]] = Nobody =>
      EndedWith(sess[c]) \ {c} # {}

\* Routing a signal brings the server down only when a connection of the
\* addressee ended between the check and the use (server.go:260-261, :215).
NilEncoderCause ==
  crash = "encoder" =>
    \E c \in UserConns : reader[c] = "send" /\ EndedWith(to[c]) # {}

\* A daemon that is gone is noticed and its connection ends, unless the server
\* crashes or its reader is held up for good: writing a signal to a daemon that
\* is there and does not read (server.go:261: no write has a deadline), or
\* waiting for the session store behind a login that never gets it (server.go:245,
\* :255: RoomServer shows how the web half loses that lock).
HeldUp(c) ==
  /\ reader[c] = "write" /\ via[c] # c /\ full[via[c]] /\ remote[via[c]] = "up"
GoneIsNoticed ==
  \A c \in UserConns :
    (remote[c] = "gone") ~>
      (main[c] = "done" \/ crash # "none" \/ []HeldUp(c)
       \/ reader[c] = "locked out")
=============================================================================
