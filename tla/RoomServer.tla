------------------------------ MODULE RoomServer ------------------------------
(***************************************************************************)
(* The web half of the server: the HTTP handlers of server.go over the     *)
(* session store (memorysessionstore.go), the room store                   *)
(* (memoryroomstore.go) and their read-write locks.                        *)
(*                                                                         *)
(* Each request is one goroutine that net/http runs once.  A session and a *)
(* room are named after the request that made them, for a request makes at *)
(* most one of each.  net/http recovers a handler's panic, and the locks   *)
(* the handler held are then never released.                               *)
(*                                                                         *)
(* A session's encoder is nil throughout: the code that sets it, in        *)
(* handleUserConn, runs only after getSessionByToken has returned, and     *)
(* that crashes the process instead (UserConn).  So os.encoder.Encode in   *)
(* notifyRoom panics for every session it reaches.                         *)
(***************************************************************************)
EXTENDS Naturals, FiniteSets

CONSTANTS
  Reqs,         \* bound: the HTTP requests of a behaviour
  Users,        \* nicknames, standing for the users' ids too
  EmptyPeerId,  \* common.EmptyPeerId
  Nobody,       \* no user, no session, no room
  KnownUsers,   \* documents of db.C("xbtusers"): no code here writes one
  RoomIds,      \* ids that roomIdGen will ever produce, 9900 in the code
  MaxInFlight   \* bound: requests being handled at once

ASSUME RoomServerAssumption ==
  /\ IsFiniteSet(Reqs) /\ Nobody \notin Reqs \cup Users \cup {EmptyPeerId}
  /\ EmptyPeerId \notin Users /\ KnownUsers \subseteq Users
  /\ RoomIds \in Nat /\ MaxInFlight \in Nat \ {0}

VARIABLES
  pc,         \* where a request is in its handler
  op,         \* what it asks for
  who,        \* the nickname it sends
  cookie,     \* the session its cookie names, or the one login gave it
  target,     \* the roomId it sends
  reply,      \* how it ended
  sessions,   \* ss.s: per session LocalState.UserId, or Nobody
  curRoom,    \* per session LocalState.CurRoom
  rooms,      \* rms.rooms
  userRoom,   \* rms.userRoomMap
  idsMade,    \* ids taken from roomIdGen
  ssReaders,  \* read locks on ss never given back
  ssPending,  \* the request in ss.Lock(), which keeps new readers out
  rsHolder    \* the request holding rms.Lock()

replyVars == <<op, who, target>>
roomVars == <<rooms, userRoom, idsMade>>
locks == <<ssReaders, ssPending, rsHolder>>
serverVars == <<pc, cookie, reply, sessions, curRoom, replyVars, roomVars, locks>>

RoomServerInit ==
  /\ pc = [r \in Reqs |-> "idle"] /\ op = [r \in Reqs |-> "none"]
  /\ who = [r \in Reqs |-> Nobody] /\ cookie = [r \in Reqs |-> Nobody]
  /\ target = [r \in Reqs |-> Nobody] /\ reply = [r \in Reqs |-> "none"]
  /\ sessions = [r \in Reqs |-> Nobody] /\ curRoom = [r \in Reqs |-> Nobody]
  /\ rooms = {} /\ userRoom = [u \in Users \cup {EmptyPeerId} |-> Nobody]
  /\ idsMade = 0 /\ ssReaders = 0 /\ ssPending = Nobody /\ rsHolder = Nobody

InFlight == {r \in Reqs : pc[r] \notin {"idle", "done"}}

\* ss.RLock() does not block, unless a writer waits.  What is read is read in
\* one step, for every write to ss.s holds the lock.
CanRead == ssPending = Nobody

Goto(r, from, to) == pc[r] = from /\ pc' = [pc EXCEPT ![r] = to]
Keep == UNCHANGED <<cookie, reply>>

\* The handler ends with this status, or with a panic net/http recovers:
\* "died" is one in notifyRoom, "panic" one that costs no lock.
Finish(r, from, status) ==
  Goto(r, from, "done") /\ reply' = [reply EXCEPT ![r] = status] /\ UNCHANGED cookie

-----------------------------------------------------------------------------
(* /api/register and /api/login                                            *)

Arrives(r, at) ==
  /\ Cardinality(InFlight) < MaxInFlight /\ Goto(r, "idle", at)

\* A browser sends a nickname and a password.
StartLogin(r, o, u) ==
  /\ Arrives(r, IF o = "register" THEN "insert" ELSE "lookup")
  /\ op' = [op EXCEPT ![r] = o] /\ who' = [who EXCEPT ![r] = u]
  /\ UNCHANGED <<cookie, reply, target, sessions, curRoom, roomVars, locks>>

\* db.C("Users").Insert worked or not; login reads another collection.
RegisterInsert(r) ==
  /\ \/ Goto(r, "insert", "lookup") /\ Keep
     \/ Finish(r, "insert", "403")
  /\ UNCHANGED <<replyVars, sessions, curRoom, roomVars, locks>>

\* db.C("xbtusers").Find and the password are good.
LoginFound(r) ==
  /\ who[r] \in KnownUsers /\ Goto(r, "lookup", "find") /\ Keep
  /\ UNCHANGED <<replyVars, sessions, curRoom, roomVars, locks>>

\* Unknown nickname or wrong password: only /api/login tells the browser.
LoginRefused(r) ==
  /\ Finish(r, "lookup", IF op[r] = "register" THEN "200" ELSE "403")
  /\ UNCHANGED <<replyVars, sessions, curRoom, roomVars, locks>>

\* The handler answers 200 and sets the cookie of session s.
SetCookie(r, from, s) ==
  /\ Goto(r, from, "done") /\ reply' = [reply EXCEPT ![r] = "200"]
  /\ cookie' = [cookie EXCEPT ![r] = s]

\* MUTANT: getSessionByPeerId's result is not used.
FindSessionForgets(r) ==
  /\ CanRead /\ Goto(r, "find", "announce") /\ Keep
  /\ UNCHANGED <<replyVars, sessions, curRoom, roomVars, locks>>

\* getSessionByPeerId: any session of the user, the map's order decides.
FindSession(r) ==
  /\ CanRead
  /\ \/ \E s \in Reqs : sessions[s] = who[r] /\ SetCookie(r, "find", s)
     \/ (\A s \in Reqs : sessions[s] # who[r]) /\ Goto(r, "find", "announce") /\ Keep
  /\ UNCHANGED <<replyVars, sessions, curRoom, roomVars, locks>>

\* createSession: ss.Lock() shuts new readers out and waits for the others.
AnnounceWrite(r) ==
  /\ ssPending = Nobody /\ ssPending' = r
  /\ Goto(r, "announce", "create") /\ Keep
  /\ UNCHANGED <<replyVars, sessions, curRoom, roomVars, ssReaders, rsHolder>>

\* MUTANT: ss.Unlock() is missing.
CreateKeepsLock(r) ==
  /\ ssReaders = 0
  /\ sessions' = [sessions EXCEPT ![r] = who[r]]
  /\ SetCookie(r, "create", r)
  /\ UNCHANGED <<replyVars, curRoom, roomVars, locks>>

\* ss.s[s.Id] = s; ss.Unlock().  Session.UserId is left empty.
CreateSession(r) ==
  /\ ssReaders = 0
  /\ sessions' = [sessions EXCEPT ![r] = who[r]] /\ ssPending' = Nobody
  /\ SetCookie(r, "create", r)
  /\ UNCHANGED <<replyVars, curRoom, roomVars, ssReaders, rsHolder>>

\* A body without the string the handler asserts, where it is first used.
BadBody(r) ==
  /\ \/ Finish(r, "insert", "panic")
     \/ op[r] = "login" /\ Finish(r, "lookup", "panic")
     \/ Finish(r, "newRoom", "panic")
  /\ UNCHANGED <<replyVars, sessions, curRoom, roomVars, locks>>

Login(r) ==
  \/ RegisterInsert(r) \/ LoginFound(r) \/ LoginRefused(r)
  \/ FindSession(r) \/ AnnounceWrite(r) \/ CreateSession(r)

-----------------------------------------------------------------------------
(* The handlers that start with getSessionByRequest                        *)

Given == {cookie[r] : r \in {q \in Reqs : op[q] \in {"login", "register"}}} \ {Nobody}

\* A browser sends a request; its cookie is a session id it was given, if any.
StartCookie(r, o, s, m) ==
  /\ s \in Given \cup {Nobody} /\ Arrives(r, "auth")
  /\ op' = [op EXCEPT ![r] = o] /\ cookie' = [cookie EXCEPT ![r] = s]
  /\ target' = [target EXCEPT ![r] = m]
  /\ UNCHANGED <<who, reply, sessions, curRoom, roomVars, locks>>

HasSession(r) == cookie[r] # Nobody /\ sessions[cookie[r]] # Nobody

\* No session: 403.
AuthRefused(r) ==
  /\ CanRead /\ ~HasSession(r) /\ Finish(r, "auth", "403")
  /\ UNCHANGED <<replyVars, sessions, curRoom, roomVars, locks>>

\* /api/status and GET /api/rooms only read; /api/download dereferences a nil
\* *User and panics, holding no lock.
AuthReads(r) ==
  /\ CanRead /\ HasSession(r) /\ op[r] \in {"status", "download"}
  /\ Finish(r, "auth", IF op[r] = "download" THEN "panic" ELSE "200")
  /\ UNCHANGED <<replyVars, sessions, curRoom, roomVars, locks>>

\* POST /api/rooms and /api/cmd/changeroom go on.
AuthRooms(r) ==
  /\ CanRead /\ HasSession(r) /\ op[r] \in {"post", "change"}
  /\ Goto(r, "auth", IF op[r] = "post" THEN "newRoom" ELSE "getRoom") /\ Keep
  /\ UNCHANGED <<replyVars, sessions, curRoom, roomVars, locks>>

Auth(r) == AuthRefused(r) \/ AuthReads(r) \/ AuthRooms(r)

-----------------------------------------------------------------------------
(* notifyRoom                                                              *)

Occupied(m) == \E s \in Reqs : sessions[s] # Nobody /\ curRoom[s] = m

\* MUTANT: ss.RUnlock() is missing at the end.
NotifiedLeaks(m) ==
  CanRead /\ ~Occupied(m) /\ ssReaders' = ssReaders + 1 /\ UNCHANGED ssPending

\* No session is in the room: nothing to encode.
Notified(m) == CanRead /\ ~Occupied(m) /\ UNCHANGED <<ssReaders, ssPending>>

\* Encode on a nil encoder panics, and ss.RUnlock() is not deferred.
NotifyPanics(r, from, m) ==
  /\ CanRead /\ Occupied(m)
  /\ ssReaders' = ssReaders + 1 /\ UNCHANGED ssPending
  /\ Finish(r, from, "died")

-----------------------------------------------------------------------------
(* POST /api/rooms: makeAndChangeRoom                                      *)

NewRoomLock(r) ==
  /\ rsHolder = Nobody /\ rsHolder' = r
  /\ Goto(r, "newRoom", "newId") /\ Keep
  /\ UNCHANGED <<replyVars, sessions, curRoom, roomVars, ssReaders, ssPending>>

\* MUTANT: the id is made on the spot instead of taken from roomIdGen.
NewRoomIdUnbounded(r) ==
  /\ idsMade' = idsMade + 1
  /\ rooms' = rooms \cup {r} /\ rsHolder' = Nobody
  /\ Goto(r, "newId", "enter") /\ Keep
  /\ UNCHANGED <<replyVars, sessions, curRoom, userRoom, ssReaders, ssPending>>

\* <-roomIdGen, with the lock held: blocks for good after the last id.
NewRoomId(r) ==
  /\ idsMade < RoomIds /\ idsMade' = idsMade + 1
  /\ rooms' = rooms \cup {r} /\ rsHolder' = Nobody
  /\ Goto(r, "newId", "enter") /\ Keep
  /\ UNCHANGED <<replyVars, sessions, curRoom, userRoom, ssReaders, ssPending>>

\* MUTANT: the session is not put into the room that was made for it.
EnterRoomForgets(r) ==
  /\ Goto(r, "enter", "notify") /\ Keep
  /\ UNCHANGED <<replyVars, sessions, curRoom, roomVars, locks>>

\* s.LocalState.CurRoom = r, without a lock; userRoomMap is left alone.
EnterRoom(r) ==
  /\ Goto(r, "enter", "notify") /\ Keep
  /\ curRoom' = [curRoom EXCEPT ![cookie[r]] = r]
  /\ UNCHANGED <<replyVars, sessions, roomVars, locks>>

NotifyMade(r) ==
  /\ \/ Notified(r) /\ Finish(r, "notify", "200")
     \/ NotifyPanics(r, "notify", r)
  /\ UNCHANGED <<replyVars, sessions, curRoom, roomVars, rsHolder>>

PostRoom(r) == NewRoomLock(r) \/ NewRoomId(r) \/ EnterRoom(r) \/ NotifyMade(r)

-----------------------------------------------------------------------------
(* /api/cmd/changeroom: getRoom, then changeUserRoom(s.UserId, room), where *)
(* s.UserId is empty in every session                                       *)

\* MUTANT: rs.RUnlock() is missing; a lock held for reading keeps rs.Lock() out.
GetRoomKeepsLock(r) ==
  /\ rsHolder = Nobody
  /\ \/ /\ target[r] \in rooms /\ Goto(r, "getRoom", "changeRoom") /\ Keep
        /\ rsHolder' = r
     \/ target[r] \notin rooms /\ Finish(r, "getRoom", "502") /\ UNCHANGED rsHolder
  /\ UNCHANGED <<replyVars, sessions, curRoom, roomVars, ssReaders, ssPending>>

GetRoom(r) ==
  /\ rsHolder = Nobody
  /\ \/ target[r] \in rooms /\ Goto(r, "getRoom", "changeRoom") /\ Keep
     \/ target[r] \notin rooms /\ Finish(r, "getRoom", "502")
  /\ UNCHANGED <<replyVars, sessions, curRoom, roomVars, locks>>

\* changeUserRoom: rs.Lock()
ChangeRoom(r) ==
  /\ rsHolder = Nobody /\ rsHolder' = r
  /\ Goto(r, "changeRoom", IF userRoom[EmptyPeerId] # Nobody THEN "leave" ELSE "join")
  /\ Keep
  /\ UNCHANGED <<replyVars, sessions, curRoom, roomVars, ssReaders, ssPending>>

SetUserRoom(m) ==
  userRoom' = [userRoom EXCEPT ![EmptyPeerId] = m] /\ UNCHANGED <<rooms, idsMade>>

\* removeUserFromRoom, then notifyRoom for the room left.  The deletion is
\* part of the same step: only the holder of rs.Lock() reads userRoomMap.
\* A panic leaves rs locked, for this Unlock is not deferred.
LeaveRoom(r) ==
  /\ \/ Notified(userRoom[EmptyPeerId]) /\ Goto(r, "leave", "join") /\ Keep
     \/ NotifyPanics(r, "leave", userRoom[EmptyPeerId])
  /\ SetUserRoom(Nobody)
  /\ UNCHANGED <<replyVars, sessions, curRoom, rsHolder>>

\* addUserToRoom, then notifyRoom for the new room, then rs.Unlock().
JoinRoom(r) ==
  /\ \/ Notified(target[r]) /\ Finish(r, "join", "200") /\ rsHolder' = Nobody
     \/ NotifyPanics(r, "join", target[r]) /\ UNCHANGED rsHolder
  /\ SetUserRoom(target[r])
  /\ UNCHANGED <<replyVars, sessions, curRoom>>

Change(r) == GetRoom(r) \/ ChangeRoom(r) \/ LeaveRoom(r) \/ JoinRoom(r)

-----------------------------------------------------------------------------
Arrive ==
  \E r \in Reqs :
    \/ \E o \in {"register", "login"}, u \in Users : StartLogin(r, o, u)
    \/ \E o \in {"status", "download", "post", "change"}, s \in Reqs \cup {Nobody} :
         \E m \in IF o = "change" THEN Reqs ELSE {Nobody} : StartCookie(r, o, s, m)

Handle(r) == BadBody(r) \/ Login(r) \/ Auth(r) \/ PostRoom(r) \/ Change(r)

RoomServerNext == Arrive \/ \E r \in Reqs : Handle(r)

RoomServerSpec == RoomServerInit /\ [][RoomServerNext]_serverVars

(***************************************************************************)
(* Go runs every handler that is not blocked, and its read-write locks     *)
(* admit whoever waits: a waiting writer shuts new readers out, and the    *)
(* readers it waits for go before the next writer.  Hence SF.  No request  *)
(* need ever arrive.                                                       *)
(***************************************************************************)
RoomServerFairness == \A r \in Reqs : SF_serverVars(Handle(r))

RoomServerFairSpec == RoomServerSpec /\ RoomServerFairness
-----------------------------------------------------------------------------
(* Properties                                                              *)

\* The handlers' program points and the stores' contents.
RoomServerTypeOK ==
  /\ pc \in [Reqs -> {"idle", "insert", "lookup", "find", "announce", "create", "auth",
                      "newRoom", "newId", "enter", "notify", "getRoom", "changeRoom",
                      "leave", "join", "done"}]
  /\ op \in [Reqs -> {"none", "register", "login", "status", "download", "post", "change"}]
  /\ who \in [Reqs -> Users \cup {Nobody}]
  /\ cookie \in [Reqs -> Reqs \cup {Nobody}]
  /\ target \in [Reqs -> Reqs \cup {Nobody}]
  /\ reply \in [Reqs -> {"none", "panic", "died", "200", "403", "502"}]
  /\ sessions \in [Reqs -> Users \cup {Nobody}]
  /\ curRoom \in [Reqs -> Reqs \cup {Nobody}]
  /\ rooms \subseteq Reqs /\ idsMade \in 0..RoomIds
  /\ userRoom \in [Users \cup {EmptyPeerId} -> Reqs \cup {Nobody}]
  /\ ssReaders \in Nat
  /\ ssPending \in Reqs \cup {Nobody} /\ rsHolder \in Reqs \cup {Nobody}

SessionsOf(u) == {s \in Reqs : sessions[s] = u}

\* The check and the creation in _setSessionCookie are not atomic (api.go:68-71):
\* a user gets a second session, but only from logins that overlap.
SessionsPerUser == \A u \in Users : Cardinality(SessionsOf(u)) <= MaxInFlight

\* The read locks ss has lost are exactly those of the handlers that died in
\* notifyRoom; every other way out gives them back.
Died == {r \in Reqs : reply[r] = "died"}
LeaksAreDeaths == ssReaders = Cardinality(Died)

\* rms.Lock() is held by the one request in a critical section of the room
\* store, or by a changeroom that died in one.
InRoomStore(r) == pc[r] \in {"newId", "leave", "join"}
RoomLockOwner ==
  \A r \in Reqs : rsHolder = r <=> InRoomStore(r) \/ (r \in Died /\ op[r] = "change")

\* POST /api/rooms is answered 200 only if its session made another room: its own
\* notifyRoom finds the session gone from the room that was made for it.  Any other
\* POST costs the session store a read lock (api.go:131-134).
PostOvertaken ==
  \A r \in Reqs : op[r] = "post" /\ reply[r] = "200" =>
    \E q \in Reqs \ {r} : op[q] = "post" /\ cookie[q] = cookie[r] /\ q \in rooms

\* Where a request waits while a writer has asked for ss, and while rms is locked.
AtSessionStore == {"find", "auth", "notify", "leave", "join", "announce"}
AtRoomStore == {"newRoom", "getRoom", "changeRoom"}

WaitsFor(r) ==
  CASE pc[r] \in AtSessionStore -> {ssPending} \ {Nobody}
    [] pc[r] \in AtRoomStore -> {rsHolder} \ {Nobody}
    [] pc[r] = "create" /\ ssReaders > 0 -> Died
    [] OTHER -> {}

\* How many locks may be between a request and its next step.
Depth(r) ==
  CASE pc[r] \in AtRoomStore -> 2
    [] pc[r] \in AtSessionStore -> 1
    [] OTHER -> 0

\* No circle of requests waits for itself: notifyRoom takes ss under rms
\* (memoryroomstore.go:65, :83) and nobody takes them the other way round.  Only
\* a request that died holds a lock for nothing.
LocksInOrder ==
  \A r \in Reqs : \A q \in WaitsFor(r) :
    q \in Reqs /\ (Depth(q) < Depth(r) \/ q \in Died)

\* The session store is shut: a writer waits for a read lock nobody gives back.
Shut == ssReaders > 0 /\ ssPending # Nobody

\* A request is answered, unless a lock was lost before or roomIdGen ran dry.
IdsExhausted == \E r \in Reqs : pc[r] = "newId" /\ idsMade = RoomIds
RequestsAnswered ==
  \A r \in Reqs : (pc[r] # "idle") ~> (pc[r] = "done" \/ ssReaders > 0 \/ IdsExhausted)

\* memoryroomstore.go:74 "add user to new room": a changeroom that was answered
\* 200 has put its user in userRoomMap.
UserAddedToRoom ==
  \A r \in Reqs : op[r] = "change" /\ reply[r] = "200" =>
    userRoom[sessions[cookie[r]]] # Nobody
=============================================================================
