--------------------------- MODULE RoomServerProofs ---------------------------
(***************************************************************************)
(* What holds of the two stores and their locks for any number of          *)
(* requests, users and rooms.                                              *)
(*                                                                         *)
(* RInv is the inductive invariant.  Shape says which handler a request is *)
(* in at each program point and that only a finished request has a reply   *)
(* or a session of its own.  Duplicates adds to a user's sessions the      *)
(* logins that already found none: SessionsPerUser alone is not inductive, *)
(* for nothing in it bounds the logins about to create.  SelfMade ties a   *)
(* room to the program point of the request that makes it.                 *)
(* SessionInv, over RInv, is about whose session a handler works on and    *)
(* what a POST that is answered presupposes.  The last two sections say    *)
(* that the two locks are taken in one order, and that the session store   *)
(* never recovers once it is shut.                                         *)
(***************************************************************************)
EXTENDS RoomServer, FiniteSetTheorems, TLAPS

USE RoomServerAssumption
    DEF RoomServerAssumption, replyVars, roomVars, locks, Goto, Arrives, Keep, Finish, SetCookie

Shape ==
  \A r \in Reqs :
    /\ pc[r] # "done" => reply[r] = "none" /\ sessions[r] = Nobody
    /\ pc[r] \in {"getRoom", "changeRoom", "leave", "join"} => op[r] = "change"
    /\ pc[r] \in {"newRoom", "newId", "enter", "notify"} => op[r] = "post"

\* Logins that found no session of u and will create one.
Creating(u) == {r \in Reqs : pc[r] \in {"announce", "create"} /\ who[r] = u}

Duplicates ==
  /\ Cardinality(InFlight) <= MaxInFlight
  /\ \A u \in Users : Cardinality(SessionsOf(u)) + Cardinality(Creating(u)) <= MaxInFlight

\* changeUserRoom and makeAndChangeRoom keep separate books: a session's CurRoom
\* is a room that it made itself.
CurRoomSelfMade ==
  \A s \in Reqs : curRoom[s] # Nobody => curRoom[s] \in rooms /\ cookie[curRoom[s]] = s

\* A room exists from the moment its request holds an id, and a request that
\* made one keeps the cookie it came with.
SelfMade ==
  /\ CurRoomSelfMade
  /\ \A r \in Reqs :
       /\ pc[r] \in {"enter", "notify"} => r \in rooms
       /\ r \in rooms => pc[r] \in {"enter", "notify", "done"}

RInv ==
  /\ RoomServerTypeOK /\ Shape /\ LeaksAreDeaths /\ RoomLockOwner
  /\ Duplicates /\ SelfMade

-----------------------------------------------------------------------------
(* Counting requests                                                       *)

\* Every set of requests is finite.
LEMMA ReqSets ==
  ASSUME NEW S \in SUBSET Reqs
  PROVE  IsFiniteSet(S) /\ Cardinality(S) \in Nat
BY FS_Subset, FS_CardinalityType

\* Adding one request adds one.
LEMMA OneMore ==
  ASSUME NEW S \in SUBSET Reqs, NEW r \in Reqs, r \notin S
  PROVE  Cardinality(S \cup {r}) = Cardinality(S) + 1
BY ReqSets, FS_AddElement

\* Taking one request away takes one off.
LEMMA OneLess ==
  ASSUME NEW S \in SUBSET Reqs, NEW r \in S
  PROVE  Cardinality(S \ {r}) = Cardinality(S) - 1
BY ReqSets, FS_RemoveElement

\* A smaller set counts no more.
LEMMA NoMore ==
  ASSUME NEW S \in SUBSET Reqs, NEW T \in SUBSET S
  PROVE  Cardinality(T) <= Cardinality(S)
BY ReqSets, FS_Subset

-----------------------------------------------------------------------------
(* Types, shape and the room lock                                          *)

Locked == RoomServerTypeOK /\ Shape /\ RoomLockOwner

\* Requests that arrive hold nothing.
LEMMA ArriveLocked == ASSUME Locked, Arrive PROVE Locked'
<1> USE DEF Locked, RoomServerTypeOK, Shape, RoomLockOwner, InRoomStore, Died
<1>1. ASSUME NEW r \in Reqs, NEW o \in {"register", "login"}, NEW u \in Users,
             StartLogin(r, o, u)
      PROVE  Locked'
  BY <1>1 DEF StartLogin
<1>2. ASSUME NEW r \in Reqs, NEW o \in {"status", "download", "post", "change"},
             NEW s \in Reqs \cup {Nobody}, NEW m \in Reqs \cup {Nobody},
             StartCookie(r, o, s, m)
      PROVE  Locked'
  BY <1>2 DEF StartCookie
<1>3. QED
  <2> HIDE DEF Locked
  <2>1. PICK r \in Reqs :
          \/ \E o \in {"register", "login"}, u \in Users : StartLogin(r, o, u)
          \/ \E o \in {"status", "download", "post", "change"}, s \in Reqs \cup {Nobody} :
               \E m \in IF o = "change" THEN Reqs ELSE {Nobody} : StartCookie(r, o, s, m)
    BY DEF Arrive
  <2>2. QED BY <1>1, <1>2, <2>1

\* register, login and the cookie check do not touch the room store.
LEMMA LoginLocked ==
  ASSUME Locked, NEW r \in Reqs, BadBody(r) \/ Login(r) \/ Auth(r) PROVE Locked'
<1> USE DEF Locked, RoomServerTypeOK, Shape, RoomLockOwner, InRoomStore, Died
<1>1. CASE BadBody(r) BY <1>1 DEF BadBody
<1>2. CASE RegisterInsert(r) BY <1>2 DEF RegisterInsert
<1>3. CASE LoginFound(r) BY <1>3 DEF LoginFound
<1>4. CASE LoginRefused(r) BY <1>4 DEF LoginRefused
<1>5. CASE FindSession(r) BY <1>5 DEF FindSession
<1>6. CASE AnnounceWrite(r) BY <1>6 DEF AnnounceWrite
<1>7. CASE CreateSession(r) BY <1>7 DEF CreateSession
<1>8. CASE AuthRefused(r) BY <1>8 DEF AuthRefused
<1>9. CASE AuthReads(r) BY <1>9 DEF AuthReads
<1>10. CASE AuthRooms(r) BY <1>10 DEF AuthRooms
<1>11. QED
  BY <1>1, <1>2, <1>3, <1>4, <1>5, <1>6, <1>7, <1>8, <1>9, <1>10 DEF Login, Auth

\* makeAndChangeRoom gives the room lock back before it can die.
LEMMA PostLocked ==
  ASSUME Locked, NEW r \in Reqs, PostRoom(r) PROVE Locked'
<1> USE DEF Locked, RoomServerTypeOK, Shape, RoomLockOwner, InRoomStore, Died
<1>1. CASE NewRoomLock(r) BY <1>1 DEF NewRoomLock
<1>2. CASE NewRoomId(r) BY <1>2 DEF NewRoomId
<1>3. CASE EnterRoom(r) BY <1>3 DEF EnterRoom
<1>4. CASE NotifyMade(r) BY <1>4 DEF NotifyMade, Notified, NotifyPanics
<1>5. QED BY <1>1, <1>2, <1>3, <1>4 DEF PostRoom

\* changeUserRoom keeps the room lock when it dies.
LEMMA ChangeLocked ==
  ASSUME Locked, NEW r \in Reqs, Change(r) PROVE Locked'
<1> USE DEF Locked, RoomServerTypeOK, Shape, RoomLockOwner, InRoomStore, Died
<1>1. CASE GetRoom(r) BY <1>1 DEF GetRoom
<1>2. CASE ChangeRoom(r) BY <1>2 DEF ChangeRoom
<1>3. CASE LeaveRoom(r) BY <1>3 DEF LeaveRoom, SetUserRoom, Notified, NotifyPanics
<1>4. CASE JoinRoom(r) BY <1>4 DEF JoinRoom, SetUserRoom, Notified, NotifyPanics
<1>5. QED BY <1>1, <1>2, <1>3, <1>4 DEF Change
-----------------------------------------------------------------------------
(* The lost read locks                                                     *)

\* A step in which a handler dies in notifyRoom loses one read lock, and in
\* no other step does a lock get lost or a handler die.
LEMMA DeathStep ==
  ASSUME Locked, RoomServerNext
  PROVE  \/ Died' = Died /\ ssReaders' = ssReaders
         \/ \E r \in Reqs \ Died : Died' = Died \cup {r} /\ ssReaders' = ssReaders + 1
<1> USE DEF Locked, RoomServerTypeOK, Shape, Died
<1>1. CASE Arrive
  BY <1>1 DEF Arrive, StartLogin, StartCookie
<1>2. ASSUME NEW r \in Reqs, BadBody(r) \/ Login(r) \/ Auth(r)
      PROVE  Died' = Died /\ ssReaders' = ssReaders
  BY <1>2 DEF BadBody, Login, RegisterInsert, LoginFound, LoginRefused, FindSession,
              AnnounceWrite, CreateSession, Auth, AuthRefused, AuthReads, AuthRooms
<1>3. ASSUME NEW r \in Reqs,
             \/ NewRoomLock(r) \/ NewRoomId(r) \/ EnterRoom(r) \/ GetRoom(r) \/ ChangeRoom(r)
      PROVE  Died' = Died /\ ssReaders' = ssReaders
  BY <1>3 DEF NewRoomLock, NewRoomId, EnterRoom, GetRoom, ChangeRoom
<1>4. ASSUME NEW r \in Reqs, NEW from, NEW m, NotifyPanics(r, from, m), from # "done"
      PROVE  r \notin Died /\ Died' = Died \cup {r} /\ ssReaders' = ssReaders + 1
  BY <1>4 DEF NotifyPanics
<1>5. ASSUME NEW r \in Reqs, NotifyMade(r)
      PROVE  \/ Died' = Died /\ ssReaders' = ssReaders
             \/ r \notin Died /\ Died' = Died \cup {r} /\ ssReaders' = ssReaders + 1
  <2>1. CASE Notified(r) /\ Finish(r, "notify", "200") BY <2>1 DEF Notified
  <2>2. CASE NotifyPanics(r, "notify", r) BY <1>4, <2>2
  <2>3. QED BY <1>5, <2>1, <2>2 DEF NotifyMade
<1>6. ASSUME NEW r \in Reqs, LeaveRoom(r)
      PROVE  \/ Died' = Died /\ ssReaders' = ssReaders
             \/ r \notin Died /\ Died' = Died \cup {r} /\ ssReaders' = ssReaders + 1
  <2>1. CASE Notified(userRoom[EmptyPeerId]) /\ Goto(r, "leave", "join") /\ Keep
    BY <2>1 DEF Notified
  <2>2. CASE NotifyPanics(r, "leave", userRoom[EmptyPeerId]) BY <1>4, <2>2
  <2>3. QED BY <1>6, <2>1, <2>2 DEF LeaveRoom
<1>7. ASSUME NEW r \in Reqs, JoinRoom(r)
      PROVE  \/ Died' = Died /\ ssReaders' = ssReaders
             \/ r \notin Died /\ Died' = Died \cup {r} /\ ssReaders' = ssReaders + 1
  <2>1. CASE Notified(target[r]) /\ Finish(r, "join", "200") BY <2>1 DEF Notified
  <2>2. CASE NotifyPanics(r, "join", target[r]) BY <1>4, <2>2
  <2>3. QED BY <1>7, <2>1, <2>2 DEF JoinRoom
<1>8. QED
  <2> HIDE DEF Died
  <2>1. QED
    BY <1>1, <1>2, <1>3, <1>5, <1>6, <1>7 DEF RoomServerNext, Handle, PostRoom, Change

\* Hence the count of lost locks stays the count of deaths.
LEMMA LeakStep ==
  ASSUME Locked, LeaksAreDeaths, RoomServerNext PROVE LeaksAreDeaths'
<1>1. Died \in SUBSET Reqs BY DEF Died
<1>2. CASE Died' = Died /\ ssReaders' = ssReaders BY <1>2 DEF LeaksAreDeaths
<1>3. ASSUME NEW r \in Reqs \ Died, Died' = Died \cup {r}, ssReaders' = ssReaders + 1
      PROVE  LeaksAreDeaths'
  <2>1. Cardinality(Died \cup {r}) = Cardinality(Died) + 1 BY <1>1, OneMore
  <2>2. QED BY <1>3, <2>1 DEF LeaksAreDeaths
<1>4. QED BY <1>2, <1>3, DeathStep

-----------------------------------------------------------------------------
(* The sessions of a user                                                  *)

\* A step adds a request to those in flight only below the bound.
LEMMA InFlightStep ==
  ASSUME Locked, RoomServerNext
  PROVE  \/ InFlight' \subseteq InFlight
         \/ /\ Cardinality(InFlight) < MaxInFlight
            /\ \E r \in Reqs \ InFlight : InFlight' = InFlight \cup {r}
<1> USE DEF Locked, RoomServerTypeOK, InFlight
<1>1. ASSUME NEW r \in Reqs, NEW o \in {"register", "login"}, NEW u \in Users,
             StartLogin(r, o, u)
      PROVE  /\ Cardinality(InFlight) < MaxInFlight
             /\ r \notin InFlight /\ InFlight' = InFlight \cup {r}
  BY <1>1 DEF StartLogin
<1>2. ASSUME NEW r \in Reqs, NEW o, NEW s, NEW m, StartCookie(r, o, s, m)
      PROVE  /\ Cardinality(InFlight) < MaxInFlight
             /\ r \notin InFlight /\ InFlight' = InFlight \cup {r}
  BY <1>2 DEF StartCookie
<1>3. ASSUME NEW r \in Reqs, BadBody(r) \/ Login(r) \/ Auth(r) PROVE InFlight' \subseteq InFlight
  BY <1>3 DEF BadBody, Login, RegisterInsert, LoginFound, LoginRefused, FindSession,
              AnnounceWrite, CreateSession, Auth, AuthRefused, AuthReads, AuthRooms
<1>4. ASSUME NEW r \in Reqs, PostRoom(r) \/ Change(r) PROVE InFlight' \subseteq InFlight
  BY <1>4 DEF PostRoom, NewRoomLock, NewRoomId, EnterRoom, NotifyMade, NotifyPanics,
              Change, GetRoom, ChangeRoom, LeaveRoom, JoinRoom
<1>5. QED
  <2> HIDE DEF InFlight
  <2>1. QED BY <1>1, <1>2, <1>3, <1>4 DEF RoomServerNext, Arrive, Handle

\* What a step does to a user's sessions and pending creations: nothing new, a
\* creation that found no session, or a pending creation made good.
LEMMA CreatingStep ==
  ASSUME Locked, RoomServerNext, NEW u \in Users
  PROVE  \/ SessionsOf(u)' = SessionsOf(u) /\ Creating(u)' \subseteq Creating(u)
         \/ SessionsOf(u)' = {} /\ Creating(u)' \subseteq InFlight'
         \/ \E r \in Creating(u) \ SessionsOf(u) :
              SessionsOf(u)' = SessionsOf(u) \cup {r} /\ Creating(u)' = Creating(u) \ {r}
<1> USE DEF Locked, RoomServerTypeOK, Shape, SessionsOf, Creating
<1>1. CASE Arrive BY <1>1 DEF Arrive, StartLogin, StartCookie
<1>2. ASSUME NEW r \in Reqs, FindSession(r)
      PROVE  \/ SessionsOf(u)' = SessionsOf(u) /\ Creating(u)' \subseteq Creating(u)
             \/ SessionsOf(u)' = {} /\ Creating(u)' \subseteq InFlight'
  BY <1>2 DEF FindSession, InFlight
<1>3. ASSUME NEW r \in Reqs, CreateSession(r)
      PROVE  \/ SessionsOf(u)' = SessionsOf(u) /\ Creating(u)' \subseteq Creating(u)
             \/ /\ r \in Creating(u) \ SessionsOf(u)
                /\ SessionsOf(u)' = SessionsOf(u) \cup {r} /\ Creating(u)' = Creating(u) \ {r}
  BY <1>3 DEF CreateSession
<1>4. ASSUME NEW r \in Reqs,
             \/ BadBody(r) \/ RegisterInsert(r) \/ LoginFound(r) \/ LoginRefused(r)
             \/ AnnounceWrite(r) \/ Auth(r)
      PROVE  SessionsOf(u)' = SessionsOf(u) /\ Creating(u)' \subseteq Creating(u)
  BY <1>4 DEF BadBody, RegisterInsert, LoginFound, LoginRefused, AnnounceWrite, Auth,
              AuthRefused, AuthReads, AuthRooms
<1>5. ASSUME NEW r \in Reqs, PostRoom(r) \/ Change(r)
      PROVE  SessionsOf(u)' = SessionsOf(u) /\ Creating(u)' \subseteq Creating(u)
  BY <1>5 DEF PostRoom, NewRoomLock, NewRoomId, EnterRoom, NotifyMade, NotifyPanics,
              Change, GetRoom, ChangeRoom, LeaveRoom, JoinRoom
<1>6. QED
  <2> HIDE DEF SessionsOf, Creating
  <2>1. QED BY <1>1, <1>2, <1>3, <1>4, <1>5 DEF RoomServerNext, Handle, Login

\* The bound survives each of the three.
LEMMA DuplicatesStep ==
  ASSUME Locked, Duplicates, RoomServerNext PROVE Duplicates'
<1> USE DEF Duplicates
<1>1. InFlight \in SUBSET Reqs /\ InFlight' \in SUBSET Reqs BY DEF InFlight
<1>2. Cardinality(InFlight') <= MaxInFlight
  <2>1. CASE InFlight' \subseteq InFlight
    <3>1. Cardinality(InFlight') <= Cardinality(InFlight) BY <1>1, <2>1, NoMore
    <3>2. QED BY <1>1, <3>1, ReqSets
  <2>2. ASSUME NEW r \in Reqs \ InFlight, InFlight' = InFlight \cup {r},
               Cardinality(InFlight) < MaxInFlight
        PROVE  Cardinality(InFlight') <= MaxInFlight
    <3>1. Cardinality(InFlight') = Cardinality(InFlight) + 1 BY <1>1, <2>2, OneMore
    <3>2. QED BY <1>1, <2>2, <3>1, ReqSets
  <2>3. QED BY <2>1, <2>2, InFlightStep
<1>3. ASSUME NEW u \in Users
      PROVE  Cardinality(SessionsOf(u)') + Cardinality(Creating(u)') <= MaxInFlight
  <2> DEFINE S == SessionsOf(u)
             C == Creating(u)
  <2>1. S \in SUBSET Reqs /\ C \in SUBSET Reqs /\ S' \in SUBSET Reqs /\ C' \in SUBSET Reqs
    BY DEF SessionsOf, Creating
  <2>2. Cardinality(S) \in Nat /\ Cardinality(C) \in Nat /\ Cardinality(C') \in Nat
    BY <2>1, ReqSets
  <2>3. Cardinality(S) + Cardinality(C) <= MaxInFlight OBVIOUS
  <2>4. CASE S' = S /\ C' \subseteq C
    <3>1. Cardinality(C') <= Cardinality(C) BY <2>1, <2>4, NoMore
    <3>2. QED BY <2>2, <2>3, <2>4, <3>1
  <2>5. CASE S' = {} /\ C' \subseteq InFlight'
    <3>1. Cardinality(C') <= Cardinality(InFlight') BY <1>1, <2>5, NoMore
    <3>2. Cardinality(S') = 0 BY <2>5, FS_EmptySet
    <3>3. Cardinality(InFlight') \in Nat BY <1>1, ReqSets
    <3>4. QED BY <1>2, <2>2, <3>1, <3>2, <3>3
  <2>6. ASSUME NEW r \in C \ S, S' = S \cup {r}, C' = C \ {r}
        PROVE  Cardinality(S') + Cardinality(C') <= MaxInFlight
    <3>1. Cardinality(S') = Cardinality(S) + 1 BY <2>1, <2>6, OneMore
    <3>2. Cardinality(C') = Cardinality(C) - 1 BY <2>1, <2>6, OneLess
    <3>3. QED BY <2>2, <2>3, <3>1, <3>2
  <2>7. QED
    <3>1. \/ S' = S /\ C' \subseteq C
          \/ S' = {} /\ C' \subseteq InFlight'
          \/ \E r \in C \ S : S' = S \cup {r} /\ C' = C \ {r}
      BY CreatingStep
    <3>2. QED BY <2>4, <2>5, <2>6, <3>1
<1>4. QED BY <1>2, <1>3

-----------------------------------------------------------------------------
(* The rooms                                                               *)

\* Only makeAndChangeRoom writes CurRoom, with the room it has just made.
LEMMA SelfMadeStep == ASSUME Locked, SelfMade, RoomServerNext PROVE SelfMade'
<1> USE DEF Locked, RoomServerTypeOK, SelfMade, CurRoomSelfMade
<1>1. CASE Arrive BY <1>1 DEF Arrive, StartLogin, StartCookie
<1>2. ASSUME NEW r \in Reqs, BadBody(r) PROVE SelfMade' BY <1>2 DEF BadBody
<1>3. ASSUME NEW r \in Reqs, Login(r) PROVE SelfMade'
  BY <1>3 DEF Login, RegisterInsert, LoginFound, LoginRefused, FindSession, AnnounceWrite,
              CreateSession
<1>4. ASSUME NEW r \in Reqs, Auth(r) PROVE SelfMade'
  BY <1>4 DEF Auth, AuthRefused, AuthReads, AuthRooms
<1>5. ASSUME NEW r \in Reqs, NewRoomLock(r) \/ NewRoomId(r) PROVE SelfMade'
  BY <1>5 DEF NewRoomLock, NewRoomId
<1>6. ASSUME NEW r \in Reqs, EnterRoom(r) PROVE SelfMade' BY <1>6 DEF EnterRoom
<1>7. ASSUME NEW r \in Reqs, NotifyMade(r) PROVE SelfMade'
  BY <1>7 DEF NotifyMade, NotifyPanics
<1>8. ASSUME NEW r \in Reqs, Change(r) PROVE SelfMade'
  BY <1>8 DEF Change, GetRoom, ChangeRoom, LeaveRoom, JoinRoom, SetUserRoom, NotifyPanics
<1>9. QED
  <2> HIDE DEF SelfMade
  <2>1. QED BY <1>1, <1>2, <1>3, <1>4, <1>5, <1>6, <1>7, <1>8
            DEF RoomServerNext, Handle, PostRoom

-----------------------------------------------------------------------------
\* At the start there is no session, nothing in flight and no lock taken.
LEMMA InitRInv == RoomServerInit => RInv
<1> SUFFICES ASSUME RoomServerInit PROVE RInv OBVIOUS
<1>1. RoomServerTypeOK /\ Shape
  BY DEF RoomServerInit, RoomServerTypeOK, Shape
<1>2. RoomLockOwner BY DEF RoomServerInit, RoomLockOwner, InRoomStore, Died
<1>3. Died = {} /\ InFlight = {} /\ \A u \in Users : SessionsOf(u) = {} /\ Creating(u) = {}
  BY DEF RoomServerInit, Died, InFlight, SessionsOf, Creating
<1>4. Cardinality({}) = 0 BY FS_EmptySet
<1>5. LeaksAreDeaths BY <1>3, <1>4 DEF RoomServerInit, LeaksAreDeaths
<1>6. Duplicates BY <1>3, <1>4 DEF Duplicates
<1>7. SelfMade BY DEF RoomServerInit, SelfMade, CurRoomSelfMade
<1>8. QED BY <1>1, <1>2, <1>5, <1>6, <1>7 DEF RInv

\* Every step keeps the invariant.
LEMMA StepRInv == RInv /\ [RoomServerNext]_serverVars => RInv'
<1> SUFFICES ASSUME RInv, [RoomServerNext]_serverVars PROVE RInv' OBVIOUS
<1>1. CASE RoomServerNext
  <2>1. Locked BY DEF RInv, Locked
  <2>2. Locked'
    BY <1>1, <2>1, ArriveLocked, LoginLocked, PostLocked, ChangeLocked
    DEF RoomServerNext, Handle
  <2>3. LeaksAreDeaths' /\ Duplicates' /\ SelfMade'
    BY <1>1, <2>1, LeakStep, DuplicatesStep, SelfMadeStep DEF RInv
  <2>4. QED BY <2>2, <2>3 DEF RInv, Locked
<1>2. CASE UNCHANGED serverVars
  BY <1>2 DEF serverVars, RInv, RoomServerTypeOK, Shape, LeaksAreDeaths, RoomLockOwner,
              InRoomStore, Died, Duplicates, InFlight, SessionsOf, Creating, SelfMade,
              CurRoomSelfMade
<1>3. QED BY <1>1, <1>2

\* RInv is an invariant of the web server.
THEOREM RoomServerInvariant == RoomServerSpec => []RInv
BY InitRInv, StepRInv, PTL DEF RoomServerSpec

\* The handlers and the stores keep to their types.
THEOREM RoomServerTypes == RoomServerSpec => []RoomServerTypeOK
<1>1. RInv => RoomServerTypeOK BY DEF RInv
<1>2. QED BY <1>1, RoomServerInvariant, PTL

\* The room store's lock has one owner, alive in a critical section or dead in one.
THEOREM RoomLockExclusive == RoomServerSpec => []RoomLockOwner
<1>1. RInv => RoomLockOwner BY DEF RInv
<1>2. QED BY <1>1, RoomServerInvariant, PTL

\* The session store loses a read lock exactly when a handler dies in notifyRoom.
THEOREM LocksLostAreDeaths == RoomServerSpec => []LeaksAreDeaths
<1>1. RInv => LeaksAreDeaths BY DEF RInv
<1>2. QED BY <1>1, RoomServerInvariant, PTL

\* However many logins a user sends, they get at most as many sessions as there
\* are requests in flight at once.
THEOREM FewSessionsPerUser == RoomServerSpec => []SessionsPerUser
<1>1. RInv => SessionsPerUser
  <2> SUFFICES ASSUME RInv, NEW u \in Users
               PROVE  Cardinality(SessionsOf(u)) <= MaxInFlight
    BY DEF SessionsPerUser
  <2>1. Cardinality(SessionsOf(u)) \in Nat /\ Cardinality(Creating(u)) \in Nat
    BY ReqSets DEF SessionsOf, Creating
  <2>2. QED BY <2>1 DEF RInv, Duplicates
<1>2. QED BY <1>1, RoomServerInvariant, PTL

-----------------------------------------------------------------------------
(* Requests and their sessions                                             *)

LoginOps == {"login", "register"}
AtLogin == {"insert", "lookup", "find", "announce", "create"}
PastAuth == {"newRoom", "newId", "enter", "notify", "getRoom", "changeRoom", "leave", "join"}

\* A cookie names a session that is there, and the one a login gave is of the
\* user who logged in; past getSessionByRequest there always is a session.
OwnSession ==
  \A r \in Reqs :
    /\ cookie[r] # Nobody => sessions[cookie[r]] # Nobody
    /\ cookie[r] # Nobody /\ op[r] \in LoginOps => sessions[cookie[r]] = who[r]
    /\ pc[r] \in PastAuth => HasSession(r)

\* What these two need to be inductive.
SessionInv ==
  /\ OwnSession /\ PostOvertaken
  /\ \A r \in Reqs :
       /\ pc[r] \in AtLogin => op[r] \in LoginOps /\ who[r] \in Users
       /\ pc[r] = "notify" => curRoom[cookie[r]] # Nobody
       /\ r \in rooms => op[r] = "post"
       /\ pc[r] \in {"idle", "newRoom", "newId"} => r \notin rooms
       /\ pc[r] = "idle" => cookie[r] = Nobody

\* A browser's cookie is a session that a login was given.
LEMMA ArriveSession ==
  ASSUME Locked, SelfMade, SessionInv, Arrive PROVE SessionInv'
<1> USE DEF Locked, RoomServerTypeOK, Shape, SelfMade, SessionInv, OwnSession, PostOvertaken,
            HasSession, LoginOps, AtLogin, PastAuth
<1>1. ASSUME NEW r \in Reqs, NEW o \in {"register", "login"}, NEW u \in Users,
             StartLogin(r, o, u)
      PROVE  SessionInv'
  <2>1. pc[r] = "idle" /\ r \notin rooms /\ reply[r] = "none" BY <1>1 DEF StartLogin
  <2>2. QED BY <1>1, <2>1 DEF StartLogin
<1>2. ASSUME NEW r \in Reqs, NEW o \in {"status", "download", "post", "change"},
             NEW s \in Reqs \cup {Nobody}, NEW m \in Reqs \cup {Nobody},
             StartCookie(r, o, s, m)
      PROVE  SessionInv'
  <2>1. pc[r] = "idle" /\ r \notin rooms /\ reply[r] = "none" BY <1>2 DEF StartCookie
  <2>2. s # Nobody => sessions[s] # Nobody BY <1>2 DEF StartCookie, Given
  <2>3. QED BY <1>2, <2>1, <2>2 DEF StartCookie
<1>3. QED
  <2> HIDE DEF SessionInv
  <2>1. PICK r \in Reqs :
          \/ \E o \in {"register", "login"}, u \in Users : StartLogin(r, o, u)
          \/ \E o \in {"status", "download", "post", "change"}, s \in Reqs \cup {Nobody} :
               \E m \in IF o = "change" THEN Reqs ELSE {Nobody} : StartCookie(r, o, s, m)
    BY DEF Arrive
  <2>2. QED BY <1>1, <1>2, <2>1

\* Login gives the session it found, or the one it creates, of its own user.
LEMMA LoginSession ==
  ASSUME Locked, SelfMade, SessionInv, NEW r \in Reqs, BadBody(r) \/ Login(r) \/ Auth(r)
  PROVE  SessionInv'
<1> USE DEF Locked, RoomServerTypeOK, Shape, SelfMade, SessionInv, OwnSession, PostOvertaken,
            HasSession, LoginOps, AtLogin, PastAuth
<1>1. CASE BadBody(r) BY <1>1 DEF BadBody
<1>2. CASE RegisterInsert(r) BY <1>2 DEF RegisterInsert
<1>3. CASE LoginFound(r) BY <1>3 DEF LoginFound
<1>4. CASE LoginRefused(r) BY <1>4 DEF LoginRefused
<1>5. CASE FindSession(r) BY <1>5 DEF FindSession
<1>6. CASE AnnounceWrite(r) BY <1>6 DEF AnnounceWrite
<1>7. CASE CreateSession(r) BY <1>7 DEF CreateSession
<1>8. CASE AuthRefused(r) BY <1>8 DEF AuthRefused
<1>9. CASE AuthReads(r) BY <1>9 DEF AuthReads
<1>10. CASE AuthRooms(r) BY <1>10 DEF AuthRooms
<1>11. QED
  BY <1>1, <1>2, <1>3, <1>4, <1>5, <1>6, <1>7, <1>8, <1>9, <1>10 DEF Login, Auth

\* The session that made the room is in it when notifyRoom looks, unless another
\* room of its own has taken it; in the first case the handler dies.
LEMMA PostSession ==
  ASSUME Locked, SelfMade, SessionInv, NEW r \in Reqs, PostRoom(r) PROVE SessionInv'
<1> USE DEF Locked, RoomServerTypeOK, Shape, SelfMade, CurRoomSelfMade, SessionInv, OwnSession,
            PostOvertaken, HasSession, LoginOps, AtLogin, PastAuth
<1>1. CASE NewRoomLock(r) BY <1>1 DEF NewRoomLock
<1>2. CASE NewRoomId(r) BY <1>2 DEF NewRoomId
<1>3. CASE EnterRoom(r) BY <1>3 DEF EnterRoom
<1>4. CASE NotifyMade(r) /\ NotifyPanics(r, "notify", r) BY <1>4 DEF NotifyMade, NotifyPanics
<1>5. CASE NotifyMade(r) /\ Notified(r) /\ Finish(r, "notify", "200")
  <2>1. cookie[r] \in Reqs /\ sessions[cookie[r]] # Nobody /\ curRoom[cookie[r]] # Nobody
    BY <1>5
  <2>2. curRoom[cookie[r]] # r BY <1>5, <2>1 DEF Notified, Occupied
  <2>3. PICK q \in Reqs \ {r} : q \in rooms /\ cookie[q] = cookie[r]
    BY <2>1, <2>2
  <2>4. op[q] = "post" BY <2>3
  <2>5. QED BY <1>5, <2>3, <2>4 DEF NotifyMade
<1>6. QED BY <1>1, <1>2, <1>3, <1>4, <1>5 DEF PostRoom, NotifyMade

\* changeroom makes no room and moves no session.
LEMMA ChangeSession ==
  ASSUME Locked, SelfMade, SessionInv, NEW r \in Reqs, Change(r) PROVE SessionInv'
<1> USE DEF Locked, RoomServerTypeOK, Shape, SelfMade, SessionInv, OwnSession, PostOvertaken,
            HasSession, LoginOps, AtLogin, PastAuth
<1>1. CASE GetRoom(r) BY <1>1 DEF GetRoom
<1>2. CASE ChangeRoom(r) BY <1>2 DEF ChangeRoom
<1>3. CASE LeaveRoom(r) BY <1>3 DEF LeaveRoom, SetUserRoom, NotifyPanics
<1>4. CASE JoinRoom(r) BY <1>4 DEF JoinRoom, SetUserRoom, NotifyPanics
<1>5. QED BY <1>1, <1>2, <1>3, <1>4 DEF Change

\* SessionInv is an invariant of the web server.
LEMMA SessionInvariant == RoomServerSpec => []SessionInv
<1>1. RoomServerInit => SessionInv
  BY DEF RoomServerInit, SessionInv, OwnSession, PostOvertaken, AtLogin, PastAuth
<1>2. RInv /\ SessionInv /\ [RoomServerNext]_serverVars => SessionInv'
  <2> SUFFICES ASSUME RInv, SessionInv, [RoomServerNext]_serverVars PROVE SessionInv'
    OBVIOUS
  <2>1. Locked /\ SelfMade BY DEF RInv, Locked
  <2>2. CASE RoomServerNext
    BY <2>1, <2>2, ArriveSession, LoginSession, PostSession, ChangeSession
    DEF RoomServerNext, Handle
  <2>3. CASE UNCHANGED serverVars
    BY <2>3 DEF serverVars, SessionInv, OwnSession, PostOvertaken, HasSession
  <2>4. QED BY <2>2, <2>3
<1>3. QED BY <1>1, <1>2, RoomServerInvariant, PTL DEF RoomServerSpec

\* Whoever has a cookie has a session, a login's is its user's own, and no
\* handler that goes past getSessionByRequest works without one.
THEOREM SessionsAreOwn == RoomServerSpec => []OwnSession
<1>1. SessionInv => OwnSession BY DEF SessionInv
<1>2. QED BY <1>1, SessionInvariant, PTL

\* A room is made without costing its handler the session store's lock only when
\* the same session makes another room meanwhile.
THEOREM RoomsCostALock == RoomServerSpec => []PostOvertaken
<1>1. SessionInv => PostOvertaken BY DEF SessionInv
<1>2. QED BY <1>1, SessionInvariant, PTL

-----------------------------------------------------------------------------
(* The order of the two locks                                              *)

\* ss.Lock() is asked for by the one request that is about to create.
PendingCreates == \A r \in Reqs : ssPending = r <=> pc[r] = "create"

LEMMA PendingStep ==
  ASSUME RoomServerTypeOK, PendingCreates, RoomServerNext PROVE PendingCreates'
<1> USE DEF RoomServerTypeOK, PendingCreates
<1>1. CASE Arrive BY <1>1 DEF Arrive, StartLogin, StartCookie
<1>2. ASSUME NEW r \in Reqs,
             \/ BadBody(r) \/ RegisterInsert(r) \/ LoginFound(r) \/ LoginRefused(r)
             \/ FindSession(r) \/ Auth(r)
      PROVE  PendingCreates'
  BY <1>2 DEF BadBody, RegisterInsert, LoginFound, LoginRefused, FindSession, Auth,
              AuthRefused, AuthReads, AuthRooms
<1>3. ASSUME NEW r \in Reqs, AnnounceWrite(r) \/ CreateSession(r) PROVE PendingCreates'
  BY <1>3 DEF AnnounceWrite, CreateSession
<1>4. ASSUME NEW r \in Reqs, PostRoom(r) \/ Change(r) PROVE PendingCreates'
  BY <1>4 DEF PostRoom, NewRoomLock, NewRoomId, EnterRoom, NotifyMade, Notified,
              NotifyPanics, Change, GetRoom, ChangeRoom, LeaveRoom, JoinRoom
<1>5. QED
  <2> HIDE DEF PendingCreates
  <2>1. QED BY <1>1, <1>2, <1>3, <1>4 DEF RoomServerNext, Handle, Login

\* The handlers never wait for each other in a circle, for any number of
\* requests: what RequestsAnswered rests on besides fairness.
THEOREM LocksAreOrdered == RoomServerSpec => []LocksInOrder
<1>1. RoomServerInit => PendingCreates
  BY DEF RoomServerInit, PendingCreates
<1>2. RInv /\ PendingCreates /\ [RoomServerNext]_serverVars => PendingCreates'
  <2> SUFFICES ASSUME RInv, PendingCreates, [RoomServerNext]_serverVars
               PROVE  PendingCreates'
    OBVIOUS
  <2>1. CASE RoomServerNext BY <2>1, PendingStep DEF RInv
  <2>2. CASE UNCHANGED serverVars BY <2>2 DEF serverVars, PendingCreates
  <2>3. QED BY <2>1, <2>2
<1>3. RInv /\ PendingCreates => LocksInOrder
  <2> SUFFICES ASSUME RInv, PendingCreates, NEW r \in Reqs, NEW q \in WaitsFor(r)
               PROVE  q \in Reqs /\ (Depth(q) < Depth(r) \/ q \in Died)
    BY DEF LocksInOrder
  <2> USE DEF AtSessionStore, AtRoomStore, Depth
  <2>1. CASE pc[r] \in AtSessionStore
    <3>1. q = ssPending /\ q \in Reqs BY <2>1 DEF WaitsFor, RInv, RoomServerTypeOK
    <3>2. pc[q] = "create" BY <3>1 DEF PendingCreates
    <3>3. QED BY <2>1, <3>1, <3>2
  <2>2. CASE pc[r] \in AtRoomStore
    <3>1. q = rsHolder /\ q \in Reqs BY <2>2 DEF WaitsFor, RInv, RoomServerTypeOK
    <3>2. pc[q] \in {"newId", "leave", "join"} \/ q \in Died
      BY <3>1 DEF RInv, RoomLockOwner, InRoomStore
    <3>3. QED BY <2>2, <3>1, <3>2
  <2>3. CASE pc[r] = "create" /\ ssReaders > 0
    <3>1. q \in Died BY <2>3 DEF WaitsFor
    <3>2. QED BY <3>1 DEF Died
  <2>4. QED BY <2>1, <2>2, <2>3 DEF WaitsFor
<1>4. QED BY <1>1, <1>2, <1>3, RoomServerInvariant, PTL DEF RoomServerSpec

-----------------------------------------------------------------------------
(* The session store that is shut                                          *)

\* The store is shut with request w in ss.Lock(), and r needs it; S are the
\* sessions it holds.
Outage(w, r, at, S) ==
  /\ Shut /\ ssPending = w /\ sessions = S
  /\ pc[r] = at /\ at \in AtSessionStore \cup {"create"}

\* A step of another request leaves r where it is and the store shut.
LEMMA OutageStep ==
  ASSUME RoomServerTypeOK, RoomServerNext, NEW w, NEW r \in Reqs, NEW at, NEW S,
         Outage(w, r, at, S)
  PROVE  Outage(w, r, at, S)'
<1> USE DEF RoomServerTypeOK, Outage, Shut, AtSessionStore
<1>1. CASE Arrive BY <1>1 DEF Arrive, StartLogin, StartCookie
<1>2. ASSUME NEW q \in Reqs, BadBody(q) \/ Login(q) \/ Auth(q)
      PROVE  Outage(w, r, at, S)'
  BY <1>2 DEF BadBody, Login, RegisterInsert, LoginFound, LoginRefused, FindSession,
              AnnounceWrite, CreateSession, Auth, AuthRefused, AuthReads, AuthRooms, CanRead
<1>3. ASSUME NEW q \in Reqs, PostRoom(q) \/ Change(q)
      PROVE  Outage(w, r, at, S)'
  BY <1>3 DEF PostRoom, NewRoomLock, NewRoomId, EnterRoom, NotifyMade, NotifyPanics,
              Notified, Change, GetRoom, ChangeRoom, LeaveRoom, JoinRoom, CanRead
<1>4. QED
  <2> HIDE DEF Outage
  <2>1. QED BY <1>1, <1>2, <1>3 DEF RoomServerNext, Handle

\* A session store that is shut stays so, for any requests: the login in ss.Lock()
\* never gets it, no session is added, and whoever needs the store never goes on.
\* UserConn's shut, which nothing clears, rests on this.
THEOREM ShutForGood ==
  ASSUME NEW w, NEW r \in Reqs, NEW at, NEW S
  PROVE  RoomServerSpec => [](Outage(w, r, at, S) => []Outage(w, r, at, S))
<1>1. RoomServerTypeOK /\ Outage(w, r, at, S) /\ [RoomServerNext]_serverVars
        => Outage(w, r, at, S)'
  <2> SUFFICES ASSUME RoomServerTypeOK, Outage(w, r, at, S), [RoomServerNext]_serverVars
               PROVE  Outage(w, r, at, S)'
    OBVIOUS
  <2>1. CASE RoomServerNext BY <2>1, OutageStep
  <2>2. CASE UNCHANGED serverVars BY <2>2 DEF serverVars, Outage, Shut
  <2>3. QED BY <2>1, <2>2
<1>2. QED BY <1>1, RoomServerTypes, PTL DEF RoomServerSpec
=============================================================================
