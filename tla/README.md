# xbtunnel: specifications and proofs

xbtunnel tunnels the system-link traffic of game consoles between home networks. A **daemon**
on each player's network captures the console's packets, keeps a connection to a central
**server**, and is meant to exchange the packets with the daemons of the other players in the
same *room*, directly, over UDP. The server keeps accounts, sessions and rooms, and relays the
signals with which two daemons set up their connection.

The repository is a Go program in the middle of a refactoring; its own README says that it "is
currently not functional". Some lines do not compile, and some paths cannot be reached. The
specifications follow the code as it is written. Where a line has no meaning as written, the
reading used is in the table "Readings".

## Inventory

| component | files | state | operations |
|---|---|---|---|
| StateManager | `daemon/daemon.go` 143-268 | `peerConnMap`, `xboxPeerMap`, `localState`, all local to its goroutine; channels `kill`, `dead` | one `select` over a new local state, a signal, a captured packet, a peer connection made or gone, a console seen, `kill`; an update on `serverChan` after every case but the signal |
| LocalManager | `daemon/local.go` | `handles`, `xboxHandleMap`, channels `out`, `xboxes`, `kill`, `dead`, `killChildren` | inject a packet, register a console and announce it, be killed; one `runpcap` goroutine per handle |
| Client | `daemon/client.go` | `addr`, `kill`, `out`, a TCP connection, a ping ticker | `newClient`, `run`, a goroutine that sends the token, a goroutine that decodes |
| main and reconnect loop | `daemon/daemon.go` 34-141 | the global channels and managers, the global `client`, `kill`, `dead`, `deadcount` | reconnect every 5 s; on the interrupt, kill the loop, both managers and the client, then wait for three deaths |
| peer connections | `daemon/remote.go` | `PeerConn` (`sideband`, `udpConn`, `out`, `kill`, `dead`), `ShimConn` | dial, receive, `run` with its reader, `resolvePeerConns` |
| packet framing | `daemon/udp.go` | none | parse and build tunnel packets, build Ethernet/IP/UDP packets with checksums |
| HTTP handlers | `server/server.go` 57-188, `server/api.go` | none of their own | register, login, download, rooms (GET, POST), status, changeroom, version |
| session store | `server/memorysessionstore.go` | `ss.s` under a read-write lock; per session a lock, `LocalState`, `encoder` | create, find by id, token, peer, cookie |
| room store | `server/memoryroomstore.go` | `rooms`, `userRoomMap` under a read-write lock; `roomIdGen` | new room, get room, change a user's room, notify a room |
| TCP connections | `server/server.go` 194-292 | per connection `s`, `encoder`, `deadc`, a ticker | authenticate by token, relay signals, ping |
| messages | `common/` | none | `ServerReq`, `ServerResp`, `LocalState`, `PcSignal`, `Xbox` |
| front-end | `server/_web/js` | `loggedIn`, `rooms` in the page | the requests above |
| vendored code | `server/_web/lib`, `server/webapp` | | |

**How they interact.** Inside the daemon everything is a message on one of the buffered
channels that `init` makes:

```
 Client decode goroutine --localStateChan--> StateManager --serverChan--> (nobody)
                         --pcSignalChan----> StateManager
 Client token goroutine  -------------------------------- serverChan--> (nobody)
 runpcap --lm.xboxes--> LocalManager --newXboxChan--> StateManager
 runpcap --remoteChan--------------------------------> StateManager
 main --kill--> reconnect loop, StateManager, LocalManager, Client    (and <--dead--)
 LocalManager --killChildren--> every runpcap
```

`serverChan`, `localChan`, `lm.out` and `client.out` were meant to be joined (the TODO at
`daemon.go:139-140`); nothing joins them. Nor does anything call `PeerConn.run`, or dial a first
peer: the inner test of `resolvePeerConns` (`remote.go:157`) dials those that are in the table
already, under the comment "Dial to new peers or receive from new peers". On the server every request and every connection is a
goroutine over the two stores, which are guarded by their locks, except the fields of a session,
which are read and written without one.

**What is hard here.** (1) Channels of fixed size with a missing reader: the pressure runs
backwards through the daemon and ends in goroutines that cannot be killed. (2) Kill and dead
channels that are sent to, received from and closed by different goroutines, with an interrupt
that may come at any moment of a reconnection. (3) A state manager that, in the middle of an event,
waits for peers, on channels whose other end may be gone, never have been there, or be itself.
(4) A read buffer that packets in two queues share. (5) A read-write lock whose release is not
deferred, around a call that panics. (6) Checks and updates in separate critical sections, and a
session's encoder that three goroutines use under no lock that excludes them.
`PROJECT.json` lists each of these at its line ("hazards").

**What makes each component correct.** *StateManager*: one update per event that calls for one,
no sighting lost, and it stops when killed. *LocalManager*: a console stays on the handle that
saw it first, every capture goroutine gets its kill token, and it stops when killed. *Client*:
one connection at a time, a read error ends `run`, an error never ends the process. *main*:
it counts deaths exactly, and returns when, and only when, all three goroutines are dead.
*Peer connections*: the table has the peers that are connected, and killing the manager ends
them all. *Framing*: the frame that is injected is the one that was captured, with lengths and
checksums a receiver accepts. *TCP connections*: a connected daemon gets the signals for its
session, and one that is gone is noticed.
*Sessions and rooms*: one session per user but for overlapping logins, locks always given back,
the two records of a user's room in step, every request answered. Where the code falls short of
these, the property says exactly how far it does hold, and by which path it fails.

## Modules

| module | models | checked by | proved in |
|---|---|---|---|
| `Pipeline` | `StateManager.run`, `LocalManager.run`, `runpcap` and the channels between them | `MCPipeline` | `PipelineProofs` |
| `BoundedPipe`, `Worker` | abstract: what a chain of channels, and a goroutine that main kills, promise | `MCPipeline` (as properties) | `PipelineProofs`, `DaemonProofs` |
| `Client` | the reconnect loop, `newClient`, `Client.run` and its goroutines, main's kill of the two | `MCClient` | `ClientProofs` |
| `Daemon` | `Client` and `Pipeline` joined at the channels they share, main's shutdown | `MCDaemon` | `DaemonProofs` |
| `Shutdown` | abstract: kill the workers in order, return over their deaths | `MCDaemon` (as a property) | `DaemonProofs` |
| `Peers` | `remote.go`, and the cases of `StateManager.run` over `peerConnMap` | `MCPeers` | `PeersProofs` |
| `UdpFraming` | `udp.go`: the trailer, the rebuilt frame, its lengths and checksums | `MCTunnel` | `FramingProofs` |
| `Tunnel` | a packet's way from one daemon into the other's network, with the shared read buffer | `MCTunnel` | `TunnelProofs` |
| `RoomServer` | the HTTP handlers over the session and room stores | `MCRoomServer` | `RoomServerProofs` |
| `UserConn` | `handleUserConn`, its reader and ticker, the routing of signals | `MCUserConn` | `UserConnProofs` |

Three modules take in a caller that the repository has not got. `Tunnel` takes the peer
connection as run and the packets as copied from `localChan` to `lm.out`; `Peers` has the
constant `Callers` and `UserConn` the constant `Lookups`. With the constant `FALSE` the module
is the program as it stands: the table of peers stays empty (the theorem `NobodyDialled`, on
which `Pipeline` rests), and every token crashes the server, so that no session ever has an
encoder (`TokenTaken` is disabled, and nothing else sets one), which `RoomServer` relies on. With
`TRUE`, which is what the runs check, somebody calls what is there to be called, and everything
he calls is as written.

### Pipeline

A channel whose content no property tells apart is the number of its messages; `lm.xboxes` is a
sequence, because its order decides which handle keeps a console. `smPc`, `lmPc` and `capPc[h]`
are the places where the three kinds of goroutine wait: at the `select`, or at a send that may
block. Every case of a `select` is an action; the send that follows it is another, because the
goroutine can be held there. `default` cases are enabled only when no other case is.

| in the module | in the code |
|---|---|
| `SmState`, `SmSignal`, `SmPacket`, `SmXbox`, `SmDie` | the cases of `StateManager.run` |
| `SmUpdate` | `serverChan <- ServerReq{...}` |
| `LmRegister`, `LmAnnounce` | `case xh := <-lm.xboxes`, then `newXboxChan <- xh.x` |
| `LmKilled`, `LmKillChild`, `LmDie` | `case <-lm.kill` and the deferred function |
| `CapExit`, `CapPoll`, `CapTimeout`, `CapPacket`, `CapRegister`, `CapForward` | `runpcap`: its select, `pcap.Next()`, its two sends |
| `PutState`, `PutSignal`, `PutToken`, `KillSm`, `KillLm` | what the client and main put on the channels |

`bcastHandle` is the whole of `xboxHandleMap`: `runpcap` registers `packet.Dst`, and only when
that is the broadcast address, so there is no other key. `peerConnMap` is left out because it
stays empty: `localState.Peers` is never assigned, and `resolvePeerConns` dials only peers that
are in the map already (`remote.go:157`), so nothing is ever sent on `newPeerConnChan`
(`NobodyDialled`, in `PeersProofs`).

Two abstract specifications say what the module promises, and `Pipeline` implements both.
`BoundedPipe` counts what goes into a chain and what comes out: the way of a sighting from
`runpcap` to `localState.Xboxes` is such a pipe, as deep as its two channels and the one place in
`LocalManager.run`'s hands (`SightingsArePiped`, which maps `registered` to `put` and `xboxes`
to `taken`). `Worker` is a goroutine that can be killed and waited for: it dies only when told,
reports that once, and does nothing after it. Both managers are workers (`ManagersAreWorkers`): told
is a kill that is in the channel or has been taken, alive is `smPc` or `lmPc` not being `"dead"`,
and the reports are what is on the `dead` channel.

### Client

Clients are numbered as `newClient` makes them, and everything a client owns is a function of
that number: a goroutine of a client that is gone may still be running, and that is where the
races are. `loopPc` is the reconnect loop together with the `Client.run` it calls; `rdr[c]` and
`auth[c]` are the decode and token goroutines. `kill[c]` holds the one-place kill channel:
empty, the reader's error, main's, or closed; a send waits on a full channel and panics on a
closed one. `panic` is a panic that nobody recovers; it ends the process, so no action follows.
`out` belongs to the current client only, since nothing but `run` itself uses it.

### Daemon

`Daemon` extends both. A delivery by a client's goroutine is one step of both modules
(`AuthToken /\ PutToken`), and blocks when the channel is full; every other step is a step of
one side that leaves the other alone. main's `kill <- 1`, `stateManager.kill <- 1`,
`localManager.kill <- 1`, the read of `client`, the send on `client.kill` and each turn of its
final loop are separate steps, in order. After a panic or main's return nothing runs
(`Running`).

Seen from outside the shutdown is that of the abstract module `Shutdown`: three workers are
killed one after the other, none dies before its kill, and main returns last, over three deaths
(`ShutdownIsOrderly`, which maps `killed` to how many of main's first three sends were made and
`dead` to those of `loopPc`, `smPc` and `lmPc` that are `"dead"`). `deadcount` and the three
`dead` channels are what the abstract module hides; it has nothing about crashes either, which
stop a behaviour where it is.

### Peers

Connections are numbered in the order they are made, and everything a connection owns is a
function of that number, for several may be of one peer. `table` is `peerConnMap`; `nat[c]` is
the traversal, a library between whose calls of `ShimConn` anything may happen; `run[c]`,
`rdr[c]` and `shim[c]` are `PeerConn.run`, its reader and its sideband.

| in the module | in the code |
|---|---|
| `Dial`, `Traversal` | `_dialPeerConnection`: `newPeerConnChan <- pc`, the traversal, `removePeerChan <- pc.peerId` |
| `RunSends`, `RunKilled`, `RunLeaves` and what follows it | `PeerConn.run` and its deferred function, which waits for the sideband |
| `RdrReads`, `RdrReports` | the reader: a read that fails, the send on `pc.kill` |
| `TakesState`, `TakesSignal`, `TakesPacket`, `TakesNew`, `TakesRemove`, `TakesKill` | the cases of `StateManager.run` |
| `Drains`, `Redials`, `SmKills`, `Sends`, `HandsOver`, `Reaps`, `NextLoop` | its loops over the table, one turn at a time, and `resolvePeerConns` |

A case of the select enters a loop, and the loop takes the peers in any order, as Go's `range`
over a map does; each turn may block. `serverChan` always has room here: `Pipeline` is about what
happens when it has none. `early` and `exit` are history, which the properties use to say why.

### Tunnel and UdpFraming

`UdpFraming` has `udp.go` as operators on sequences of bytes: the trailer that carries the two
addresses, the parsing of a datagram, the frame built for injection, its lengths modulo 2^16, and
`oneAdd` as a fold whose result is folded until no carry is left. A datagram shorter than the
trailer (`Strays`) parses as the zero packet.

In `Tunnel` one daemon writes captured packets (`sent`), the network delivers any of them in any
order, again and again or never, and the other's reader has one buffer (`data`) for all. `Read` is
two steps, since it copies while other goroutines run. A packet in `localChan` or `lmOut` has its
addresses copied, but its payload is a piece of the buffer (`Ref`): what is injected is what the
buffer holds at that time. `LocalManager.run` injects only what `xboxHandleMap` has a handle for,
and that has no key but the broadcast address (`known`), so a packet for one console is dropped.

### RoomServer

A request is a goroutine with a program counter (`pc`), which stops where the handler takes a
lock, waits, or touches the database. Sessions and rooms are named after the request that made
them. The locks are `ssReaders` (read locks never given back), `ssPending` (the writer that has
announced itself, which keeps new readers out, as `sync.RWMutex` does) and `rsHolder`. A read
under `ss.RLock()` is one step, for nobody can write during it; a section of `rms.Lock()` that
can end in a panic is several.

`net/http` recovers a handler's panic. `reply = "died"` is a panic inside `notifyRoom`: there
the encoder of a session is nil. `handleUserConn` is to set it, but a connection that sends a
token ends the process first: `getSessionByToken` passes a nil `*User` to the query and
dereferences it, or finds no session and `server.go:249` dereferences that. So in every state
this server can be in, the encoders are nil.

`Shut` is the state in which the session store is lost: a login waits in `ss.Lock()` behind a
read lock that a dead handler kept. `ShutForGood` says that it is never left, by the store or
by anyone who needs it.

`KnownUsers` is a constant, because no code writes the collection that `login` reads:
`register` inserts into `Users`, `login` looks in `xbtusers`, which `init_mgo` drops. With
`KnownUsers = {}` nobody ever logs in. The runs give it members, as when documents are put there
by hand, so that the rest of the server can be checked.

### UserConn

`main[c]` and `reader[c]` are `handleUserConn` and the goroutine it starts; `sess[c]` is the
variable `s` they share, `encoder[s]` the connection whose encoder a session has. Taking a token
(`TokenTaken`) and taking a signal are separate requests of a daemon. Routing a signal is three steps:
the check for nil, the use, and the write, which lasts as long as the addressee's socket is
full. The ticker's write is another user of the same encoder. The deferred function (`Ends`) sets
the encoder of the last session to nil, whoever set it. No code closes the connection, so a
daemon that has gone is noticed only by the read deadline or by a failed read.

Both `getSessionByToken` and the routing take `ss.RLock()`. `StoreShuts` is the web half
bringing the store into the state `Shut` of `RoomServer`, at any moment; from then on a request
that needs the store leaves its reader `"locked out"` (`LocksOut`). Before that the lock is
there for whoever asks, and since a wait that ends only makes the request a later one, it is no
step of its own.

A gob encoder has a lock of its own, so two writes to a connection exclude each other. Nothing
takes a session's lock for writing, so the read lock around the check excludes nobody.

## Readings

| line | as written | modelled as |
|---|---|---|
| `local.go:74-78`, `:99`, `:113` | `xboxHandle` against `XboxHandle{packet.Dst, handle}` | one type |
| `daemon.go:83` | `err :=` shadows `err` | the error is logged, nothing else |
| `daemon.go:49`, `client.go:54` | `token` in `main` hides the one `client.go` uses | the token has no content |
| `daemon.go:195-204`, `client.go:72-98`, `server.go:230`, `:269` | fields that `common/` has lost: `CurRoomId`, `Peers`, `Xboxes` of `LocalState`; `LocalState` of `ServerReq`; `Error` of `ServerResp` | the fields exist; nothing assigns `Peers`; a response may carry an error |
| `api.go:115-123`, `:132`, `memorysessionstore.go:25` | `Session.LocalState` is commented out; `CurRoom` is in no type | `LocalState.CurRoom` exists, nil at first |
| `memoryroomstore.go:61` | `remove(rs.userRoomMap, pid)` | `delete` |
| `memoryroomstore.go:67-70` | `rid`, a `*Room`, is passed as a peer id and as a room id | the user is removed, and the room it was in is notified |
| `memoryroomstore.go:79` | `s.Unlock()` | `rs.Unlock()` |
| `memoryroomstore.go:87` | `makeLocalState()` is not defined | some message |
| `memorysessionstore.go:42-51`, `server.go:249` | `getSessionByToken` fills a nil `*User` and reads its fields | every token ends the process, unless `Lookups`; then a token may also find a session |
| `server.go:245-265` | one `ServerReq` with a token and a signal | one after the other, as the daemon would send them |
| `daemon.go:198`, `remote.go:144` | `resolvePeerConns` gets `localState.Peers`, which is nil | nil, or with `Callers` some list of peers |
| `server.go:174` | `s.UserId`, which `createSession` does not set | the empty peer id |

## Properties and runs

Each run uses two workers and finishes within about three minutes.

| run | instance | properties |
|---|---|---|
| `pipeline` | two handles; `serverChan` of 2, the others of 1; 4 packets, 1 message of the client | `TypeOK`, `XboxConservation`, `UpdateAccounting`, `LifetimeBound`, `KillTokenAccounting`, `FirstHandleWins`, `ManagersObeyKill`, `CapturesQuiesce`, `SightingsArePiped`, `ManagersAreWorkers` |
| `client` | 3 clients, `client.out` of 1 | `ClientTypeOK`, `OneConnection`, `ReaderPanicsOnlyIfRunLeftFirst`, `OneLastClient`, `ReadErrorEndsRun`, `EncodeErrorIsFatal` |
| `client_reader_panic` | 2 clients | `NoReaderPanic` (violated) |
| `client_interrupt_lost` | 3 clients | `InterruptStopsLoop` (violated) |
| `daemon_shutdown_reconnect` | 2 clients, 1 handle, no traffic | `DeadcountExact`, `ShutdownIsOrderly`, `ShutdownEndsOrIsStuck` |
| `daemon_shutdown_full` | 1 client, 1 handle, 2 packets, 1 delivery, all channels of 1 | `HangIsNamed` |
| `peers` | 1 peer, 2 connections, all channels of 1, `Callers` | `PeersTypeOK`, `DeadOnlyUnconnected`, `PeerReaderPanicCause`, `FailedEntryCause`, `OrphanCause`, `PeersShutDownOrHang` |
| `tunnel` | 5 packets, 2 stray datagrams, 4 reads, a buffer of 15 bytes, both queues of 1 | `FrameFaithful`, `LengthsExact`, `ChecksumsVerify` |
| `rooms_safety` | 4 requests, 2 at a time, 2 users | `RoomServerTypeOK`, `SessionsPerUser`, `LeaksAreDeaths`, `PostOvertaken`, `LocksInOrder` |
| `rooms_live` | 3 requests, 2 at a time, 1 room id | `RequestsAnswered` |
| `rooms_user_added` | 3 requests, 2 at a time | `UserAddedToRoom` (violated) |
| `user_conns` | 2 connections, 2 sessions, `Lookups` | `UserConnTypeOK`, `EncoderOwner`, `UnreachableCause`, `NilEncoderCause`, `GoneIsNoticed` |

Deadlock is not checked: a behaviour really ends, when the process has panicked or returned, all
requests are done, or everyone is blocked on a channel; the liveness properties say which of
these may happen.

**What they show.** *Pipeline.* `FirstHandleWins`: a console that several handles see stays with
the one whose sighting was queued first. However the goroutines interleave and whenever they are killed,
`registered = in lm.xboxes + being announced + in newXboxChan + in localState.Xboxes`: no
sighting is lost or doubled. `LifetimeBound` is the daemon's central defect as a number:
nothing receives from `serverChan`, so the state manager handles `cap(serverChan) + 1` events,
11 in the code, and never moves again. `ManagersObeyKill` and `CapturesQuiesce`
then say of each goroutine that it stops when told to *unless* it is in one of the blocked
states named by `SmStuck`, `LmStuck` and `CapStuck`; there is no other way to hang. Each of these
names a channel that is full and whose receiver is gone or stuck itself, never one that merely
is full at the moment, and it is proved that none is ever left (`StuckManagersStay`,
`StoppedCapturesStay`).
`SightingsArePiped` and `ManagersAreWorkers` are the two refinements.

*Client.* `OneConnection` holds over every reconnection. The decode goroutine may panic on the
closed kill channel, but only if `run` left before it, on an encode error or on the interrupt;
after an encode error it does so unless it is held up for good, delivering to a channel that
stays full (`EncodeErrorIsFatal`).
A read error ends `run`, unless `run` is stuck sending itself a ping.

*Daemon.* The shutdown is orderly, from main's first kill to its return. main's wait ends, or the
process crashed, or it hangs in one of four named ways: the loop goes on for ever with a client
that replaced the one the kill went to (`[]LostKill`), `run` is stuck on its ping, or one of the
managers is stuck. The last three (`Hung`) are for good: main never returns (`HangIsFinal`).
`HangIsNamed` is about where such a shutdown comes to rest, with both managers killed in the
middle of traffic: whenever nothing can move that main's wait depends on, the deaths it still
counts are exactly those of the goroutines stuck in the named ways. So main has reaped
everybody else, whichever died first, and there is no deadlock among the two managers, the
capture goroutines, the loop and main that the names do not cover; in the run the state manager
sticks with the local manager behind it, or dies first and leaves it stuck on `newXboxChan`.

*Peers.* A peer connection that worked never reports its death (`DeadOnlyUnconnected`): its
clean-up hands a kill to `ShimConn.Read`, in which nobody is once the traversal is over. The
table and the connections drift apart, and the two `Cause` properties say by which path and by
no other: an entry of a failed connection stays because the select took its removal before its
addition, and a connection is lost because a later one for the same peer was added, or failed.
The reader brings the daemon down only when `run` left first. And a killed state manager dies,
or the daemon crashes, or it hangs for good in one of six places (`SmHung`): on a kill it
receives where it means to send (`remote.go:149`), on the channel that it alone drains, on
a sideband nobody reads, on the queue or the kill channel of a connection nobody runs, or on the
clean-up above. One that takes its kill while a connection in its table works never dies at
all (`ConnectedNeverShutsDown`).

*Tunnel.* A packet that waits in `localChan` or `lm.out` is a piece of the buffer the reader
goes on to read into, so its payload may be another's by the time it is injected.
`FrameFaithful` says exactly when: the addresses and the length are always those of what was
captured, and the payload is too unless a later `Read` had begun (`overtaken`). Even a frame
with the wrong payload has exact lengths and checksums that verify, so no receiver can tell.

*RoomServer.* A user has several sessions only if logins overlap, and then at most as many as
overlapped. Every read lock that the session store has lost belongs to a handler that died in
`notifyRoom`. A new room notifies its maker, so the first `POST /api/rooms` that gets that far is
already such a death, unless its session enters another room meanwhile (`PostOvertaken`). The
two locks are taken in one order, and only the dead hold one for nothing (`LocksInOrder`), so
`RequestsAnswered` has just the two ways out it names. `changeroom` files the empty peer id, and
not its user, in `userRoomMap` (`UserAddedToRoom`, violated).

*UserConn.* `EncoderOwner`: a session's encoder is of a live connection, but for one that changed
its session. A daemon that reconnects loses its encoder when the server comes to clean up its
*old* connection, and gets no signal from then on; `UnreachableCause` says that this is the only
way to be unreachable, and `NilEncoderCause` that the same clean-up, between the check of an
encoder and its use, is the only way in which routing ends the server. `GoneIsNoticed`: a daemon that
is gone is cleaned up unless the server crashed, or its reader is held up for good: in a write to
another daemon that does not read, or locked out of a session store that the web half has shut.

**The bounds, and why they are enough.** The capacities are small so that every channel fills
within the bounded traffic: with `serverChan` of 2, three events make the state manager stick,
and four packets and one message leave enough to fill each channel behind it. Two handles are
the least with which they compete for tokens and for a console. `KillLoop` needs
`created < MaxClients`, so that the client the loop may already be making still fits; without
it the bound, not the code, would stop the loop. `MaxAtKill` says so: no more clients than that
when main's kill still comes. Three clients give one that is gone, one that
is current and one that comes after the interrupt. In
`daemon_shutdown_full` two packets are what fills `newXboxChan` while the state manager is busy
with a delivery, and the one client may be made before or after the kill; the local manager stuck
on `newXboxChan`, the state manager stuck, both, the ping stuck, and main held up before its last
send were all seen to occur. Its clean-up stuck on `killChildren` takes two handles and is met in
`pipeline`; `HangIsFinal` is about all of them. `MaxInFlight = 2` is the least at which
handlers interleave; four requests are the least with which a user leaves one room for another
(login, a room, two changes). In `peers` one peer with two connections is what a redial and
every race over one entry need; the loops over several peers meet only in the order of their
turns, and the invariants were found to hold also with two peers (4.5 million states, without
the liveness property). Once `MaxConns` are made a redial cannot go on, which `SmHung` counts as
a place to wait; the same wait exists in the code when `newPeerConnChan` is full. In `tunnel` four
reads fill both queues and the reader's hand and then overwrite one of them; the payloads are an
odd one, an even one, one whose sum needs its carry folded twice, one for another address and one that the
network stack refuses for its length. In `user_conns` two connections are the old and the new one
of a daemon, or two daemons; the invariants also hold with three (28 million states). In `rooms_safety` requests and users are symmetric; no liveness
run uses symmetry.

**Violated properties.** Each states what a comment says and the run shows the code doing
otherwise; `PROJECT.json` quotes the lines under "findings". Some further defects need no run: a failed lookup leaves the global `client` nil and the next
line calls its `run` (`RunNil`), nobody who registers can log in (above), every token ends the
server (`TokenCrashes`), and `remote.go:157` tests for the opposite of what its comment says.

## Fairness

Go runs every goroutine that can run, so every loop has weak fairness. A `select` chooses at
random among its ready cases: a `kill` that stays in its channel while the loop comes back to
its `select` again and again is chosen with probability one, hence strong fairness on `SmDie`,
`LmKilled` and `RunKilled`, on `TakesKill` in `Peers` and on `Ends` in `UserConn`, only. A reader on a closed connection fails, but its loop might be
decoding what is left, hence strong fairness on that failure. Nothing is assumed of the
network, the packets, the interrupt, a peer that answers, or a request that arrives. In `Daemon`
the goroutines of `Client.run` get no fairness at all: main's return must not depend on them.
In `RoomServer` each handler has strong fairness: `sync.RWMutex` admits whoever waits, and a
waiting writer cannot be overtaken for ever.
In `Peers` the loops of the state manager, `PeerConn.run` and an answer to `ShimConn`'s kill go on while
they can; the traversal, the callers and the reads are obliged to nothing. In `UserConn` a write
has strong fairness, since a socket that has room again and again takes what waits for it, but
no daemon has to read; a read from a daemon that is gone fails, by the 50-second deadline at the
latest. `Tunnel` has no liveness: UDP promises nothing.

## Proofs

All theorems are for every value of the constants that satisfies the `ASSUME` of the module:
capacities of at least one, finitely many handles or requests, and special values that are
distinct. None of the bounds is used but as a number.

*Pipeline.* `IInv` is the type invariant with the two conservation laws, the token law,
`DeadReports` (a goroutine reports its death only once it is dead, without which the capacity of
a `dead` channel is not inductive) and `FirstInLine`: until one sighting is taken, `lm.xboxes`
holds all of them with the first at its head. That is what carries `FirstHandleWins` across the
channel. `LifetimeBound` is not inductive, and follows from `UpdateAccounting` and the capacity of `serverChan`: `handled + tokens` is what is in the
channel and what is being sent. The token law needs the cardinality of the set of exited
goroutines to grow by one in `CapExit`, and by nothing elsewhere. `PipeRefined` and
`WorkersRefined` map each step to a step of the abstract specification or to a stutter:
`XboxConservation` bounds what is in the pipe by what its channels hold, and `DeadReports` gives
the worker's order of death and report.

The stuck states are closed under every step (`ManagersStayStuck`, `CapsStayStuck`,
`CleanupStaysStuck`). They lean on each other: a capture goroutine is stuck because
`LocalManager.run` is, which is stuck on `newXboxChan` because `StateManager.run` is, on
`serverChan`; and the clean-up is stuck on `killChildren` once every goroutine that could take a
token is. `StuckManagersStay` and `StoppedCapturesStay` conclude `[](Stuck => []Stuck)`, so the
alternatives of `ManagersObeyKill` and `CapturesQuiesce` are ends and not excuses.

*Client.* `ClientIInv` adds how a client's records hang together. `Fresh`: nothing has happened
to a client before its `run` dials, but main's kill. `Reported`: `kill[c]` is closed only if
`exit[c]` says that `run` returned after connecting, and a reader whose error is on `kill[c]`, or
ended `run`, is done. The last is what makes `ReaderPanicsOnlyIfRunLeftFirst` true: the reader
that panics is not done, so its client's `run` left for another reason. `KillHeld`: from main's
kill on, the message waits for the loop until the loop is dead. `InterruptsAreHeld` is the other half
of a shutdown: an interrupt sent to the client in use is still on its kill channel whenever `run`
looks, since the reader cannot send while the place is taken. It leaves one way to lose an
interrupt, the one `client_interrupt_lost` shows. `StuckPingStays`: only `RunPing` leaves the
place where `run` waits to send its ping, and nothing but `run` makes room for it.

*Daemon.* `DaemonIInv` is the conjunction of the two, `DeadcountExact`, and the facts about
the order in which main sends its kills. Each step of the composition is a step of one module
and a stutter of the other, or one of each (`StepOfEachSide`), but for main's reaping, which
takes a report off the `dead` channels of both; so the two invariants are used as lemmas and not
proved again. `PipelineInDaemon`, `PipeInDaemon` and `ClientInDaemon` state what the parts keep
inside the daemon, the bounded pipe included, and `HangIsFinal` that a stuck goroutine stays
stuck and keeps main from returning (`CleanReturn`).

`ShutdownRefined` is the refinement of `Shutdown`. A step either shows none of the kills, deaths
and the return (`Unseen`), or is one `Kill`, one `Die` or the `Return`. That the kills count up
in order is `InOrder` with `DeadcountExact`, for it is `deadcount` by which main goes on from
one to the next; that nobody dies before its kill is `KillHeld` and the guards of the managers;
that the return comes over three deaths is `ReturnsOnlyWhenAllDead`, which therefore needs no
run of its own.

*Peers.* `IInv` has `ConnInv`, which ties together the state of one connection (who may be inside
`ShimConn.Read`, who has answered, who has sent what on `kill`), and `TableInv`: connections
wait on `newPeerConnChan` in the order of their numbers and above all entries of the table, an
entry is of the peer it stands for, and what is to be removed has failed. The causes are inductive with
these. Most steps touch nothing `TableInv` is about; `StepKinds` says so once, and leaves five
cases. `NobodyDialled` has an invariant of its own: without `Callers` nothing is made.
`ConnectedNeverShutsDown` needs `CleanupInv`: from the kill on the table does not change, and
the peers of the last loop that are not in `todo` any more have had their connection's death
received. By `DeadOnlyUnconnected` an established connection never reports one; so a manager
that dies, with `todo` empty, had none.

*Tunnel.* `IInv` says of every packet in flight (`RefSound`) that its addresses and its length
are the original's, and that its payload is what the buffer begins with unless a later read has begun. That
the rebuilt frame has the fields at their offsets is a lemma on the concatenation of the
headers; that the lengths do not wrap follows from `MaxDatagram <= 65507`, what UDP over IPv4 can
carry.

`ChecksumsVerify` is about a sum over all the words of a payload of any length. `FramingProofs`
has the facts. `Folded` and `WordSum` are recursive functions, so that they exist and are unique
is itself an induction, and the prover's induction theorems take an operator as a parameter. The
proof puts a set in its place: a set of naturals that has a number whenever it has all smaller
ones is `Nat`, because a well-founded relation leaves its complement no least member
(`CourseOfValues`, `Induction`). With it: a folded sum differs from the sum by a multiple of
2^16-1 (`FoldedProperties`), the word sum of a concatenation is the sum of the two, if the first
has even length (`WordSumConcat`), and a checksum in its field makes the whole a multiple of 2^16-1
(`ChecksumsComplete`), which is what a receiver tests. The sum is taken of the headers and the
payload as the code concatenates them, an odd last byte included.

*UserConn.* `IInv` adds `ConnOK`, how far the two goroutines of a connection can be apart, by
which a connection that has ended stays so, and `Routed`: a reader between its check
of an encoder and the use of it finds it still there, or the addressee's connection has ended.
`EncoderOwner`, `UnreachableCause` and `NilEncoderCause` are inductive with these.

*RoomServer.* `RInv` has the owner of the room store's lock, the count of lost read locks, and
for every user the sum of its sessions and of the requests that have found none and are on the
way to create one. That sum, and not the number of sessions, is what never exceeds
`MaxInFlight`: `FindSession` lets a request on only while the user has no session, and from the
first session on the sum can only shift or shrink. `SelfMade` ties a room to the program point
of the request that makes it, so that its cookie can no longer change, and `CurRoomSelfMade`, a
lemma for what follows, says that a session's current room is one it made itself.

`SessionInv`, over `RInv`, gives two more. `SessionsAreOwn`: a cookie names a session, a login's
its own user's, and no handler past `getSessionByRequest` is without one. `RoomsCostALock` is
what the nil encoders make of `POST /api/rooms` (`PostOvertaken`): otherwise `notifyRoom` finds
the maker in the new room and dies with the lock. `LocksAreOrdered` excludes a deadlock between
the two stores: a request that waits for one of the locks waits for a request that is nearer to
its end (`Depth`), or for one that died. `ShutForGood` is of the form `[](P => []P)`: once the
store is shut, with `w` in `ss.Lock()`, `r` at a place that needs the store and `S` its sessions,
all three stay so. A read lock lost is never given back, so `ssReaders > 0` stays; `w` can go on
only without it, and while `w` waits no reader is let in.

**Only model-checked**: the liveness properties (`ManagersObeyKill`,
`CapturesQuiesce`, `ReadErrorEndsRun`, `EncodeErrorIsFatal`, `ShutdownEndsOrIsStuck`,
`PeersShutDownOrHang`, `RequestsAnswered`, `GoneIsNoticed`), since the prover does not reason
about fairness, and `HangIsNamed`, which is about `ENABLED`. Every other invariant that a run
checks, and each of the refinements, is proved. So is what can be said of the liveness properties without
fairness: in `Pipeline`, `Client` and `Daemon`, that the places where they allow a goroutine to
hang are never left; in `Peers`, that a manager killed with a working connection cannot die; in
`RoomServer`, that no request waits for a circle of others and that a shut store is never opened.

## Plan

The components of the two programs are modelled; what is left is how they meet.

1. `UserConn` composed with `RoomServer`: a session made by a login while its daemon connects,
   and `notifyRoom` with an encoder that is there.
2. Two `Daemon`s, with `Peers`, over one `UserConn`: a signal from the traversal of one daemon to
   the sideband of the other.
3. An atomic session store, which `RoomServer` implements when no logins overlap and no handler dies.
4. The page's `loggedIn` and `rooms` (`play.ctrl.js`) against the sessions of `RoomServer`:
   answers that come out of order, and a page that outlives the sessions of a restarted server.

Proofs that are left: that each place of `SmHung` in `Peers` is never left (the property takes
`[]SmHung` as a whole), and in `UserConn` that a reader held up in a write to a daemon that does
not read stays so while that daemon is there.

## Not modelled

Nearly all JavaScript of the repository, some 59,000 lines under `server/_web/lib` and
`server/webapp/lib`, is vendored (Angular, jQuery, Foundation, Bootstrap and others) and is left
aside: it is not this program, and a model of it would say nothing of it. What is left of the
front-end keeps nothing the server relies on: `RoomServer` lets a browser send any request at any time.
`/api/version` and the static files keep no state. `xbld`, `getSessionById`,
`getSessionByUserId`, `ls2peer` and `ShimConn.Close` have no user in the code. Opening the capture
devices, the database, the HTTP library, gob and NAT traversal are external and appear as what
they may return or do.
