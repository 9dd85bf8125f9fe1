-------------------------------- MODULE Tunnel --------------------------------
(***************************************************************************)
(* One direction of the tunnel between two daemons: PeerConn.run writes    *)
(* packets to the UDP connection, the other daemon's reader goroutine      *)
(* (remote.go) reads them into its one buffer and queues packets whose     *)
(* payload is a slice of that buffer, and LocalManager.run (local.go)      *)
(* rebuilds a frame and injects it.  Nothing in the repository calls       *)
(* PeerConn.run or copies localChan to lm.out (daemon.go:139-140 leaves    *)
(* the copy to do): the module takes both as there, in the way the code    *)
(* around them expects.                                                    *)
(***************************************************************************)
EXTENDS UdpFraming, FiniteSets

CONSTANTS
  Packets,      \* the packets the sending side captured
  Strays,       \* datagrams of other traffic on the connection, too short
  MaxDatagram,  \* the largest UDP payload the network stack takes
  BufferLen,    \* len(data), 65535 in the code
  LocalCap,     \* cap(localChan), 10
  OutCap,       \* cap(lm.out), 5
  MaxReads      \* bound: datagrams read in a behaviour

Packet == [payload : Seq(Byte), src : Xbox, dst : Xbox]

ASSUME TunnelAssumption ==
  /\ Packets \subseteq Packet
  /\ \A d \in Strays : d \in Seq(Byte) /\ Len(d) < TrailerLen
  /\ MaxDatagram \in Nat /\ MaxDatagram <= 65507
  /\ BufferLen \in Nat /\ MaxDatagram <= BufferLen /\ TrailerLen <= BufferLen
  /\ LocalCap \in Nat \ {0} /\ OutCap \in Nat \ {0} /\ MaxReads \in Nat

VARIABLES
  sent,      \* packets PeerConn.run has written to the connection
  running,   \* PeerConn.run of the sender has not returned
  data,      \* the reader's buffer
  rdr,       \* the reader: at its Read, in it, or at its send on localChan
  arriving,  \* the datagram Read is copying into the buffer
  hand,      \* the packet the reader is about to send on localChan
  localChan, lmOut,
  known,     \* xboxHandleMap has a handle for the broadcast address
  reads,     \* Reads begun so far
  injected   \* the last frame injected, with its history

readerVars == <<data, rdr, arriving, hand, reads>>
senderVars == <<sent, running>>
tunnelVars == <<senderVars, readerVars, localChan, lmOut, known, injected>>

\* A packet in a channel: the addresses are copies, the payload is the first
\* len bytes of data.  orig and read are history: what was sent, and when the
\* reader read it.  A stray has the zero packet for orig.
NoOrig == [payload |-> <<>>, src |-> Zero, dst |-> Zero]
Ref(parsed, orig, read) ==
  [len |-> parsed.len, src |-> parsed.src, dst |-> parsed.dst,
   orig |-> orig, read |-> read]

NoFrame == [frame |-> <<>>, orig |-> NoOrig, overtaken |-> FALSE]

TunnelInit ==
  /\ sent = {} /\ running = TRUE
  /\ data = [i \in 1..BufferLen |-> 0]
  /\ rdr = "read" /\ arriving = <<>> /\ hand = Ref(ParseRemoteUdpPacket(<<>>), NoOrig, 0)
  /\ localChan = <<>> /\ lmOut = <<>> /\ known = FALSE
  /\ reads = 0 /\ injected = NoFrame

-----------------------------------------------------------------------------
(* The sending daemon                                                      *)

\* case pkt := <-pc.out: written; the network may lose, repeat or reorder it.
RunWrites(p) ==
  /\ running /\ Len(AsUdpData(p)) <= MaxDatagram
  /\ sent' = sent \cup {p}
  /\ UNCHANGED <<running, readerVars, localChan, lmOut, known, injected>>

\* The trailer made the datagram too long for the network: run returns.
RunWriteFails(p) ==
  /\ running /\ Len(AsUdpData(p)) > MaxDatagram
  /\ running' = FALSE
  /\ UNCHANGED <<sent, readerVars, localChan, lmOut, known, injected>>

-----------------------------------------------------------------------------
(* The receiving daemon's reader goroutine                                 *)

ReadStarts(d, orig) ==
  /\ rdr = "read" /\ reads < MaxReads
  /\ rdr' = "reading" /\ arriving' = d /\ reads' = reads + 1
  /\ hand' = [hand EXCEPT !.orig = orig]
  /\ UNCHANGED <<data, senderVars, localChan, lmOut, known, injected>>

\* pc.udpConn.Read(data) begins to copy a datagram of the peer, any of them.
ReadPacket == \E p \in sent : ReadStarts(AsUdpData(p), p)

\* ... or one that is none of the peer's.
ReadStray == \E d \in Strays : ReadStarts(d, NoOrig)

Overwritten(buffer, d) ==
  [i \in 1..BufferLen |-> IF i <= Len(d) THEN d[i] ELSE buffer[i]]

\* Read returned n, and data[:n] is parsed.
ReadEnds ==
  /\ rdr = "reading" /\ rdr' = "queue"
  /\ data' = Overwritten(data, arriving)
  /\ hand' = Ref(ParseRemoteUdpPacket(arriving), hand.orig, reads)
  /\ arriving' = <<>>
  /\ UNCHANGED <<reads, senderVars, localChan, lmOut, known, injected>>

QueuesOne ==
  /\ rdr = "queue" /\ rdr' = "read" /\ localChan' = Append(localChan, hand)
  /\ UNCHANGED <<data, arriving, hand, reads, senderVars, lmOut, known, injected>>

\* localChan <- packet: blocks while it is full, and only then reads again.
ReaderQueues == Len(localChan) < LocalCap /\ QueuesOne

-----------------------------------------------------------------------------
(* LocalManager.run                                                        *)

\* The copy from localChan to lm.out that main leaves to do.
Copy ==
  /\ localChan # <<>> /\ localChan' = Tail(localChan)
  /\ Len(lmOut) < OutCap /\ lmOut' = Append(lmOut, Head(localChan))
  /\ UNCHANGED <<senderVars, readerVars, known, injected>>

\* case xh := <-lm.xboxes: the only key runpcap ever sends is the broadcast one.
Learn ==
  /\ ~known /\ known' = TRUE
  /\ UNCHANGED <<senderVars, readerVars, localChan, lmOut, injected>>

\* The payloads udp_buffer.Write may copy out of the buffer: while a Read is
\* writing to it, each byte may still be the old one or already the new one.
Copied(ref) ==
  { [i \in 1..ref.len |-> IF i \in new THEN arriving[i] ELSE data[i]] :
      new \in SUBSET (1..ref.len \cap 1..Len(arriving)) }

Injects(ref) ==
  IF known /\ IsBroadcast(ref.dst)
    THEN \E bs \in Copied(ref) :
           injected' =
             [frame |-> AsTransmittablePcap([payload |-> bs, src |-> ref.src, dst |-> ref.dst]),
              orig |-> ref.orig, overtaken |-> reads > ref.read]
    ELSE UNCHANGED injected

\* case pkt := <-lm.out: injected on the handles of its destination, if any.
LmInjects ==
  /\ lmOut # <<>> /\ lmOut' = Tail(lmOut) /\ Injects(Head(lmOut))
  /\ UNCHANGED <<senderVars, readerVars, localChan, known>>
-----------------------------------------------------------------------------
TunnelNext ==
  \/ \E p \in Packets : RunWrites(p) \/ RunWriteFails(p)
  \/ ReadPacket \/ ReadStray \/ ReadEnds \/ ReaderQueues
  \/ Copy \/ Learn \/ LmInjects

TunnelSpec == TunnelInit /\ [][TunnelNext]_tunnelVars
-----------------------------------------------------------------------------
(* Properties                                                              *)

RefOK(ref) ==
  /\ ref.len \in 0..BufferLen /\ ref.src \in Xbox /\ ref.dst \in Xbox
  /\ ref.orig \in Packets \cup {NoOrig} /\ ref.read \in 0..reads

\* Everything is within its type, and what is in a channel within its capacity.
TunnelTypeOK ==
  /\ sent \subseteq Packets /\ running \in BOOLEAN /\ known \in BOOLEAN
  /\ data \in [1..BufferLen -> Byte] /\ reads \in 0..MaxReads
  /\ rdr \in {"read", "reading", "queue"} /\ RefOK(hand)
  /\ Len(localChan) <= LocalCap /\ Len(lmOut) <= OutCap
  /\ \A i \in DOMAIN localChan : RefOK(localChan[i])
  /\ \A i \in DOMAIN lmOut : RefOK(lmOut[i])

\* The fields of an Ethernet frame, at the offsets the headers' RFCs give them.
FrameDst(f) == SubSeq(f, 1, 6)
FrameSrc(f) == SubSeq(f, 7, 12)
FrameIp(f) == SubSeq(f, 15, 34)
FrameUdp(f) == SubSeq(f, 35, Len(f))
FramePayload(f) == SubSeq(f, 43, Len(f))
Field16(f, at) == 256 * f[at] + f[at + 1]

Injected == injected # NoFrame

\* A frame that reaches the console is the one its peer captured (addresses,
\* length and every byte), unless the reader began another Read before it was
\* copied out of the buffer it aliases (remote.go:124-125, local.go:71): then
\* its payload alone is at risk, never its addresses or its length.
FrameFaithful ==
  Injected =>
    /\ FrameDst(injected.frame) = injected.orig.dst
    /\ FrameSrc(injected.frame) = injected.orig.src
    /\ Len(FramePayload(injected.frame)) = Len(injected.orig.payload)
    /\ ~injected.overtaken => FramePayload(injected.frame) = injected.orig.payload

\* The 16-bit lengths of the frame are those of what they head: no packet the
\* tunnel can carry makes them wrap (udp.go:84, :100).
LengthsExact ==
  Injected =>
    /\ Field16(injected.frame, 17) = Len(injected.frame) - 14
    /\ Field16(injected.frame, 39) = Len(FrameUdp(injected.frame))

\* What a receiver checks: the ones' complement sum over the words, checksum
\* included, is all ones; that is, a positive multiple of 2^16 - 1.
Verifies(bs) == WordSum(bs) > 0 /\ WordSum(bs) % (Word - 1) = 0
UdpPseudo(f) ==
  SubSeq(f, 27, 34) \o <<0, 17>> \o SubSeq(f, 39, 40) \o FrameUdp(f)

\* Both checksums verify in every frame injected, odd payloads and multiple
\* carries included, even in one whose payload was overwritten meanwhile
\* (udp.go:114-118, :126-143).
ChecksumsVerify ==
  Injected =>
    /\ Verifies(FrameIp(injected.frame)) /\ Verifies(UdpPseudo(injected.frame))
=============================================================================
