----------------------------- MODULE TunnelProofs -----------------------------
(***************************************************************************)
(* What holds of the tunnel for all packets and payloads: the framing      *)
(* loses nothing, no 16-bit length wraps, both checksums verify, and the   *)
(* one buffer of the reader can spoil a frame's payload but neither its    *)
(* addresses nor its length.  FramingProofs has the facts about bytes.     *)
(*                                                                         *)
(* The inductive invariant is IInv.  Beside the types it says of every     *)
(* packet in a channel that its parts are those of a packet that was sent  *)
(* and that, while no later Read has begun, the buffer still holds its     *)
(* payload (RefSound).  Without it nothing ties a slice of the buffer to   *)
(* what its peer captured.                                                 *)
(***************************************************************************)
EXTENDS Tunnel, FramingProofs

(* The datagram and the frame                                              *)

\* Reading back what AsUdpData wrote gives the packet (udp.go:31-56).
LEMMA RoundTrip ==
  ASSUME NEW p \in Packet
  PROVE  /\ AsUdpData(p) \in Seq(Byte)
         /\ Len(AsUdpData(p)) = Len(p.payload) + TrailerLen
         /\ HoldsAt(AsUdpData(p), 0, p.payload)
         /\ ParseRemoteUdpPacket(AsUdpData(p)) =
              [len |-> Len(p.payload), src |-> p.src, dst |-> p.dst]
<1> DEFINE a == p.payload \o p.src
           d == AsUdpData(p)
           n == Len(p.payload)
<1>1. /\ p.payload \in Seq(Byte) /\ p.src \in Xbox /\ p.dst \in Xbox
      /\ p.src \in Seq(Byte) /\ p.dst \in Seq(Byte)
      /\ Len(p.src) = 6 /\ Len(p.dst) = 6 /\ n \in Nat
  BY XboxIsSeq, LenProperties DEF Packet
<1>2. /\ a \in Seq(Byte) /\ Len(a) = n + 6
      /\ HoldsAt(a, 0, p.payload) /\ HoldsAt(a, n, p.src)
  BY <1>1, HoldsParts
<1>3. d = a \o p.dst BY DEF AsUdpData
<1> HIDE DEF a, d
<1>4. /\ d \in Seq(Byte) /\ Len(d) = n + 12 /\ HoldsAt(d, n + 6, p.dst)
  <2>1. d \in Seq(Byte) /\ Len(d) = Len(a) + Len(p.dst) /\ HoldsAt(d, Len(a), p.dst)
    BY <1>1, <1>2, <1>3, HoldsParts
  <2>2. QED BY <1>1, <1>2, <2>1
<1>5. HoldsAt(d, 0, p.payload) /\ HoldsAt(d, n, p.src)
  BY <1>1, <1>2, <1>3, HoldsInLeft
<1>6. SubSeq(d, Len(d) - 11, Len(d) - 6) = p.src
  <2>1. SubSeq(d, n + 1, n + 6) = p.src BY <1>1, <1>4, <1>5, HoldsSlice
  <2>2. Len(d) - 11 = n + 1 /\ Len(d) - 6 = n + 6 BY <1>1, <1>4
  <2>3. QED BY <2>1, <2>2
<1>7. SubSeq(d, Len(d) - 5, Len(d)) = p.dst
  <2> DEFINE m == n + 6
  <2>1. m \in Nat /\ Len(d) - 5 = m + 1 /\ Len(d) = m + 6 BY <1>1, <1>4
  <2>2. HoldsAt(d, m, p.dst) BY <1>4
  <2> HIDE DEF m
  <2>3. SubSeq(d, m + 1, m + 6) = p.dst BY <1>1, <1>4, <2>1, <2>2, HoldsSlice
  <2>4. QED BY <2>1, <2>3
<1>8. \A x \in Xbox : Len(x) = 6 => NewXbox(x) = x BY DEF NewXbox, Xbox
<1>9. ParseRemoteUdpPacket(d) = [len |-> n, src |-> p.src, dst |-> p.dst]
  <2>1. ~(Len(d) < TrailerLen) /\ Len(d) - TrailerLen = n BY <1>1, <1>4 DEF TrailerLen
  <2>2. QED BY <1>1, <1>6, <1>7, <1>8, <2>1 DEF ParseRemoteUdpPacket
<1>10. QED BY <1>4, <1>5, <1>9 DEF d, TrailerLen

\* Where the frame holds what, whatever the checksums are (udp.go:63-123).
LEMMA Layout ==
  ASSUME NEW p \in Packet, NEW s1 \in 0..Word - 1, NEW s2 \in 0..Word - 1, NEW f, f = EtherHeader(p) \o IpHeader(p, s1) \o UdpSegment(p, s2)
  PROVE  /\ f \in Seq(Byte) /\ Len(f) = 42 + Len(p.payload)
         /\ HoldsAt(f, 0, p.dst) /\ HoldsAt(f, 6, p.src) /\ HoldsAt(f, 42, p.payload)
         /\ HoldsAt(f, 16, BigEndian16(IpLength(p)))
         /\ HoldsAt(f, 38, BigEndian16(UdpLength(p)))
         /\ HoldsAt(f, 14, IpHeader(p, s1)) /\ HoldsAt(f, 26, SrcIp)
         /\ HoldsAt(f, 30, DstIp(p)) /\ HoldsAt(f, 34, UdpSegment(p, s2))
         /\ IpHeader(p, s1) \in Seq(Byte) /\ Len(IpHeader(p, s1)) = 20
         /\ UdpSegment(p, s2) \in Seq(Byte) /\ Len(UdpSegment(p, s2)) = 8 + Len(p.payload)
<1> DEFINE n == Len(p.payload)
           l1 == BigEndian16(IpLength(p))
           l2 == BigEndian16(UdpLength(p))
           c1 == BigEndian16(s1)
           c2 == BigEndian16(s2)
           type == <<8, 0>>
           vers == <<69, 0>>
           ports == <<12, 2, 12, 2>>
           mid == <<0, 0, 0, 0, 64, 17>>
           E == EtherHeader(p)
           I == IpHeader(p, s1)
           U == UdpSegment(p, s2)
<1>0. /\ type \in Seq(Byte) /\ vers \in Seq(Byte) /\ ports \in Seq(Byte) /\ mid \in Seq(Byte)
      /\ SrcIp \in Seq(Byte) /\ DstIp(p) \in Seq(Byte) /\ Len(type) = 2 /\ Len(vers) = 2
      /\ Len(ports) = 4 /\ Len(mid) = 6 /\ Len(SrcIp) = 4 /\ Len(DstIp(p)) = 4
  BY ShortSeqs
<1>1. /\ p.payload \in Seq(Byte) /\ p.src \in Seq(Byte) /\ p.dst \in Seq(Byte)
      /\ Len(p.src) = 6 /\ Len(p.dst) = 6 /\ n \in Nat
  <2>1. p.payload \in Seq(Byte) /\ p.src \in Xbox /\ p.dst \in Xbox BY DEF Packet
  <2>2. QED BY <2>1, XboxIsSeq, LenProperties
<1>2. /\ l1 \in Seq(Byte) /\ l2 \in Seq(Byte) /\ Len(l1) = 2 /\ Len(l2) = 2
  <2>1. IpLength(p) \in Nat /\ UdpLength(p) \in Nat BY <1>1, LengthsTyped
  <2>2. QED BY <2>1, LengthBytes
<1>3. Len(c1) = 2 /\ Len(c2) = 2 /\ c1 \in Seq(Byte) /\ c2 \in Seq(Byte)
  BY WordSumBytes
<1>4. E \in Seq(Byte) /\ Len(E) = 14 /\ HoldsAt(E, 0, p.dst) /\ HoldsAt(E, 6, p.src)
  <2> DEFINE a == p.dst \o p.src
  <2>1. a \in Seq(Byte) /\ Len(a) = 12 /\ HoldsAt(a, 0, p.dst) /\ HoldsAt(a, 6, p.src)
    <3>1. /\ a \in Seq(Byte) /\ Len(a) = Len(p.dst) + Len(p.src)
          /\ HoldsAt(a, 0, p.dst) /\ HoldsAt(a, Len(p.dst), p.src)
      BY <1>1, HoldsParts
    <3>2. QED BY <1>1, <3>1
  <2>2. E = a \o type BY DEF EtherHeader
  <2> HIDE DEF a, E, type
  <2>3. E \in Seq(Byte) /\ Len(E) = 14
    <3>1. E \in Seq(Byte) /\ Len(E) = Len(a) + Len(type)
      BY <2>1, <2>2, <1>0, HoldsParts
    <3>2. QED BY <2>1, <3>1, <1>0
  <2>4. HoldsAt(E, 0, p.dst) /\ HoldsAt(E, 6, p.src)
    BY <1>1, <2>1, <2>2, <1>0, HoldsInLeft
  <2>5. QED BY <2>3, <2>4
<1>5. /\ I \in Seq(Byte) /\ Len(I) = 20 /\ HoldsAt(I, 2, l1)
      /\ HoldsAt(I, 12, SrcIp) /\ HoldsAt(I, 16, DstIp(p))
  <2> DEFINE a == vers \o l1
             b == a \o mid
             c == b \o c1
             e == c \o SrcIp
  <2> HIDE DEF l1, c1, vers, mid
  <2>1. a \in Seq(Byte) /\ Len(a) = 4 /\ HoldsAt(a, 2, l1)
    <3>1. /\ a \in Seq(Byte) /\ Len(a) = Len(vers) + Len(l1)
          /\ HoldsAt(a, Len(vers), l1)
      BY <1>2, <1>0, HoldsParts
    <3>2. QED BY <1>2, <3>1, <1>0
  <2> HIDE DEF a
  <2>2. b \in Seq(Byte) /\ Len(b) = 10 /\ HoldsAt(b, 2, l1)
    <3>1. b \in Seq(Byte) /\ Len(b) = Len(a) + Len(mid)
      BY <2>1, <1>0, HoldsParts
    <3>2. HoldsAt(b, 2, l1) BY <1>2, <2>1, <1>0, HoldsInLeft
    <3>3. QED BY <2>1, <3>1, <3>2, <1>0
  <2> HIDE DEF b
  <2>3. c \in Seq(Byte) /\ Len(c) = 12 /\ HoldsAt(c, 2, l1)
    <3>1. c \in Seq(Byte) /\ Len(c) = Len(b) + Len(c1)
      BY <1>3, <2>2, <1>0, HoldsParts
    <3>2. HoldsAt(c, 2, l1) BY <1>2, <1>3, <2>2, <1>0, HoldsInLeft
    <3>3. QED BY <1>3, <2>2, <3>1, <3>2, <1>0
  <2> HIDE DEF c
  <2>4. e \in Seq(Byte) /\ Len(e) = 16 /\ HoldsAt(e, 2, l1) /\ HoldsAt(e, 12, SrcIp)
    <3>1. e \in Seq(Byte) /\ Len(e) = Len(c) + Len(SrcIp) /\ HoldsAt(e, Len(c), SrcIp)
      BY <2>3, <1>0, HoldsParts
    <3>2. HoldsAt(e, 2, l1) BY <1>2, <2>3, <1>0, HoldsInLeft
    <3>3. QED BY <2>3, <3>1, <3>2, <1>0
  <2>5. I = e \o DstIp(p) BY DEF IpHeader, a, b, c, l1, c1, vers, mid
  <2> HIDE DEF e, I
  <2>6. /\ I \in Seq(Byte) /\ Len(I) = 20 /\ HoldsAt(I, 2, l1)
        /\ HoldsAt(I, 12, SrcIp) /\ HoldsAt(I, 16, DstIp(p))
    <3>1. /\ I \in Seq(Byte) /\ Len(I) = Len(e) + Len(DstIp(p))
          /\ HoldsAt(I, Len(e), DstIp(p))
      BY <2>4, <2>5, <1>0, HoldsParts
    <3>2. HoldsAt(I, 2, l1) /\ HoldsAt(I, 12, SrcIp)
      BY <1>2, <2>4, <2>5, <1>0, HoldsInLeft
    <3>3. QED BY <2>4, <2>5, <3>1, <3>2, <1>0
  <2>7. QED BY <2>6
<1>6. U \in Seq(Byte) /\ Len(U) = 8 + n /\ HoldsAt(U, 4, l2) /\ HoldsAt(U, 8, p.payload)
  <2> DEFINE a == ports \o l2
             b == a \o c2
  <2> HIDE DEF l2, c2, ports
  <2>1. a \in Seq(Byte) /\ Len(a) = 6 /\ HoldsAt(a, 4, l2)
    <3>1. /\ a \in Seq(Byte) /\ Len(a) = Len(ports) + Len(l2)
          /\ HoldsAt(a, Len(ports), l2)
      BY <1>2, <1>0, HoldsParts
    <3>2. QED BY <1>2, <3>1, <1>0
  <2> HIDE DEF a
  <2>2. b \in Seq(Byte) /\ Len(b) = 8 /\ HoldsAt(b, 4, l2)
    <3>1. b \in Seq(Byte) /\ Len(b) = Len(a) + Len(c2)
      BY <1>3, <2>1, <1>0, HoldsParts
    <3>2. HoldsAt(b, 4, l2) BY <1>2, <1>3, <2>1, <1>0, HoldsInLeft
    <3>3. QED BY <1>3, <2>1, <3>1, <3>2, <1>0
  <2>3. U = b \o p.payload BY DEF UdpSegment, a, l2, c2, ports
  <2> HIDE DEF b, U
  <2>4. HoldsAt(U, 4, l2) BY <1>1, <1>2, <2>2, <2>3, HoldsInLeft
  <2>5. /\ U \in Seq(Byte) /\ Len(U) = Len(b) + Len(p.payload)
        /\ HoldsAt(U, Len(b), p.payload)
    BY <1>1, <2>2, <2>3, HoldsParts
  <2>6. QED BY <2>2, <2>4, <2>5
<1> DEFINE g == E \o I
<1> HIDE DEF E, I, U, l1, l2, n
<1>7. /\ g \in Seq(Byte) /\ Len(g) = 34 /\ HoldsAt(g, 0, p.dst) /\ HoldsAt(g, 6, p.src)
      /\ HoldsAt(g, 16, l1) /\ HoldsAt(g, 14, I)
      /\ HoldsAt(g, 26, SrcIp) /\ HoldsAt(g, 30, DstIp(p))
  <2>1. g \in Seq(Byte) /\ Len(g) = 34 /\ HoldsAt(g, 14, I)
    <3>1. g \in Seq(Byte) /\ Len(g) = Len(E) + Len(I) /\ HoldsAt(g, Len(E), I)
      BY <1>4, <1>5, HoldsParts
    <3>2. QED BY <1>4, <1>5, <3>1
  <2>2. HoldsAt(g, 0, p.dst) /\ HoldsAt(g, 6, p.src) BY <1>1, <1>4, <1>5, HoldsInLeft
  <2>3. /\ HoldsAt(g, 14 + 2, l1) /\ HoldsAt(g, 14 + 12, SrcIp)
        /\ HoldsAt(g, 14 + 16, DstIp(p))
    BY <1>0, <1>2, <1>4, <1>5, HoldsInRight
  <2>4. QED BY <2>1, <2>2, <2>3
<1>8. f = g \o U BY DEF E, I, U
<1> HIDE DEF g
<1>9. f \in Seq(Byte) /\ Len(f) = 42 + n /\ HoldsAt(f, 34, U)
  <2>1. f \in Seq(Byte) /\ Len(f) = Len(g) + Len(U) /\ HoldsAt(f, Len(g), U)
    BY <1>6, <1>7, <1>8, HoldsParts
  <2>2. QED BY <1>1, <1>6, <1>7, <2>1
<1>10. /\ HoldsAt(f, 0, p.dst) /\ HoldsAt(f, 6, p.src) /\ HoldsAt(f, 16, l1)
       /\ HoldsAt(f, 14, I) /\ HoldsAt(f, 26, SrcIp) /\ HoldsAt(f, 30, DstIp(p))
  <2>1. HoldsAt(f, 0, p.dst) /\ HoldsAt(f, 6, p.src) /\ HoldsAt(f, 16, l1)
    BY <1>1, <1>2, <1>6, <1>7, <1>8, HoldsInLeft
  <2>2. HoldsAt(f, 14, I) BY <1>5, <1>6, <1>7, <1>8, HoldsInLeft
  <2>3. HoldsAt(f, 26, SrcIp) BY <1>0, <1>6, <1>7, <1>8, HoldsInLeft
  <2>4. HoldsAt(f, 30, DstIp(p)) BY <1>0, <1>6, <1>7, <1>8, HoldsInLeft
  <2>5. QED BY <2>1, <2>2, <2>3, <2>4
<1>11. HoldsAt(f, 34 + 4, l2) /\ HoldsAt(f, 34 + 8, p.payload)
  BY <1>1, <1>2, <1>6, <1>7, <1>8, HoldsInRight
<1>12. QED BY <1>5, <1>6, <1>9, <1>10, <1>11 DEF n, l1, l2, I, U

\* A positive multiple of 2^16 - 1 is one.
LEMMA MultipleVerifies ==
  ASSUME NEW c \in Nat
  PROVE  (Word - 1) * (c + 1) > 0 /\ ((Word - 1) * (c + 1)) % (Word - 1) = 0
BY DEF Word

\* The fields of a frame are those of the packet it was made from.
LEMMA FrameFields ==
  ASSUME NEW p \in Packet, Len(p.payload) + 28 < Word
  PROVE  LET f == AsTransmittablePcap(p) IN
         /\ FrameDst(f) = p.dst /\ FrameSrc(f) = p.src /\ FramePayload(f) = p.payload
         /\ Field16(f, 17) = Len(f) - 14 /\ Field16(f, 39) = Len(FrameUdp(f))
<1> DEFINE f == AsTransmittablePcap(p)
           n == Len(p.payload)
           s1 == OneAdd(IpHeader(p, 0))
           s2 == OneAdd(PseudoHeader(p) \o UdpSegment(p, 0))
<1>1. /\ p.payload \in Seq(Byte) /\ p.src \in Seq(Byte) /\ p.dst \in Seq(Byte)
      /\ Len(p.src) = 6 /\ Len(p.dst) = 6 /\ n \in Nat
  BY XboxIsSeq, LenProperties DEF Packet
<1>2. s1 \in 0..Word - 1 /\ s2 \in 0..Word - 1 BY <1>1, ChecksumsComplete
<1>3. f = EtherHeader(p) \o IpHeader(p, s1) \o UdpSegment(p, s2)
  BY DEF AsTransmittablePcap
<1> HIDE DEF f, s1, s2
<1>4. /\ f \in Seq(Byte) /\ Len(f) = 42 + n
      /\ HoldsAt(f, 0, p.dst) /\ HoldsAt(f, 6, p.src) /\ HoldsAt(f, 42, p.payload)
      /\ HoldsAt(f, 16, BigEndian16(IpLength(p)))
      /\ HoldsAt(f, 38, BigEndian16(UdpLength(p)))
  BY <1>2, <1>3, Layout
<1>5. FrameDst(f) = p.dst /\ FrameSrc(f) = p.src
  <2>1. SubSeq(f, 0 + 1, 0 + Len(p.dst)) = p.dst BY <1>1, <1>4, HoldsSlice
  <2>2. SubSeq(f, 6 + 1, 6 + Len(p.src)) = p.src BY <1>1, <1>4, HoldsSlice
  <2>3. QED BY <1>1, <2>1, <2>2 DEF FrameDst, FrameSrc
<1>6. FramePayload(f) = p.payload
  <2>1. SubSeq(f, 42 + 1, 42 + n) = p.payload BY <1>1, <1>4, HoldsSlice
  <2>2. QED BY <1>4, <2>1 DEF FramePayload
<1>7. Field16(f, 17) = n + 28 /\ Field16(f, 39) = n + 8
  <2>1. IpLength(p) = n + 28 /\ UdpLength(p) = n + 8
    <3>1. IpLength(p) = (n + 28) % 65536 /\ UdpLength(p) = (n + 8) % 65536
      BY <1>1 DEF IpLength, UdpLength, Word
    <3>2. n + 28 < 65536 BY DEF Word
    <3> HIDE DEF n
    <3>3. (n + 28) % 65536 = n + 28 /\ (n + 8) % 65536 = n + 8 BY <1>1, <3>2
    <3>4. QED BY <3>1, <3>3
  <2>2. /\ 256 * BigEndian16(n + 28)[1] + BigEndian16(n + 28)[2] = n + 28
        /\ 256 * BigEndian16(n + 8)[1] + BigEndian16(n + 8)[2] = n + 8
    BY <1>1, LengthBytes DEF Word
  <2>3. /\ f[16 + 1] = BigEndian16(n + 28)[1] /\ f[16 + 2] = BigEndian16(n + 28)[2]
        /\ f[38 + 1] = BigEndian16(n + 8)[1] /\ f[38 + 2] = BigEndian16(n + 8)[2]
    <3> DEFINE w1 == BigEndian16(n + 28)
               w2 == BigEndian16(n + 8)
    <3>1. n + 28 \in Nat /\ n + 8 \in Nat BY <1>1
    <3>2. Len(w1) = 2 /\ Len(w2) = 2 BY <3>1, LengthBytes
    <3>3. HoldsAt(f, 16, w1) /\ HoldsAt(f, 38, w2) BY <1>4, <2>1
    <3> HIDE DEF w1, w2
    <3>4. \A i \in 1..2 : f[16 + i] = w1[i] /\ f[38 + i] = w2[i]
      BY <3>2, <3>3 DEF HoldsAt
    <3>5. QED BY <3>4 DEF w1, w2
  <2>4. QED BY <2>2, <2>3 DEF Field16
<1>8. Len(FrameUdp(f)) = n + 8
  <2>1. \A i \in 35..Len(f) : f[i] \in Byte BY <1>1, <1>4, ElementOfSeq
  <2>2. Len(SubSeq(f, 35, Len(f))) = IF 35 <= Len(f) THEN Len(f) - 35 + 1 ELSE 0
    BY <1>1, <1>4, <2>1, SubSeqProperties
  <2>3. QED BY <1>1, <1>4, <2>2 DEF FrameUdp
<1>9. QED BY <1>1, <1>4, <1>5, <1>6, <1>7, <1>8 DEF f

\* Both checksums of a frame verify where a receiver looks for them.
LEMMA FrameChecksums ==
  ASSUME NEW p \in Packet, Len(p.payload) + 28 < Word
  PROVE  LET f == AsTransmittablePcap(p) IN Verifies(FrameIp(f)) /\ Verifies(UdpPseudo(f))
<1> DEFINE f == AsTransmittablePcap(p)
           n == Len(p.payload)
           s1 == OneAdd(IpHeader(p, 0))
           s2 == OneAdd(PseudoHeader(p) \o UdpSegment(p, 0))
           I == IpHeader(p, s1)
           U == UdpSegment(p, s2)
           d == DstIp(p)
           l2 == BigEndian16(UdpLength(p))
<1>1. p.payload \in Seq(Byte) /\ n \in Nat BY LenProperties DEF Packet
<1>2. /\ s1 \in 0..Word - 1 /\ s2 \in 0..Word - 1
      /\ \E c \in Nat : WordSum(I) = (Word - 1) * (c + 1)
      /\ \E c \in Nat : WordSum(PseudoHeader(p) \o U) = (Word - 1) * (c + 1)
  BY <1>1, ChecksumsComplete
<1>3. f = EtherHeader(p) \o I \o U BY DEF AsTransmittablePcap
<1> HIDE DEF f, s1, s2
<1>4. /\ f \in Seq(Byte) /\ Len(f) = 42 + n /\ HoldsAt(f, 38, l2)
      /\ HoldsAt(f, 14, I) /\ HoldsAt(f, 26, SrcIp) /\ HoldsAt(f, 30, d)
      /\ HoldsAt(f, 34, U) /\ I \in Seq(Byte) /\ Len(I) = 20
      /\ U \in Seq(Byte) /\ Len(U) = 8 + n
  BY <1>2, <1>3, Layout
<1>5. SrcIp \in Seq(Byte) /\ d \in Seq(Byte) /\ Len(SrcIp) = 4 /\ Len(d) = 4 BY ShortSeqs
<1>6. l2 \in Seq(Byte) /\ Len(l2) = 2 /\ l2 = BigEndian16(n + 8)
  <2>1. UdpLength(p) = (n + 8) % 65536 BY DEF UdpLength, Word
  <2>2. n + 28 < 65536 BY DEF Word
  <2> HIDE DEF n
  <2>3. UdpLength(p) = n + 8 BY <1>1, <2>1, <2>2
  <2>4. n + 8 \in Nat BY <1>1
  <2>5. QED BY <2>3, <2>4, LengthBytes
<1>7. PseudoHeader(p) = SrcIp \o d \o <<0, 17>> \o l2 BY <1>6 DEF PseudoHeader
<1> HIDE DEF I, U, d, l2, n
<1>8. FrameIp(f) = I
  <2>1. SubSeq(f, 14 + 1, 14 + Len(I)) = I BY <1>4, HoldsSlice
  <2>2. QED BY <1>4, <2>1 DEF FrameIp
<1>9. UdpPseudo(f) = PseudoHeader(p) \o U
  <2>1. SubSeq(f, 27, 34) = SrcIp \o d
    <3>1. HoldsAt(f, 26, SrcIp \o d)
      <4>1. HoldsAt(f, 26 + Len(SrcIp), d) BY <1>4, <1>5
      <4>2. QED BY <1>4, <1>5, <4>1, HoldsBoth
    <3>2. SrcIp \o d \in Seq(Byte) /\ Len(SrcIp \o d) = Len(SrcIp) + Len(d)
      BY <1>5, BytesConcat
    <3>3. SubSeq(f, 26 + 1, 26 + Len(SrcIp \o d)) = SrcIp \o d
      BY <1>4, <3>1, <3>2, HoldsSlice
    <3>4. QED BY <1>5, <3>2, <3>3
  <2>2. SubSeq(f, 39, 40) = l2
    <3>1. SubSeq(f, 38 + 1, 38 + Len(l2)) = l2 BY <1>4, <1>6, HoldsSlice
    <3>2. QED BY <1>6, <3>1
  <2>3. FrameUdp(f) = U
    <3>1. SubSeq(f, 34 + 1, 34 + Len(U)) = U BY <1>4, HoldsSlice
    <3>2. QED BY <1>1, <1>4, <3>1 DEF FrameUdp
  <2>4. QED BY <1>7, <2>1, <2>2, <2>3 DEF UdpPseudo
<1>10. \A bs : (\E c \in Nat : WordSum(bs) = (Word - 1) * (c + 1)) => Verifies(bs)
  BY MultipleVerifies DEF Verifies
<1>11. QED BY <1>2, <1>8, <1>9, <1>10 DEF f

-----------------------------------------------------------------------------
(* The inductive invariant                                                 *)

Origins == Packets \cup {NoOrig}
Refs == [len : Nat, src : Xbox, dst : Xbox, orig : Origins, read : Nat]

\* What a reference's parts were parsed from.
Parsed(o) == [len |-> Len(o.payload), src |-> o.src, dst |-> o.dst]

\* No packet the network takes makes a 16-bit length wrap or fills the buffer.
Fits(o) == Len(o.payload) + 28 < Word /\ Len(o.payload) <= BufferLen

\* The buffer holds the payload of o at its start.
Holds(o) == \A i \in 1..Len(o.payload) : data[i] = o.payload[i]

\* A packet in a channel is one that was sent, and its payload is still in the
\* buffer unless a later Read has begun.
RefSound(ref) ==
  /\ ref \in Refs /\ ref.read <= reads /\ Fits(ref.orig)
  /\ Parsed(ref.orig) = [len |-> ref.len, src |-> ref.src, dst |-> ref.dst]
  /\ ref.read = reads => rdr # "reading" /\ Holds(ref.orig)

\* The datagram being read is that of the packet in hand.
Arriving ==
  /\ arriving \in Seq(Byte) /\ Len(arriving) <= BufferLen /\ Fits(hand.orig)
  /\ ParseRemoteUdpPacket(arriving) = Parsed(hand.orig)
  /\ Len(hand.orig.payload) <= Len(arriving)
  /\ \A i \in 1..Len(hand.orig.payload) : arriving[i] = hand.orig.payload[i]

Types ==
  /\ sent \subseteq Packets /\ running \in BOOLEAN /\ known \in BOOLEAN
  /\ data \in [1..BufferLen -> Byte] /\ reads \in 0..MaxReads
  /\ rdr \in {"read", "reading", "queue"}
  /\ hand \in Refs /\ hand.len <= BufferLen /\ hand.read <= reads
  /\ localChan \in Seq(Refs) /\ Len(localChan) <= LocalCap
  /\ lmOut \in Seq(Refs) /\ Len(lmOut) <= OutCap

IInv ==
  /\ Types
  /\ \A p \in sent : Len(AsUdpData(p)) <= MaxDatagram
  /\ rdr = "reading" => Arriving
  /\ rdr # "reading" => arriving = <<>>
  /\ rdr = "queue" => RefSound(hand)
  /\ \A i \in 1..Len(localChan) : RefSound(localChan[i])
  /\ \A i \in 1..Len(lmOut) : RefSound(lmOut[i])
  /\ FrameFaithful /\ LengthsExact /\ ChecksumsVerify

\* The zero packet of a datagram too short is a packet of its own.
LEMMA NoOrigFits == NoOrig \in Packet /\ Fits(NoOrig) /\ Len(NoOrig.payload) = 0
BY TunnelAssumption DEF NoOrig, Packet, Zero, Xbox, Byte, Fits, Word, TunnelAssumption, TrailerLen

LEMMA OriginsArePackets == Origins \subseteq Packet
BY NoOrigFits, TunnelAssumption DEF Origins, TunnelAssumption

\* A packet RunWrites could send fits everywhere it goes.
LEMMA SentFits ==
  ASSUME NEW p \in Packets, Len(AsUdpData(p)) <= MaxDatagram
  PROVE  Fits(p) /\ Len(AsUdpData(p)) <= BufferLen
<1>1. p \in Packet BY TunnelAssumption DEF TunnelAssumption
<1>2. Len(AsUdpData(p)) = Len(p.payload) + 12 BY <1>1, RoundTrip DEF TrailerLen
<1>3. Len(p.payload) \in Nat BY <1>1, LenProperties DEF Packet
<1>4. QED BY <1>2, <1>3, TunnelAssumption DEF TunnelAssumption, Fits, Word

\* What ReadPacket and ReadStray put on the way is what they record.
LEMMA StartsArriving ==
  ASSUME IInv, NEW d, NEW o, ReadStarts(d, o),
         (\E p \in sent : d = AsUdpData(p) /\ o = p) \/ (d \in Strays /\ o = NoOrig)
  PROVE  Arriving' /\ hand' \in Refs
<1>1. o \in Origins BY DEF IInv, Types, Origins
<1>2. /\ arriving' = d /\ hand' = [hand EXCEPT !.orig = o]
  BY DEF ReadStarts
<1>3. hand' \in Refs /\ hand'.orig = o BY <1>1, <1>2 DEF IInv, Types, Refs
<1>4. CASE \E p \in sent : d = AsUdpData(p) /\ o = p
  <2>1. o \in Packet /\ o \in Packets /\ d = AsUdpData(o) /\ Len(AsUdpData(o)) <= MaxDatagram
    BY <1>4, TunnelAssumption DEF IInv, Types, TunnelAssumption
  <2>2. Fits(o) /\ Len(d) <= BufferLen BY <2>1, SentFits
  <2>3. /\ d \in Seq(Byte) /\ HoldsAt(d, 0, o.payload)
        /\ ParseRemoteUdpPacket(d) = Parsed(o)
    BY <2>1, RoundTrip DEF Parsed
  <2>4. Len(o.payload) \in Nat BY <2>1, LenProperties DEF Packet
  <2>5. Len(o.payload) <= Len(d) /\ \A i \in 1..Len(o.payload) : d[i] = o.payload[i]
    BY <2>3, <2>4 DEF HoldsAt
  <2>6. QED BY <1>2, <1>3, <2>2, <2>3, <2>5 DEF Arriving, Fits, Parsed
<1>5. CASE d \in Strays /\ o = NoOrig
  <2>1. d \in Seq(Byte) /\ Len(d) < TrailerLen /\ Len(d) \in Nat
    BY <1>5, TunnelAssumption, LenProperties DEF TunnelAssumption
  <2>2. ParseRemoteUdpPacket(d) = Parsed(NoOrig)
    BY <2>1, NoOrigFits DEF ParseRemoteUdpPacket, Parsed, NoOrig
  <2>3. Len(d) <= BufferLen BY <2>1, TunnelAssumption DEF TunnelAssumption, TrailerLen
  <2>4. Len(NoOrig.payload) <= Len(d) /\ (1..Len(NoOrig.payload)) = {}
    BY <2>1, NoOrigFits
  <2>5. QED BY <1>2, <1>3, <1>5, <2>1, <2>2, <2>3, <2>4, NoOrigFits DEF Arriving, Fits, Parsed
<1>6. QED BY <1>3, <1>4, <1>5

\* Once Read has returned the packet in hand is sound: its payload is what the
\* buffer now begins with.
LEMMA EndsSound ==
  ASSUME IInv, ReadEnds PROVE RefSound(hand)' /\ hand.len' <= BufferLen /\ Types'
<1> DEFINE o == hand.orig
           n == Len(o.payload)
<1>1. Arriving /\ o \in Packet /\ o \in Origins /\ reads \in Nat
  BY OriginsArePackets DEF ReadEnds, IInv, Types, Refs
<1>2. n \in Nat /\ o.src \in Xbox /\ o.dst \in Xbox BY <1>1, LenProperties DEF Packet
<1>3. hand' = [len |-> n, src |-> o.src, dst |-> o.dst, orig |-> o, read |-> reads]
  BY <1>1 DEF ReadEnds, Arriving, Parsed, Ref
<1>4. hand' \in Refs /\ hand'.orig = o /\ hand'.len = n /\ hand'.read = reads
  BY <1>1, <1>2, <1>3 DEF Refs
<1>5. rdr' = "queue" /\ reads' = reads /\ data' = Overwritten(data, arriving)
  BY DEF ReadEnds
<1>6. \A i \in 1..n : data'[i] = o.payload[i]
  <2>1. Len(arriving) \in Nat /\ n <= Len(arriving) /\ Len(arriving) <= BufferLen
    BY <1>1, LenProperties DEF Arriving
  <2>2. \A i \in 1..n : i \in 1..BufferLen /\ i <= Len(arriving)
    BY <1>2, <2>1, TunnelAssumption DEF TunnelAssumption
  <2>3. QED BY <1>1, <1>5, <2>2 DEF Overwritten, Arriving
<1>7. data' \in [1..BufferLen -> Byte]
  <2>1. Len(arriving) \in Nat /\ arriving \in [1..Len(arriving) -> Byte]
    BY <1>1, LenProperties DEF Arriving
  <2>2. \A i \in 1..BufferLen : i <= Len(arriving) => arriving[i] \in Byte
    BY <2>1, TunnelAssumption DEF TunnelAssumption
  <2>3. QED BY <1>5, <2>2 DEF Overwritten, IInv, Types
<1>8. n <= BufferLen /\ Fits(o) BY <1>1 DEF Arriving, Fits
<1>9. RefSound(hand)'
  <2>1. Parsed(o) = [len |-> n, src |-> o.src, dst |-> o.dst] BY DEF Parsed
  <2>2. QED BY <1>1, <1>4, <1>5, <1>6, <1>8, <2>1, <1>3 DEF RefSound, Fits, Parsed, Holds
<1>10. Types'
  BY <1>1, <1>4, <1>5, <1>7, <1>8 DEF ReadEnds, IInv, Types, senderVars
<1>11. QED BY <1>4, <1>8, <1>9, <1>10

\* LmInjects builds a faithful frame with exact lengths, whatever bytes it copied
\* out of the buffer; the right ones when no later Read has begun.
LEMMA InjectsFaithfully ==
  ASSUME IInv, LmInjects PROVE FrameFaithful' /\ LengthsExact' /\ ChecksumsVerify'
<1> DEFINE ref == Head(lmOut)
           o == ref.orig
           n == Len(o.payload)
<1>1. RefSound(ref)
  <2>1. lmOut \in Seq(Refs) /\ lmOut # <<>> BY DEF LmInjects, IInv, Types
  <2>2. Len(lmOut) \in Nat /\ Len(lmOut) > 0 /\ Head(lmOut) = lmOut[1] BY <2>1
  <2>3. QED BY <2>2 DEF IInv
<1>2. /\ o \in Packet /\ n \in Nat /\ Fits(o) /\ ref.len = n
      /\ ref.src = o.src /\ ref.dst = o.dst /\ o.src \in Xbox /\ o.dst \in Xbox
      /\ ref.read \in Nat /\ ref.read <= reads
  BY <1>1, OriginsArePackets, LenProperties DEF RefSound, Refs, Parsed, Packet
<1> HIDE DEF ref, o
<1>3. CASE known /\ IsBroadcast(ref.dst)
  <2>1. PICK new \in SUBSET (1..ref.len \cap 1..Len(arriving)) :
          injected' =
            [frame |-> AsTransmittablePcap(
                         [payload |-> [i \in 1..ref.len |-> IF i \in new THEN arriving[i] ELSE data[i]],
                          src |-> ref.src, dst |-> ref.dst]),
             orig |-> o, overtaken |-> reads > ref.read]
    BY <1>3 DEF LmInjects, Injects, Copied, ref, o
  <2> DEFINE bs == [i \in 1..n |-> IF i \in new THEN arriving[i] ELSE data[i]]
             p == [payload |-> bs, src |-> o.src, dst |-> o.dst]
  <2>2. \A i \in 1..n : bs[i] \in Byte
    <3>1. \A i \in 1..Len(arriving) : arriving[i] \in Byte
      <4>1. CASE rdr = "reading" BY <4>1, ElementOfSeq DEF IInv, Arriving
      <4>2. CASE rdr # "reading" BY <4>2 DEF IInv
      <4>3. QED BY <4>1, <4>2
    <3>2. \A i \in 1..n : data[i] \in Byte
      BY <1>2, TunnelAssumption DEF IInv, Types, Fits, TunnelAssumption
    <3>3. QED BY <1>2, <3>1, <3>2
  <2>3. bs \in Seq(Byte) /\ Len(bs) = n
    <3>1. bs \in [1..n -> Byte] BY <2>2
    <3> HIDE DEF bs, n
    <3>2. QED BY <1>2, <3>1, FunctionIsSeq
  <2>4. ~(reads > ref.read) => bs = o.payload
    <3>1. SUFFICES ASSUME ~(reads > ref.read) PROVE bs = o.payload OBVIOUS
    <3>2. ref.read = reads BY <1>2, <3>1 DEF IInv, Types
    <3>3. rdr # "reading" /\ Holds(o) BY <1>1, <3>2 DEF RefSound, o
    <3>4. arriving = <<>> BY <3>3 DEF IInv
    <3>5. new = {} BY <2>1, <3>4
    <3>6. \A i \in 1..n : bs[i] = o.payload[i] BY <3>3, <3>5 DEF Holds
    <3>7. o.payload \in Seq(Byte) BY <1>2 DEF Packet
    <3> HIDE DEF bs
    <3>8. QED BY <2>3, <3>6, <3>7, SeqEqual
  <2>5. p \in Packet /\ Len(p.payload) + 28 < Word
    <3> HIDE DEF bs
    <3>1. QED BY <1>2, <2>3 DEF Packet, Fits
  <2>6. injected' = [frame |-> AsTransmittablePcap(p), orig |-> o, overtaken |-> reads > ref.read]
    BY <1>2, <2>1
  <2> DEFINE f == AsTransmittablePcap(p)
  <2>7. /\ FrameDst(f) = o.dst /\ FrameSrc(f) = o.src /\ FramePayload(f) = bs
        /\ Field16(f, 17) = Len(f) - 14 /\ Field16(f, 39) = Len(FrameUdp(f))
        /\ Verifies(FrameIp(f)) /\ Verifies(UdpPseudo(f))
    <3> HIDE DEF bs
    <3>1. p.payload = bs /\ p.src = o.src /\ p.dst = o.dst OBVIOUS
    <3> HIDE DEF p
    <3>2. QED BY <2>5, <3>1, FrameFields, FrameChecksums
  <2>8. injected'.frame = f /\ injected'.orig = o /\ injected'.overtaken = (reads > ref.read)
    <3> HIDE DEF f
    <3>1. injected' = [frame |-> f, orig |-> o, overtaken |-> reads > ref.read]
      BY <2>6 DEF f
    <3>2. QED BY <3>1
  <2> HIDE DEF f, bs
  <2>9. QED BY <2>3, <2>4, <2>7, <2>8 DEF FrameFaithful, LengthsExact, ChecksumsVerify, Injected
<1>4. CASE ~(known /\ IsBroadcast(ref.dst))
  <2>1. injected' = injected BY <1>4 DEF LmInjects, Injects, ref
  <2>2. QED BY <2>1 DEF IInv, FrameFaithful, LengthsExact, ChecksumsVerify, Injected
<1>5. QED BY <1>3, <1>4

-----------------------------------------------------------------------------
(* Every step keeps IInv                                                   *)

\* The reader's buffer and its place in the loop are all RefSound depends on.
LEMMA RefKept ==
  ASSUME NEW ref, RefSound(ref), UNCHANGED <<data, rdr, reads>> PROVE RefSound(ref)'
BY DEF RefSound, Holds, Refs

\* A Read that begins overtakes everything in the channels; one that ends finds
\* everything overtaken already.
LEMMA RefOvertaken ==
  ASSUME IInv, NEW ref, RefSound(ref),
         \/ reads' = reads + 1
         \/ rdr = "reading" /\ UNCHANGED reads
  PROVE  RefSound(ref)'
<1>1. reads \in Nat /\ ref.read \in Nat /\ ref.read <= reads
  BY DEF RefSound, Refs, IInv, Types
<1>2. CASE reads' = reads + 1 BY <1>1, <1>2 DEF RefSound
<1>3. CASE rdr = "reading" /\ UNCHANGED reads BY <1>1, <1>3 DEF RefSound
<1>4. QED BY <1>2, <1>3

\* What Append and Tail leave of a channel.
LEMMA QueueSteps ==
  ASSUME NEW q \in Seq(Refs), NEW e \in Refs
  PROVE  /\ Append(q, e) \in Seq(Refs) /\ Len(Append(q, e)) = Len(q) + 1
         /\ \A i \in 1..Len(q) + 1 : Append(q, e)[i] = IF i <= Len(q) THEN q[i] ELSE e
         /\ q # <<>> => /\ Head(q) = q[1] /\ 1 \in 1..Len(q) /\ Tail(q) \in Seq(Refs)
                        /\ Len(Tail(q)) = Len(q) - 1
                        /\ \A i \in 1..Len(q) - 1 : Tail(q)[i] = q[i + 1]
<1>1. Len(q) \in Nat OBVIOUS
<1>2. /\ Append(q, e) \in Seq(Refs) /\ Len(Append(q, e)) = Len(q) + 1
      /\ \A i \in 1..Len(q) + 1 : Append(q, e)[i] = IF i <= Len(q) THEN q[i] ELSE e
  OBVIOUS
<1>3. ASSUME q # <<>>
      PROVE  /\ Head(q) = q[1] /\ 1 \in 1..Len(q) /\ Tail(q) \in Seq(Refs)
             /\ Len(Tail(q)) = Len(q) - 1
             /\ \A i \in 1..Len(q) - 1 : Tail(q)[i] = q[i + 1]
  <2>1. 1 \in 1..Len(q) /\ Head(q) = q[1] BY <1>3, <1>1
  <2>2. Tail(q) \in Seq(Refs) /\ Len(Tail(q)) = Len(q) - 1
        /\ \A i \in 1..Len(Tail(q)) : Tail(q)[i] = q[i + 1]
    BY <1>3, HeadTailProperties
  <2>3. QED BY <2>1, <2>2
<1>4. QED BY <1>2, <1>3

\* At the start nothing is in a channel and nothing was read or injected.
LEMMA TunnelInitInv == TunnelInit => IInv
<1> SUFFICES ASSUME TunnelInit PROVE IInv OBVIOUS
<1>1. NoOrig \in Origins /\ Zero \in Xbox BY DEF Origins, Zero, Xbox, Byte
<1>2. ParseRemoteUdpPacket(<<>>) = [len |-> 0, src |-> Zero, dst |-> Zero]
  BY DEF ParseRemoteUdpPacket, TrailerLen
<1>3. hand = [len |-> 0, src |-> Zero, dst |-> Zero, orig |-> NoOrig, read |-> 0]
  BY <1>2 DEF TunnelInit, Ref
<1>4. hand \in Refs /\ hand.len = 0 /\ hand.read = 0 BY <1>1, <1>3 DEF Refs
<1>5. data \in [1..BufferLen -> Byte] BY DEF TunnelInit, Byte
<1>6. Types
  <2>1. /\ localChan = <<>> /\ lmOut = <<>> /\ sent = {} /\ running = TRUE /\ known = FALSE
        /\ reads = 0 /\ rdr = "read"
    BY DEF TunnelInit
  <2>2. <<>> \in Seq(Refs) /\ Len(<<>>) = 0 OBVIOUS
  <2>3. /\ MaxReads \in Nat /\ LocalCap \in Nat /\ OutCap \in Nat /\ BufferLen \in Nat
    BY TunnelAssumption DEF TunnelAssumption
  <2>4. /\ sent \subseteq Packets /\ running \in BOOLEAN /\ known \in BOOLEAN
        /\ reads \in 0..MaxReads /\ rdr \in {"read", "reading", "queue"}
    <3>1. running \in BOOLEAN /\ known \in BOOLEAN BY <2>1
    <3>2. reads \in 0..MaxReads BY <2>1, <2>3
    <3>3. QED BY <2>1, <3>1, <3>2
  <2>5. /\ localChan \in Seq(Refs) /\ Len(localChan) <= LocalCap
        /\ lmOut \in Seq(Refs) /\ Len(lmOut) <= OutCap
    BY <2>1, <2>2, <2>3
  <2>6. hand.len <= BufferLen /\ hand.read <= reads BY <1>4, <2>1, <2>3
  <2>7. QED BY <1>4, <1>5, <2>4, <2>5, <2>6 DEF Types
<1>7. FrameFaithful /\ LengthsExact /\ ChecksumsVerify
  BY DEF TunnelInit, FrameFaithful, LengthsExact, ChecksumsVerify, Injected
<1>8. QED BY <1>6, <1>7 DEF TunnelInit, IInv

\* Every step keeps the inductive invariant.
LEMMA TunnelStep == IInv /\ [TunnelNext]_tunnelVars => IInv'
<1> SUFFICES ASSUME IInv, [TunnelNext]_tunnelVars PROVE IInv' OBVIOUS
<1> USE DEF senderVars, readerVars
<1>1. ASSUME UNCHANGED injected PROVE FrameFaithful' /\ LengthsExact' /\ ChecksumsVerify'
  BY <1>1 DEF IInv, FrameFaithful, LengthsExact, ChecksumsVerify, Injected
<1>2. ASSUME UNCHANGED <<data, rdr, reads, arriving, hand, localChan, lmOut>>
      PROVE  /\ rdr' = "reading" => Arriving'
             /\ rdr' # "reading" => arriving' = <<>>
             /\ rdr' = "queue" => RefSound(hand)'
             /\ \A i \in 1..Len(localChan') : RefSound(localChan[i])'
             /\ \A i \in 1..Len(lmOut') : RefSound(lmOut[i])'
  BY <1>2, RefKept DEF IInv, Arriving
<1>3. ASSUME NEW p \in Packets, RunWrites(p) PROVE IInv'
  <2>1. Types' /\ \A q \in sent' : Len(AsUdpData(q)) <= MaxDatagram
    BY <1>3 DEF RunWrites, IInv, Types
  <2>2. UNCHANGED <<data, rdr, reads, arriving, hand, localChan, lmOut, injected>>
    BY <1>3 DEF RunWrites
  <2>3. QED BY <1>1, <1>2, <2>1, <2>2 DEF IInv
<1>4. ASSUME NEW p \in Packets, RunWriteFails(p) PROVE IInv'
  <2>1. Types' /\ \A q \in sent' : Len(AsUdpData(q)) <= MaxDatagram
    BY <1>4 DEF RunWriteFails, IInv, Types
  <2>2. UNCHANGED <<data, rdr, reads, arriving, hand, localChan, lmOut, injected>>
    BY <1>4 DEF RunWriteFails
  <2>3. QED BY <1>1, <1>2, <2>1, <2>2 DEF IInv
<1>5. ASSUME NEW d, NEW o, ReadStarts(d, o),
             (\E p \in sent : d = AsUdpData(p) /\ o = p) \/ (d \in Strays /\ o = NoOrig)
      PROVE  IInv'
  <2>1. Arriving' /\ hand' \in Refs BY <1>5, StartsArriving
  <2>2. /\ rdr' = "reading" /\ reads' = reads + 1 /\ reads < MaxReads
        /\ UNCHANGED <<data, sent, running, localChan, lmOut, known, injected>>
    BY <1>5 DEF ReadStarts
  <2>3. hand'.len = hand.len /\ hand'.read = hand.read
    BY <1>5 DEF ReadStarts, IInv, Types, Refs
  <2>4. Types'
    BY <2>1, <2>2, <2>3, TunnelAssumption DEF IInv, Types, Refs, TunnelAssumption
  <2>5. /\ \A i \in 1..Len(localChan') : RefSound(localChan[i])'
        /\ \A i \in 1..Len(lmOut') : RefSound(lmOut[i])'
    BY <2>2, RefOvertaken DEF IInv
  <2>6. QED BY <1>1, <2>1, <2>2, <2>4, <2>5 DEF IInv
<1>6. CASE ReadEnds
  <2>1. RefSound(hand)' /\ Types' BY <1>6, EndsSound
  <2>2. /\ rdr = "reading" /\ rdr' = "queue" /\ arriving' = <<>>
        /\ UNCHANGED <<reads, sent, localChan, lmOut, injected>>
    BY <1>6 DEF ReadEnds
  <2>3. /\ \A i \in 1..Len(localChan') : RefSound(localChan[i])'
        /\ \A i \in 1..Len(lmOut') : RefSound(lmOut[i])'
    BY <2>2, RefOvertaken DEF IInv
  <2>4. QED BY <1>1, <2>1, <2>2, <2>3 DEF IInv
<1>7. CASE ReaderQueues
  <2>1. /\ rdr = "queue" /\ rdr' = "read" /\ Len(localChan) < LocalCap
        /\ localChan' = Append(localChan, hand)
        /\ UNCHANGED <<data, arriving, hand, reads, sent, running, lmOut, known, injected>>
    BY <1>7 DEF ReaderQueues, QueuesOne
  <2>2. localChan \in Seq(Refs) /\ hand \in Refs BY DEF IInv, Types
  <2>3. /\ localChan' \in Seq(Refs) /\ Len(localChan') = Len(localChan) + 1
        /\ \A i \in 1..Len(localChan) + 1 :
             localChan'[i] = IF i <= Len(localChan) THEN localChan[i] ELSE hand
    BY <2>1, <2>2, QueueSteps
  <2>4. \A r : RefSound(r) => RefSound(r)'
    BY <2>1 DEF RefSound, Holds, Refs
  <2>5. \A i \in 1..Len(localChan') : RefSound(localChan[i])'
    <3>1. TAKE i \in 1..Len(localChan')
    <3>2. localChan'[i] = IF i <= Len(localChan) THEN localChan[i] ELSE hand BY <2>3
    <3>3. Len(localChan) \in Nat BY <2>2, LenProperties
    <3>4. RefSound(localChan'[i])
      BY <2>1, <2>3, <3>2, <3>3 DEF IInv
    <3>5. QED BY <3>4, <2>1 DEF RefSound, Holds, Refs
  <2>6. Types'
    BY <2>1, <2>2, <2>3, LenProperties, TunnelAssumption DEF IInv, Types, TunnelAssumption
  <2>7. \A i \in 1..Len(lmOut') : RefSound(lmOut[i])' BY <2>1, <2>4 DEF IInv
  <2>8. QED BY <1>1, <2>1, <2>5, <2>6, <2>7 DEF IInv
<1>8. CASE Copy
  <2>1. /\ localChan # <<>> /\ localChan' = Tail(localChan) /\ Len(lmOut) < OutCap
        /\ lmOut' = Append(lmOut, Head(localChan))
        /\ UNCHANGED <<data, rdr, arriving, hand, reads, sent, running, known, injected>>
    BY <1>8 DEF Copy
  <2>2. localChan \in Seq(Refs) /\ lmOut \in Seq(Refs) /\ hand \in Refs
        /\ Len(localChan) \in Nat /\ Len(lmOut) \in Nat
    BY LenProperties DEF IInv, Types
  <2>3. /\ Head(localChan) = localChan[1] /\ 1 \in 1..Len(localChan)
        /\ Tail(localChan) \in Seq(Refs) /\ Len(Tail(localChan)) = Len(localChan) - 1
        /\ \A i \in 1..Len(localChan) - 1 : Tail(localChan)[i] = localChan[i + 1]
    BY <2>1, <2>2, QueueSteps
  <2>4. Head(localChan) \in Refs BY <2>2, <2>3, ElementOfSeq
  <2>5. /\ lmOut' \in Seq(Refs) /\ Len(lmOut') = Len(lmOut) + 1
        /\ \A i \in 1..Len(lmOut) + 1 :
             lmOut'[i] = IF i <= Len(lmOut) THEN lmOut[i] ELSE localChan[1]
    BY <2>1, <2>2, <2>3, <2>4, QueueSteps
  <2>6. /\ \A i \in 1..Len(localChan') : RefSound(localChan'[i])
        /\ \A i \in 1..Len(lmOut') : RefSound(lmOut'[i])
    BY <2>1, <2>2, <2>3, <2>5 DEF IInv
  <2>7. /\ \A i \in 1..Len(localChan') : RefSound(localChan[i])'
        /\ \A i \in 1..Len(lmOut') : RefSound(lmOut[i])'
    BY <2>1, <2>6 DEF RefSound, Holds, Refs
  <2>8. Types'
    BY <2>1, <2>2, <2>3, <2>5, TunnelAssumption DEF IInv, Types, TunnelAssumption
  <2>9. rdr' = "queue" => RefSound(hand)' BY <2>1, RefKept DEF IInv
  <2>10. rdr' = "reading" => Arriving' BY <2>1 DEF IInv, Arriving
  <2>11. QED BY <1>1, <2>1, <2>7, <2>8, <2>9, <2>10 DEF IInv
<1>9. CASE LmInjects
  <2>1. /\ lmOut # <<>> /\ lmOut' = Tail(lmOut)
        /\ UNCHANGED <<data, rdr, arriving, hand, reads, sent, running, known, localChan>>
    BY <1>9 DEF LmInjects
  <2>2. lmOut \in Seq(Refs) /\ hand \in Refs /\ Len(lmOut) \in Nat
    BY LenProperties DEF IInv, Types
  <2>3. /\ Tail(lmOut) \in Seq(Refs) /\ Len(Tail(lmOut)) = Len(lmOut) - 1
        /\ \A i \in 1..Len(lmOut) - 1 : Tail(lmOut)[i] = lmOut[i + 1]
    BY <2>1, <2>2, QueueSteps
  <2>4. \A i \in 1..Len(lmOut') : RefSound(lmOut'[i]) BY <2>1, <2>2, <2>3 DEF IInv
  <2>5. /\ \A i \in 1..Len(lmOut') : RefSound(lmOut[i])'
        /\ \A i \in 1..Len(localChan') : RefSound(localChan[i])'
    BY <2>1, <2>4 DEF IInv, RefSound, Holds, Refs
  <2>6. Types'
    BY <2>1, <2>2, <2>3, TunnelAssumption DEF IInv, Types, TunnelAssumption
  <2>7. (rdr' = "queue" => RefSound(hand)') /\ (rdr' = "reading" => Arriving')
    BY <2>1, RefKept DEF IInv, Arriving
  <2>8. FrameFaithful' /\ LengthsExact' /\ ChecksumsVerify' BY <1>9, InjectsFaithfully
  <2>9. QED BY <2>1, <2>5, <2>6, <2>7, <2>8 DEF IInv
<1>10. CASE UNCHANGED tunnelVars
  <2>1. UNCHANGED <<sent, running, data, rdr, reads, arriving, hand, localChan, lmOut, known, injected>>
    BY <1>10 DEF tunnelVars
  <2>2. Types' BY <2>1 DEF IInv, Types
  <2>3. QED BY <1>1, <1>2, <2>1, <2>2 DEF IInv
<1>11. ReadPacket \/ ReadStray => IInv' BY <1>5 DEF ReadPacket, ReadStray
<1>12. CASE Learn
  <2>1. Types' /\ UNCHANGED <<sent, data, rdr, reads, arriving, hand, localChan, lmOut, injected>>
    BY <1>12 DEF Learn, IInv, Types
  <2>2. QED BY <1>1, <1>2, <2>1 DEF IInv
<1>13. QED BY <1>3, <1>4, <1>6, <1>7, <1>8, <1>9, <1>10, <1>11, <1>12 DEF TunnelNext

\* IInv is an invariant of the tunnel.
THEOREM TunnelInvariant == TunnelSpec => []IInv
BY TunnelInitInv, TunnelStep, PTL DEF TunnelSpec

\* Every variable is of its type and every channel within its capacity.
THEOREM TunnelTypes == TunnelSpec => []TunnelTypeOK
<1>1. IInv => TunnelTypeOK
  <2> SUFFICES ASSUME IInv PROVE TunnelTypeOK OBVIOUS
  <2>1. ASSUME NEW r, r \in Refs, r.len <= BufferLen, r.read <= reads PROVE RefOK(r)
    BY <2>1, TunnelAssumption DEF RefOK, Refs, Origins, IInv, Types, TunnelAssumption
  <2>2. ASSUME NEW r, RefSound(r) PROVE RefOK(r)
    <3>1. r.len = Len(r.orig.payload) /\ r.len <= BufferLen BY <2>2 DEF RefSound, Parsed, Fits
    <3>2. QED BY <2>1, <2>2, <3>1 DEF RefSound
  <2>3. RefOK(hand) BY <2>1 DEF IInv, Types
  <2>4. /\ \A i \in DOMAIN localChan : RefOK(localChan[i])
        /\ \A i \in DOMAIN lmOut : RefOK(lmOut[i])
    <3>1. DOMAIN localChan = 1..Len(localChan) /\ DOMAIN lmOut = 1..Len(lmOut)
      BY LenProperties DEF IInv, Types
    <3>2. QED BY <2>2, <3>1 DEF IInv
  <2>5. QED BY <2>3, <2>4 DEF IInv, Types, TunnelTypeOK
<1>2. QED BY <1>1, TunnelInvariant, PTL

\* A frame that reaches the console is the one its peer captured, but for the
\* payload of one whose buffer a later Read had begun to overwrite; whatever is
\* captured, lost, repeated or reordered.
THEOREM FramesFaithful == TunnelSpec => []FrameFaithful
<1>1. IInv => FrameFaithful BY DEF IInv
<1>2. QED BY <1>1, TunnelInvariant, PTL

\* No payload a UDP datagram can carry with its trailer makes the 16-bit lengths
\* of the rebuilt frame wrap.
THEOREM LengthsNeverWrap == TunnelSpec => []LengthsExact
<1>1. IInv => LengthsExact BY DEF IInv
<1>2. QED BY <1>1, TunnelInvariant, PTL

\* Both checksums of every injected frame verify: any payload, any parity, any
\* number of carries, and a payload overwritten while it was copied.
THEOREM ChecksumsAlwaysVerify == TunnelSpec => []ChecksumsVerify
<1>1. IInv => ChecksumsVerify BY DEF IInv
<1>2. QED BY <1>1, TunnelInvariant, PTL
=============================================================================
