------------------------------ MODULE UdpFraming ------------------------------
(***************************************************************************)
(* Packets as bytes: the form in which a captured packet crosses the       *)
(* tunnel (the payload and a twelve-byte trailer with both addresses) and  *)
(* the Ethernet frame rebuilt from it on the other side (udp.go, xbox.go). *)
(* IPv4 and UDP lengths and checksums are 16 bits wide, as there.          *)
(***************************************************************************)
EXTENDS Integers, Sequences

Byte == 0..255
Xbox == [1..6 -> Byte]

Word == 65536  \* 2^16

\* A byte slice too short leaves zeros, one too long is cut.
NewXbox(bs) == [i \in 1..6 |-> IF i <= Len(bs) THEN bs[i] ELSE 0]

IsBroadcast(x) == \A i \in 1..6 : x[i] = 255

\* uint16 as two bytes, the high one first; the conversion cuts higher bits.
BigEndian16(n) == <<(n % Word) \div 256, n % 256>>

Zero == [i \in 1..6 |-> 0]

TrailerLen == 12

AsUdpData(p) == p.payload \o p.src \o p.dst

\* MUTANT: the payload ends before the last address instead of before both.
ParseKeepsSource(d) ==
  IF Len(d) < TrailerLen
    THEN [len |-> 0, src |-> Zero, dst |-> Zero]
    ELSE [len |-> Len(d) - 6,
          src |-> NewXbox(SubSeq(d, Len(d) - 11, Len(d) - 6)),
          dst |-> NewXbox(SubSeq(d, Len(d) - 5, Len(d)))]

\* What the slices of a datagram of the buffer are; fewer than twelve bytes
\* parse to the zero packet.
ParseRemoteUdpPacket(d) ==
  IF Len(d) < TrailerLen
    THEN [len |-> 0, src |-> Zero, dst |-> Zero]
    ELSE [len |-> Len(d) - TrailerLen,
          src |-> NewXbox(SubSeq(d, Len(d) - 11, Len(d) - 6)),
          dst |-> NewXbox(SubSeq(d, Len(d) - 5, Len(d)))]

-----------------------------------------------------------------------------
(* oneAdd                                                                  *)

\* The 16-bit words of the bytes, an odd last byte as a word's high half.
WordSum(bs) ==
  LET sum[i \in 0..(Len(bs) \div 2)] ==
        IF i = 0 THEN 0 ELSE sum[i - 1] + 256 * bs[2 * i - 1] + bs[2 * i]
  IN  sum[Len(bs) \div 2] + IF Len(bs) % 2 = 1 THEN 256 * bs[Len(bs)] ELSE 0

\* MUTANT: the carry is folded once instead of until none is left.
FoldedOnce(n) == (n % Word) + n \div Word

\* for sum>>16 != 0: the carry goes back in at the low end.
Folded(n) ==
  LET fold[k \in Nat] == IF k < Word THEN k ELSE fold[(k % Word) + k \div Word]
  IN  fold[n]

\* uint16(^sum)
OneAdd(bs) == (-1 - Folded(WordSum(bs))) % Word

-----------------------------------------------------------------------------
(* AsTransmittablePcap, with the id LocalManager.run gives it: zero        *)

SrcIp == <<0, 0, 0, 1>>
DstIp(p) == IF IsBroadcast(p.dst) THEN <<255, 255, 255, 255>> ELSE <<0, 0, 0, 1>>

\* MUTANT: the UDP header is left out of the IP total length.
IpLengthPayloadOnly(p) == (Len(p.payload) + 20) % Word

IpLength(p) == (Len(p.payload) + 8 + 20) % Word
UdpLength(p) == (Len(p.payload) + 8) % Word

EtherHeader(p) == p.dst \o p.src \o <<8, 0>>

IpHeader(p, sum) ==
  <<69, 0>> \o BigEndian16(IpLength(p)) \o <<0, 0, 0, 0, 64, 17>>
    \o BigEndian16(sum) \o SrcIp \o DstIp(p)

UdpSegment(p, sum) ==
  <<12, 2, 12, 2>> \o BigEndian16(UdpLength(p)) \o BigEndian16(sum) \o p.payload

PseudoHeader(p) ==
  SrcIp \o DstIp(p) \o <<0, 17>> \o BigEndian16(Len(p.payload) + 8)

AsTransmittablePcap(p) ==
  EtherHeader(p)
    \o IpHeader(p, OneAdd(IpHeader(p, 0)))
    \o UdpSegment(p, OneAdd(PseudoHeader(p) \o UdpSegment(p, 0)))
=============================================================================
