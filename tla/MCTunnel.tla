------------------------------- MODULE MCTunnel -------------------------------
(* A small instance of Tunnel for TLC: see the README for the bounds. *)
EXTENDS Tunnel

Console == <<0, 29, 216, 169, 78, 98>>
Broadcast == <<255, 255, 255, 255, 255, 255>>

Captured(bs, to) == [payload |-> bs, src |-> Console, dst |-> to]

\* An odd payload, one whose UDP sum needs its carry folded twice, one for a
\* single console, and one too long for MCMaxDatagram.
MCPackets ==
  { Captured(<<104>>, Broadcast), Captured(<<231, 214>>, Broadcast),
    Captured(<<1, 2>>, Console), Captured(<<255, 254, 253>>, Broadcast),
    Captured(<<1, 2, 3, 4>>, Broadcast) }

MCStrays == {<<>>, <<255, 255>>}
=============================================================================
