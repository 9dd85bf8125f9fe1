-------------------------------- MODULE MCPeers --------------------------------
(* Small instances of Peers for TLC: see the README for the bounds. *)
EXTENDS Peers

OneOrNone == {{}, PeerIds}
=============================================================================
