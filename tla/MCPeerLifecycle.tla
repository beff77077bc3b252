-------------------------- MODULE MCPeerLifecycle --------------------------
(* Small instances of PeerLifecycle for TLC. *)
EXTENDS PeerLifecycle

CONSTANTS p1, p2

OnePeer == {p1}
TwoPeers == {p1, p2}
=============================================================================
