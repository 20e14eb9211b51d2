-------------------------- MODULE MCPeerNegotiation --------------------------
(* PeerNegotiation for TLC: the two ends play different parts, so there is no *)
(* symmetry to use.                                                           *)
EXTENDS PeerNegotiation
=============================================================================
