----------------------------- MODULE MCPeerQueue ------------------------------
(***************************************************************************)
(* Instances of PeerQueue for TLC.                                         *)
(***************************************************************************)
EXTENDS PeerQueue, TLC

CONSTANTS t1, t2, t3, t4

=============================================================================
