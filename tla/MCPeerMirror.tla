---------------------------- MODULE MCPeerMirror ----------------------------
(* One mirror, its task over there, and the three that read it.              *)
EXTENDS PeerMirror
=============================================================================
