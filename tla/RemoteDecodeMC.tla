--------------------------- MODULE RemoteDecodeMC ---------------------------
(* Two endpoints, so that the peer can change while frames of the old one  *)
(* are still being decoded.                                                *)
EXTENDS RemoteDecode
CONSTANTS p1, p2
MCPeer == {p1, p2}
=============================================================================
