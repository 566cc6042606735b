----------------------------- MODULE VideoLinkMC ----------------------------
(* Frames of one full payload, of one and a half, and one too large.  The    *)
(* only datagrams are those of the sender.                                   *)
EXTENDS VideoLink

MCFrameKey == 1 .. MaximumFrameId
MCDatagram == {}
MCFrameSizes == {2, 3, 5}
=============================================================================
