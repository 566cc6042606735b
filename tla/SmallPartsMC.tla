----------------------------- MODULE SmallPartsMC -----------------------------
(* Two components that share nothing, checked side by side: the first step    *)
(* of a behaviour decides which of them moves.                                *)
EXTENDS AudioBuffers, DatagramPacer

VARIABLE part

MCInit == BuffersInit /\ PacerInit /\ part \in {"buffers", "pacer"}

MCNext ==
  /\ UNCHANGED part
  /\ \/ part = "buffers" /\ BuffersNext /\ UNCHANGED pacerVars
     \/ part = "pacer" /\ PacerNext /\ UNCHANGED bufferVars

MCSpec == MCInit /\ [][MCNext]_<<bufferVars, pacerVars, part>>
=============================================================================
