---------------------------- MODULE AudioStreamMC ---------------------------
(* Two sessions of a few packets; the first sequence is near the wrap.  The   *)
(* strays are a packet of someone else's and packets without a session or a   *)
(* sequence.                                                                  *)
EXTENDS AudioStream
MCSession == {1, 2}
MCPayload == [session : {1, 2}, position : 1 .. PacketBound]
MCStray ==
  {[from |-> "stranger", wellFormed |-> TRUE, session |-> 2, sequence |-> 1,
    payload |-> [session |-> 2, position |-> 1]]} \cup
  {[from |-> "peer", wellFormed |-> wellFormed, session |-> session,
    sequence |-> sequence, payload |-> [session |-> 1, position |-> 1]] :
     <<wellFormed, session, sequence>> \in
       {<<TRUE, 0, 1>>, <<TRUE, 1, 0>>, <<FALSE, 1, 1>>}}
=============================================================================
