---------------------- MODULE VideoFrameReassemblerMC -----------------------
(* Three frames compete for the room of two.  Two are announced as two       *)
(* fragments of two bytes and one byte, the third as three of one byte.      *)
(* There are also datagrams that contradict them: another timestamp, another *)
(* content, another number of fragments, a fragment too long, one too short. *)
EXTENDS VideoFrameReassembler

MCFrameKey == 1 .. 3

Piece(k, n, i, size, content, timestamp) ==
  [key |-> k, timestampMs |-> timestamp, frameSize |-> 3, fragmentCount |-> n,
   fragmentIndex |-> i, payload |-> [size |-> size, content |-> content]]

MCDatagram ==
  {Piece(k, 2, 0, 2, 0, 0) : k \in 1 .. 2} \cup
  {Piece(k, 2, 1, 1, 0, 0) : k \in 1 .. 2} \cup
  {Piece(3, 3, i, 1, 0, 0) : i \in 0 .. 2} \cup
  {Piece(1, 2, 1, 1, 0, 1), Piece(1, 2, 1, 1, 1, 0), Piece(3, 3, 1, 3, 0, 0),
   Piece(2, 2, 0, 1, 0, 0), Piece(2, 3, 2, 1, 0, 0)}
=============================================================================
