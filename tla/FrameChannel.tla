----------------------------- MODULE FrameChannel -----------------------------
(***************************************************************************)
(* What one direction of the video promises to its two ends: frames may be *)
(* lost and may overtake one another, but whatever comes out was put in as *)
(* it is, whole, and once unless the network repeats datagrams.            *)
(***************************************************************************)
EXTENDS Naturals, Sequences, Functions

VARIABLES
  handed,      \* number of frames handed in; they are known by their number
  whole,       \* those that were written whole
  received,    \* those that came out, in the order they did
  repeating    \* the network has repeated something

vars == <<handed, whole, received, repeating>>

Init ==
  /\ handed = 0 /\ whole = {}
  /\ received = <<>>
  /\ repeating = FALSE

Send ==
  /\ handed' = handed + 1
  /\ whole' \in {whole, whole \cup {handed'}}
  /\ UNCHANGED <<received, repeating>>

\* The repetition of a datagram may itself complete a frame.
Receive(frame) ==
  /\ frame \in whole
  /\ frame \in Range(received) => repeating
  /\ received' = Append(received, frame)
  /\ repeating' \in {repeating, TRUE}
  /\ UNCHANGED <<handed, whole>>

Repeat ==
  /\ repeating' = TRUE
  /\ UNCHANGED <<handed, whole, received>>

Next == Send \/ Repeat \/ \E frame \in whole : Receive(frame)

Spec == Init /\ [][Next]_vars
=============================================================================
