-------------------------- MODULE NewestFrameView ---------------------------
(***************************************************************************)
(* What the remote video view promises, without threads or queues: frames  *)
(* are offered one after the other; each is settled (shown, or given up),  *)
(* in order, possibly jumping over older ones that a newer one replaced;   *)
(* a reconfiguration empties the view and gives up all that was offered.   *)
(***************************************************************************)
EXTENDS Naturals

VARIABLES
  open,      \* the network is configured
  offered,   \* number of frames offered so far
  settled,   \* every frame up to this one is shown, superseded or given up
  shown      \* the frame on display, 0 for none

vars == <<open, offered, settled, shown>>

Init == open = FALSE /\ offered = 0 /\ settled = 0 /\ shown = 0

Offer ==
  /\ open
  /\ offered' = offered + 1
  /\ UNCHANGED <<open, settled, shown>>

\* A newer frame is settled; the ones before it are superseded.
Settle ==
  /\ open
  /\ \E n \in settled + 1 .. offered :
       /\ settled' = n
       /\ shown' \in {shown, n}
  /\ UNCHANGED <<open, offered>>

Reconfigure ==
  /\ open' \in BOOLEAN
  /\ settled' = offered
  /\ shown' = 0
  /\ UNCHANGED offered

\* The window closes with its last picture.
Close ==
  /\ open' = FALSE
  /\ settled' = offered
  /\ UNCHANGED <<offered, shown>>

Next == Offer \/ Settle \/ Reconfigure \/ Close

\* Whatever is offered is settled in the end.
Safety == Init /\ [][Next]_vars
Spec == Safety /\ WF_vars(Settle)
=============================================================================
