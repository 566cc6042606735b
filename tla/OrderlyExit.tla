----------------------------- MODULE OrderlyExit -----------------------------
(***************************************************************************)
(* What closing the window promises: workers are destroyed only once it    *)
(* has begun, every one of them exactly once, and when the last is gone,   *)
(* not before, that is announced, once.                                    *)
(***************************************************************************)
CONSTANTS Worker

VARIABLES
  closing,      \* shutdownAll has been entered
  alive,        \* workers not yet destroyed
  announced     \* what shutdownCompleted has said, so far: <<>> or <<TRUE>>

vars == <<closing, alive, announced>>

Init ==
  /\ closing = FALSE
  /\ alive = Worker
  /\ announced = <<>>

Close ==
  /\ ~closing
  /\ closing' = TRUE
  /\ UNCHANGED <<alive, announced>>

Destroy(w) ==
  /\ closing
  /\ w \in alive
  /\ alive' = alive \ {w}
  /\ UNCHANGED <<closing, announced>>

Announce ==
  /\ closing /\ alive = {}
  /\ announced = <<>>
  /\ announced' = <<TRUE>>
  /\ UNCHANGED <<closing, alive>>

Exit == Announce \/ \E w \in Worker : Destroy(w)

Next == Close \/ Exit

Safety == Init /\ [][Next]_vars

\* Whoever closes the window need not; once it closes, the exit ends.
Spec == Safety /\ WF_vars(Exit)
=============================================================================
