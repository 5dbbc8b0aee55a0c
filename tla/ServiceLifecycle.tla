-------------------------- MODULE ServiceLifecycle --------------------------
(***************************************************************************)
(* What the service manager and the tools that use it may expect of the    *)
(* service hikbridge: it reports RUNNING only after START_PENDING, never   *)
(* again once it was asked to stop, and a stop that it accepted ends.      *)
(* It may end at any time.                                                 *)
(***************************************************************************)
VARIABLE state  \* the state the service manager shows

States == {"stopped", "start_pending", "running", "stop_pending"}

Init == state = "stopped"

Move(from, to) == state \in from /\ state' = to

Launch == Move({"stopped"}, "start_pending")
Up     == Move({"start_pending"}, "running")
Ask    == Move({"running"}, "stop_pending")
Down   == Move({"start_pending", "running", "stop_pending"}, "stopped")

Next == Launch \/ Up \/ Ask \/ Down

Spec == Init /\ [][Next]_state

\* A stop that was accepted ends.
FairSpec == Spec /\ WF_state(state = "stop_pending" /\ Down)
=============================================================================
