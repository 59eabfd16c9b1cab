-------------------------- MODULE EffectLifecycle --------------------------
(***************************************************************************)
(* What an effect promises about its life on an actor (spec section 3,     *)
(* EffectState, and section 5): it is Detached, AttachedDisabled,          *)
(* AttachedRunning or AttachedFinished, and a frame timer is armed exactly *)
(* while it is running.  A running effect does not run for ever: its       *)
(* animation finishes unless it is disabled or detached first.             *)
(***************************************************************************)

VARIABLES
  phase,   \* the effect's EffectState
  armed    \* a periodic frame timer is scheduled for the effect

lvars == <<phase, armed>>

Phases == {"Detached", "Disabled", "Running", "Finished"}

Init == phase = "Detached" /\ armed = FALSE

\* onAttach(node): a freshly attached effect is disabled.
Attach == phase = "Detached" /\ phase' = "Disabled" /\ armed' = FALSE

\* onDetach(): the timer is cancelled before the effect leaves the node.
Detach == phase # "Detached" /\ phase' = "Detached" /\ armed' = FALSE

\* onEnabledChanged(TRUE): the frame clock starts.
Enable ==
  /\ phase \in {"Disabled", "Finished"}
  /\ phase' = "Running"
  /\ armed' = TRUE

\* onEnabledChanged(FALSE): the frame clock stops.
Disable == phase = "Running" /\ phase' = "Disabled" /\ armed' = FALSE

\* step() returned FALSE: the effect disables itself and the timer goes.
Complete == phase = "Running" /\ phase' = "Finished" /\ armed' = FALSE

Next == Attach \/ Detach \/ Enable \/ Disable \/ Complete

Spec == Init /\ [][Next]_lvars /\ WF_lvars(Complete)

\* The timer exists if and only if the effect is running.
TimerIffRunning == armed <=> phase = "Running"

=============================================================================
