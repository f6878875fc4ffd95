------------------------------ MODULE Polling ------------------------------
(***************************************************************************)
(* What a wait promises to the handler that runs it, whatever it polls:    *)
(* the four ...WaitForState of client/*_waiter.go and the loops of the     *)
(* Delete handlers of esc/resource_scheduled_backup.go and                 *)
(* esc/resource_integration*.go.  A wait that returned without an error is *)
(* "reached" until the handler ends or waits again.                        *)
(***************************************************************************)

CONSTANTS
  NoGoal,     \* what is wanted while nothing is
  Failures    \* the states of a resource on which a wait gives up

VARIABLES
  phase,      \* "idle", "waiting" or "reached"
  want,       \* the state waited for
  shown,      \* the state that GET would show now
  trouble     \* a request may fail or the time for the wait may be over

Init == phase = "idle" /\ want = NoGoal

\* From the start of a handler, or right after another wait.
Begin ==
  /\ phase # "waiting"
  /\ phase' = "waiting" /\ want' # NoGoal

\* Success: the state is there, and it is the one that was asked for.
Reach ==
  /\ phase = "waiting" /\ shown = want
  /\ phase' = "reached" /\ want' = want

\* A wait is not given up without a reason.
GiveUp ==
  /\ phase = "waiting" /\ (trouble \/ shown \in Failures)
  /\ phase' = "idle" /\ want' = NoGoal

\* The handler that waited ends.
Leave ==
  /\ phase = "reached"
  /\ phase' = "idle" /\ want' = NoGoal

Next == Begin \/ Reach \/ GiveUp \/ Leave

Spec == Init /\ [][Next]_<<phase, want>>
=============================================================================
