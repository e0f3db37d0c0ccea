-------------------------- MODULE SessionLifecycle --------------------------
(***************************************************************************)
(* What a session runtime promises to the screens that observe it, on both *)
(* platforms: IperfSessionState as a state machine.  At most one session   *)
(* is under way, a session starts only from a settled state, Stopped is    *)
(* reported only to a user who asked for it, and a session being stopped   *)
(* never shows as running again.                                           *)
(***************************************************************************)
CONSTANT SessionKinds

VARIABLES phase, kind

Busy == {"Starting", "Running", "Stopping"}
Terminal == {"Stopped", "Finished", "Failed"}
Settled == {"Idle"} \cup Terminal

Init ==
  /\ phase = "Idle"
  /\ kind \in SessionKinds

Start ==
  /\ phase \in Settled
  /\ phase' = "Starting"
  /\ kind' \in SessionKinds

Run ==
  /\ phase = "Starting"
  /\ phase' = "Running"
  /\ UNCHANGED kind

Stop ==
  /\ phase \in {"Starting", "Running"}
  /\ phase' = "Stopping"
  /\ UNCHANGED kind

\* A session can fail at any time; it finishes only after it has run.
End ==
  /\ \/ phase = "Stopping" /\ phase' \in Terminal
     \/ phase = "Running" /\ phase' \in {"Finished", "Failed"}
     \/ phase = "Starting" /\ phase' = "Failed"
  /\ UNCHANGED kind

Next == Start \/ Run \/ Stop \/ End

Spec == Init /\ [][Next]_<<phase, kind>>
=============================================================================
