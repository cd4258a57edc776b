---------------------------- MODULE EraseContract ----------------------------
(***************************************************************************)
(* What omachatd promises about panic erasure, without any of its tasks:   *)
(* PanicState and the two ways in which the process may end.               *)
(***************************************************************************)
VARIABLES phase,    \* PanicState
          secrets,  \* whether any key or sealed record is left
          process   \* "up" or "exited"

contractVars == <<phase, secrets, process>>

Reported == {"CleanupComplete", "CleanupFailed"}

Init == phase = "Active" /\ secrets = "present" /\ process = "up"

BeginErase ==
  /\ phase = "Active" /\ phase' = "Erasing"
  /\ UNCHANGED <<secrets, process>>

(* The point of no return lies inside the erasure, before its report. *)
Destroy ==
  /\ phase = "Erasing" /\ secrets = "present" /\ secrets' = "gone"
  /\ UNCHANGED <<phase, process>>

ReportComplete ==
  /\ phase = "Erasing" /\ secrets = "gone" /\ phase' = "CleanupComplete"
  /\ UNCHANGED <<secrets, process>>

ReportFailed ==
  /\ phase = "Erasing" /\ phase' = "CleanupFailed"
  /\ UNCHANGED <<secrets, process>>

BeginStop ==
  /\ phase = "Active" /\ phase' = "Stopping"
  /\ UNCHANGED <<secrets, process>>

Exit ==
  /\ phase \in Reported \cup {"Stopping"} /\ process = "up" /\ process' = "exited"
  /\ UNCHANGED <<phase, secrets>>

Next ==
  process = "up" /\ (BeginErase \/ Destroy \/ ReportComplete \/ ReportFailed \/ BeginStop \/ Exit)

(* An erasure that began is reported, and then the process ends; a stop too. *)
Fairness ==
  /\ WF_contractVars(process = "up" /\ (ReportComplete \/ ReportFailed))
  /\ WF_contractVars(process = "up" /\ Exit)

SafetySpec == Init /\ [][Next]_contractVars
Spec == SafetySpec /\ Fairness

=============================================================================
