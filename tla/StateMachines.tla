--------------------------- MODULE StateMachines ---------------------------
(***************************************************************************)
(* The legal-transition tables of domain/state-machines.js.  A machine is  *)
(* a function from a state to the set of states it may move to; a status   *)
(* that does not change is not a transition and is never checked.          *)
(***************************************************************************)

JobStatus         == {"pending", "running", "succeeded", "failed", "rolled_back"}
ObservationStatus == {"COMPLIANT", "DRIFTED", "UNKNOWN"}
DispositionStatus == {"OPEN", "EXCEPTION_ACCEPTED", "RECONCILED"}

JOB_STATES ==
  [s \in JobStatus |->
     CASE s = "pending" -> {"running"}
       [] s = "running" -> {"succeeded", "failed", "rolled_back"}
       [] OTHER         -> {}]

OBSERVATION_STATUS_STATES ==
  [s \in ObservationStatus |-> ObservationStatus \ {s}]

DISPOSITION_STATES ==
  [s \in DispositionStatus |->
     IF s = "RECONCILED" THEN {"OPEN"} ELSE DispositionStatus \ {s}]

(***************************************************************************)
(* assertTransition(machine, from, to) does not throw.                     *)
(***************************************************************************)
LegalTransition(machine, from, to) == to \in machine[from]
=============================================================================
