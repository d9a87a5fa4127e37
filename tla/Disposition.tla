---------------------------- MODULE Disposition ----------------------------
(***************************************************************************)
(* How the reconciliation engine derives a disposition from the newest     *)
(* reconciliation_actions row of a desired_state row and the status of its *)
(* newest run (reconciliation/engine.js).  The clock is abstracted to one  *)
(* fact about an accepted exception: whether its expires_at still lies in  *)
(* the future.                                                             *)
(***************************************************************************)
EXTENDS StateMachines

Action ==
  [kind : {"none", "reconcile", "accept_exception"},
   result : {"none", "applied", "failed"},
   unexpired : BOOLEAN]

NoAction      == [kind |-> "none", result |-> "none", unexpired |-> FALSE]
Exception     == [kind |-> "accept_exception", result |-> "applied", unexpired |-> TRUE]
Reconcile(result) ==
  [kind |-> "reconcile", result |-> result, unexpired |-> FALSE]

ExceptionInForce(action) ==
  /\ action.kind = "accept_exception"
  /\ action.result = "applied"
  /\ action.unexpired

computeDispositionOfDrift(action, latestStatus) ==   \* mutant: no independent axis
  CASE ExceptionInForce(action) /\ latestStatus = "DRIFTED" -> "EXCEPTION_ACCEPTED"
    [] /\ action.kind = "reconcile"
       /\ action.result = "applied"
       /\ latestStatus = "COMPLIANT" -> "RECONCILED"
    [] OTHER -> "OPEN"

computeDisposition(action, latestStatus) ==
  CASE ExceptionInForce(action) -> "EXCEPTION_ACCEPTED"
    [] /\ action.kind = "reconcile"
       /\ action.result = "applied"
       /\ latestStatus = "COMPLIANT" -> "RECONCILED"
    [] OTHER -> "OPEN"
=============================================================================
