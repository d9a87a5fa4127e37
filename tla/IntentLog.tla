----------------------------- MODULE IntentLog -----------------------------
(***************************************************************************)
(* What desired_state and desired_state_history promise together: the      *)
(* declared intent of a policy is a log.  Position v is the value the      *)
(* policy had at version v, the last element the value in force.  Declared *)
(* values only ever extend it; the undo of a failed provisioning job may   *)
(* amend the value in force, or withdraw the first and only one, but no    *)
(* superseded value is ever rewritten.                                     *)
(***************************************************************************)
EXTENDS Naturals, Sequences

CONSTANT Value

VARIABLE log

Declare(v) ==
  /\ IF log = <<>> THEN TRUE ELSE log[Len(log)] # v
  /\ log' = Append(log, v)

Amend(v) ==
  /\ log # <<>>
  /\ log' = [log EXCEPT ![Len(log)] = v]

Withdraw ==
  /\ Len(log) = 1
  /\ log' = <<>>

Init == log = <<>>
Next == (\E v \in Value : Declare(v) \/ Amend(v)) \/ Withdraw
Spec == Init /\ [][Next]_log
=============================================================================
