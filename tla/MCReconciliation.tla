-------------------------- MODULE MCReconciliation --------------------------
(* Instances of Reconciliation small enough for TLC.                       *)
EXTENDS Reconciliation

CONSTANTS s1, c1
=============================================================================
