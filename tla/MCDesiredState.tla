-------------------------- MODULE MCDesiredState --------------------------
(* Instances of DesiredState small enough for TLC.                         *)
EXTENDS DesiredState

CONSTANTS o1, o2, p1
=============================================================================
