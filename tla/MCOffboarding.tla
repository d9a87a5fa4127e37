--------------------------- MODULE MCOffboarding ---------------------------
(* Instances of Offboarding small enough for TLC.                          *)
EXTENDS Offboarding, TLC

CONSTANTS k1, p1, p2, c1, s1, o1

(* p1 and p2 are the rotation and the expiry policy of one key.            *)
OneKey == (p1 :> k1) @@ (p2 :> k1)
=============================================================================
