------------------------ MODULE MCDestroyGovernance ------------------------
(* Instances of DestroyGovernance small enough for TLC.                    *)
EXTENDS DestroyGovernance, TLC

CONSTANTS k1, a1, q1, d1, d2, w1, w2

OneKeyOneApp == (k1 :> a1)
Symmetry     == Permutations(Decider) \cup Permutations(Worker)
=============================================================================
