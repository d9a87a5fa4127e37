-------------------------- MODULE MCEvidenceIngest --------------------------
EXTENDS EvidenceIngest, TLC

CONSTANTS w1, w2
=============================================================================
