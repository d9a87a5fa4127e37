------------------------ MODULE MCCredentialRotation ------------------------
EXTENDS CredentialRotation, TLC

CONSTANTS q1, q2, c1, c2
=============================================================================
