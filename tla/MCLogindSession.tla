-------------------------- MODULE MCLogindSession ---------------------------
\* Instances of LogindSession for TLC.
EXTENDS LogindSession, TLC
=============================================================================
